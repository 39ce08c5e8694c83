-------------------------- MODULE SiadBuild_proofs --------------------------
(***************************************************************************)
(* Proofs about SiadBuild, for any releases, tags and exclusions, and any  *)
(* number of commands that fail.  That a binary is the one its directory   *)
(* is named for never asks what the versions to build are.  That these are *)
(* the promised ones is about lists: Arrangement shows that a list can be  *)
(* sorted at all, and each later lemma that a step of GetReleases keeps    *)
(* the order and how often each release occurs.                            *)
(***************************************************************************)
EXTENDS SiadBuild, FunctionTheorems, FiniteSetTheorems, TLAPS

(* The commits that are told apart are different ones. *)
LEMMA Commits == Master # Pinned /\ Special # Master /\ Special # Pinned
  BY V140Assumption DEF Master, Pinned, Special

(* The checkouts of a build.  Each names the head that the next step needs *)
(* and finds the clone that the steps before it have made.                 *)
LEMMA CheckoutStep ==
  ASSUME IInv, Update \/ PinMerkletree \/ CheckoutVersion \/ UnpinMerkletree \/ CheckoutMaster
  PROVE  IInv'
<1> USE Commits DEF IInv, PinIsKnown, ClonesAreThere, BinaryIsOfItsVersion, Pinning,
                    GitCheckout, NoRepository, Goes, Goto, Fails, Repos
<1>1. CASE Update
  BY <1>1 DEF Update
<1>2. CASE PinMerkletree
  BY <1>2 DEF PinMerkletree
<1>3. CASE CheckoutVersion
  BY <1>3 DEF CheckoutVersion
<1>4. CASE UnpinMerkletree
  BY <1>4 DEF UnpinMerkletree
<1>5. CASE CheckoutMaster
  BY <1>5 DEF CheckoutMaster
<1> QED BY <1>1, <1>2, <1>3, <1>4, <1>5

(* The other steps check nothing out.                                      *)
LEMMA LoopStep ==
  ASSUME IInv, CloneSia \/ NextVersion \/ CloneMerkletree \/ ResetSia
  PROVE  IInv'
<1> USE DEF IInv, PinIsKnown, ClonesAreThere, BinaryIsOfItsVersion, Pinning, Goes, Goto, Fails
<1>1. CASE CloneSia
  BY <1>1 DEF CloneSia, GitClone, Repos
<1>2. CASE NextVersion
  BY <1>2 DEF NextVersion
<1>3. CASE CloneMerkletree
  BY <1>3 DEF CloneMerkletree, GitClone, Repos
<1>4. CASE ResetSia
  BY <1>4 DEF ResetSia
<1> QED BY <1>1, <1>2, <1>3, <1>4

(* A binary is written from the two heads of its step: Sia's is the        *)
(* version, merkletree's is pinned for v1.4.0 and otherwise only if        *)
(* pinLeft tells so.                                                       *)
LEMMA CompileStep == ASSUME IInv, Compile PROVE IInv'
<1>1. CASE Fails /\ UNCHANGED <<binary, dir, head>>
  BY <1>1 DEF IInv, PinIsKnown, ClonesAreThere, BinaryIsOfItsVersion, Pinning, Goto, Fails
<1>2. CASE /\ Goto(IF Head(list) = Special THEN "unpin" ELSE "reset")
           /\ binary' = [binary EXCEPT ![Head(list)] = head]
           /\ UNCHANGED <<list, pinLeft, dir, head>>
  <2>1. BinaryIsOfItsVersion'
    <3> SUFFICES ASSUME NEW v \in Buildable, binary'[v] # NoBinary
                 PROVE  /\ binary'[v]["sia"] = v
                        /\ v = Special => binary'[v]["merkletree"] = Pinned
                        /\ v # Special => binary'[v]["merkletree"] = Master \/ pinLeft'
      BY DEF BinaryIsOfItsVersion, Buildable
    <3>1. CASE v = Head(list)
      <4>1. pc = "compile" /\ pinLeft' = pinLeft /\ binary'[v] = head
        BY <1>2, <3>1 DEF Compile, IInv
      <4> QED BY <3>1, <4>1 DEF IInv, PinIsKnown, Pinning
    <3>2. CASE v # Head(list)
      BY <1>2, <3>2 DEF IInv, BinaryIsOfItsVersion
    <3> QED BY <3>1, <3>2
  <2>2. PinIsKnown' /\ ClonesAreThere'
    BY <1>2 DEF Compile, IInv, PinIsKnown, ClonesAreThere, Pinning, Goto
  <2> QED BY <1>2, <2>1, <2>2 DEF Compile, IInv, Goto
<1> QED BY <1>1, <1>2 DEF Compile

(* Builds of any versions, in any order, that fail anywhere.               *)
THEOREM Invariant == Spec => []IInv
<1>1. Init => IInv
  BY Commits DEF Init, IInv, PinIsKnown, ClonesAreThere, BinaryIsOfItsVersion, Pinning, Repos
<1>2. IInv /\ [Next]_vars => IInv'
  <2> SUFFICES ASSUME IInv, [Next]_vars PROVE IInv'
    OBVIOUS
  <2>1. CASE Select \/ Call \/ UNCHANGED vars
    BY <2>1 DEF Select, Call, vars, IInv, PinIsKnown, ClonesAreThere, BinaryIsOfItsVersion,
                Pinning
  <2>2. CASE BuildStep
    BY <2>2, CheckoutStep, LoopStep, CompileStep DEF BuildStep
  <2> QED BY <2>1, <2>2 DEF Next
<1> QED BY <1>1, <1>2, PTL DEF Spec

(* A binary was compiled from the version of Sia that its directory is     *)
(* named for and, unless a build failed with merkletree pinned, with       *)
(* merkletree pinned exactly for v1.4.0 (build_binaries.go:135 and :220).  *)
THEOREM RightBinary == Spec => []BinaryIsOfItsVersion
  BY Invariant, PTL DEF IInv

(* A set of numbers has a least one. *)
LEMMA LeastNumber ==
  ASSUME NEW T, T \subseteq Nat, T # {}
  PROVE  Min(T) \in T /\ \A y \in T : Min(T) <= y
<1>1. IsWellFoundedOn(OpToRel(<, Nat), Nat)
  BY NatLessThanWellFounded
<1>2. PICK x \in T : \A y \in T : ~(<<y, x>> \in OpToRel(<, Nat))
  BY <1>1, WFMin
<1>3. ASSUME NEW y \in T PROVE x <= y
  <2>1. x \in Nat /\ y \in Nat
    OBVIOUS
  <2>2. ~(y < x)
    BY <1>2, <2>1 DEF OpToRel
  <2> QED BY <2>1, <2>2
<1> QED BY <1>3 DEF Min

(* Finite sets that a bijection takes to each other have as many elements. *)
LEMMA SameNumber ==
  ASSUME NEW S, NEW T, NEW p \in Bijection(S, T), IsFiniteSet(S),
         NEW A, A \subseteq S, NEW B, B \subseteq T, \A i \in S : i \in A <=> p[i] \in B
  PROVE  Cardinality(A) = Cardinality(B)
<1> DEFINE f == [i \in A |-> p[i]]
<1>1. /\ p \in [S -> T]
      /\ \A a, b \in S : p[a] = p[b] => a = b
      /\ \A t \in T : \E i \in S : p[i] = t
  BY Fun_BijectionProperties
<1>2. f \in [A -> B] /\ (\A a, b \in A : f[a] = f[b] => a = b)
  BY <1>1
<1>3. \A t \in B : \E i \in A : f[i] = t
  BY <1>1
<1>4. f \in Bijection(A, B)
  BY <1>2, <1>3, Fun_IsBij
<1>5. IsFiniteSet(A) /\ ExistsBijection(A, B)
  BY <1>4, FS_Subset DEF ExistsBijection
<1> QED BY <1>5, FS_Bijection

(* Positions can be arranged by their keys: each goes to the place that    *)
(* counts the positions before it, those with equal keys in their order.   *)
LEMMA Arrangement ==
  ASSUME NEW K, IsFiniteSet(K), K \subseteq Nat, NEW key, \A k \in K : key[k] \in Nat
  PROVE  /\ Arranged(K, key) \in Bijection(1 .. Cardinality(K), K)
         /\ \A i, j \in 1 .. Cardinality(K) :
              i < j => key[Arranged(K, key)[i]] <= key[Arranged(K, key)[j]]
<1> DEFINE Before(k) == {j \in K : key[j] < key[k] \/ (key[j] = key[k] /\ j < k)}
           n     == Cardinality(K)
           place == [k \in K |-> Cardinality(Before(k)) + 1]
<1>1. n \in Nat
  BY FS_CardinalityType
<1>2. ASSUME NEW k \in K
      PROVE  IsFiniteSet(Before(k)) /\ Cardinality(Before(k)) \in Nat /\ place[k] \in 1 .. n
  <2>1. Before(k) \in SUBSET K /\ k \notin Before(k)
    OBVIOUS
  <2>2. IsFiniteSet(Before(k)) /\ Cardinality(Before(k)) <= n /\ Cardinality(Before(k)) # n
    BY <2>1, FS_Subset
  <2>3. Cardinality(Before(k)) \in Nat
    BY <2>2, FS_CardinalityType
  <2> HIDE DEF Before, n
  <2> QED BY <1>1, <2>2, <2>3
<1>3. ASSUME NEW k \in K, NEW l \in K, k \in Before(l) PROVE place[k] < place[l]
  <2>1. Before(k) \in SUBSET Before(l) /\ k \notin Before(k)
    <3>1. /\ k \in Nat /\ l \in Nat /\ key[k] \in Nat /\ key[l] \in Nat
          /\ key[k] < key[l] \/ (key[k] = key[l] /\ k < l)
      BY <1>3
    <3>2. ASSUME NEW j \in Before(k) PROVE j \in Before(l)
      <4>1. /\ j \in K /\ j \in Nat /\ key[j] \in Nat
            /\ key[j] < key[k] \/ (key[j] = key[k] /\ j < k)
        OBVIOUS
      <4>2. key[j] < key[l] \/ (key[j] = key[l] /\ j < l)
        BY <3>1, <4>1
      <4> QED BY <4>1, <4>2
    <3>3. k \notin Before(k)
      BY <3>1
    <3> QED BY <3>2, <3>3
  <2>2. Cardinality(Before(k)) <= Cardinality(Before(l)) /\ Cardinality(Before(k)) # Cardinality(Before(l))
    BY <1>2, <1>3, <2>1, FS_Subset
  <2> HIDE DEF Before
  <2> QED BY <1>2, <2>2
<1>4. \A k, l \in K : k # l => k \in Before(l) \/ l \in Before(k)
  OBVIOUS
<1>5. place \in [K -> 1 .. n] /\ \A k, l \in K : place[k] = place[l] => k = l
  <2> HIDE DEF Before, n
  <2>1. place \in [K -> 1 .. n]
    BY <1>2
  <2>2. ASSUME NEW k \in K, NEW l \in K, place[k] = place[l] PROVE k = l
    <3>1. place[k] \in Nat /\ place[l] \in Nat
      BY <1>1, <2>1
    <3> QED BY <1>3, <1>4, <2>2, <3>1
  <2> QED BY <2>1, <2>2
<1>6. place \in Bijection(K, 1 .. n)
  <2> HIDE DEF place
  <2>1. place \in Injection(K, 1 .. n)
    BY <1>5, Fun_IsInj
  <2>2. IsFiniteSet(1 .. n) /\ Cardinality(1 .. n) = n
    BY <1>1, FS_Interval
  <2>3. place \in Surjection(K, 1 .. n)
    BY <2>1, <2>2, FS_Injection
  <2> QED BY <2>1, <2>3 DEF Bijection
<1> HIDE DEF place
<1> DEFINE p == Inverse(place, K, 1 .. n)
<1>7. p \in Bijection(1 .. n, K) /\ \A k \in K : p[place[k]] = k
  BY <1>6, Fun_BijInverse
<1>8. ASSUME NEW i \in 1 .. n, NEW j \in 1 .. n, i < j PROVE key[p[i]] <= key[p[j]]
  <2>0. \A t \in 1 .. n : \E k \in K : place[k] = t
    BY <1>6 DEF Bijection, Surjection
  <2>1. PICK k \in K : place[k] = i
    BY <2>0
  <2>2. PICK l \in K : place[l] = j
    BY <2>0
  <2>3. p[i] = k /\ p[j] = l
    BY <1>7, <2>1, <2>2
  <2>4. i \in Nat /\ j \in Nat
    BY <1>1
  <2>5. l \notin Before(k)
    <3> HIDE DEF Before
    <3> QED BY <1>3, <1>8, <2>1, <2>2, <2>4
  <2>6. key[k] <= key[l]
    BY <2>5
  <2> QED BY <2>3, <2>6
<1> HIDE DEF n, p
<1>9. \E q \in Bijection(1 .. n, K) : \A i, j \in 1 .. n : i < j => key[q[i]] <= key[q[j]]
  BY <1>7, <1>8
<1> QED BY <1>9 DEF Arranged, n

(* What Listed returns: the elements at the positions K, each once.        *)
IsListing(r, s, K, key) ==
  \E p \in Bijection(1 .. Cardinality(K), K) :
    /\ \A i \in 1 .. Cardinality(K) : p[i] \in K /\ r[i] = s[p[i]]
    /\ \A i, j \in 1 .. Cardinality(K) : i < j => key[p[i]] <= key[p[j]]

LEMMA ListedElements ==
  ASSUME NEW s, NEW K, IsFiniteSet(K), K \subseteq Nat, NEW key, \A k \in K : key[k] \in Nat
  PROVE  /\ Cardinality(K) \in Nat
         /\ DOMAIN Listed(s, K, key) = 1 .. Cardinality(K)
         /\ IsListing(Listed(s, K, key), s, K, key)
<1> DEFINE p == Arranged(K, key)
<1>1. /\ p \in Bijection(1 .. Cardinality(K), K)
      /\ \A i, j \in 1 .. Cardinality(K) : i < j => key[p[i]] <= key[p[j]]
  BY Arrangement
<1>2. Cardinality(K) \in Nat
  BY FS_CardinalityType
<1>3. p \in [1 .. Cardinality(K) -> K]
  BY <1>1, Fun_BijectionProperties
<1>4. \A i \in 1 .. Cardinality(K) : Listed(s, K, key)[i] = s[p[i]]
  BY DEF Listed
<1> HIDE DEF p
<1>5. \A i \in 1 .. Cardinality(K) : p[i] \in K
  BY <1>3
<1>6. DOMAIN Listed(s, K, key) = 1 .. Cardinality(K)
  BY DEF Listed
<1> QED BY <1>1, <1>2, <1>4, <1>5, <1>6 DEF IsListing

Places(s, n) == {i \in DOMAIN s : s[i] = n}
IsAscending(s) == \A i, j \in DOMAIN s : i < j => s[i] <= s[j]

(* The sorted tags: each from the minimal release on, as often as listed.  *)
LEMMA SortedTags ==
  ASSUME NEW s \in Seq(Nums), NEW least \in Nat
  PROVE  /\ Sorted(s, least) \in Seq(Nums) /\ IsAscending(Sorted(s, least))
         /\ \A n \in Nums : Cardinality(Places(Sorted(s, least), n)) =
                              IF n >= least THEN Cardinality(Places(s, n)) ELSE 0
<1> DEFINE K == {i \in DOMAIN s : s[i] >= least}
           r == Sorted(s, least)
           m == Cardinality(K)
<1>1. IsFiniteSet(K) /\ K \subseteq Nat /\ \A k \in K : s[k] \in Nat /\ s[k] \in Nums
  <2>1. K \in SUBSET (1 .. Len(s)) /\ Len(s) \in Nat /\ IsFiniteSet(1 .. Len(s))
    BY FS_Interval
  <2>2. IsFiniteSet(K)
    BY <2>1, FS_Subset
  <2>3. ASSUME NEW k \in K PROVE k \in Nat /\ s[k] \in Nat /\ s[k] \in Nums
    <3>1. k \in DOMAIN s /\ Len(s) \in Nat /\ DOMAIN s = 1 .. Len(s)
      OBVIOUS
    <3>2. s[k] \in Nums
      BY <3>1
    <3>3. s[k] \in Nat
      BY <3>2, NumsAssumption
    <3>4. k \in Nat
      BY <3>1
    <3> QED BY <3>2, <3>3, <3>4
  <2> HIDE DEF K
  <2> QED BY <2>2, <2>3
<1>2. r = Listed(s, K, s)
  BY DEF Sorted
<1> HIDE DEF r, K
<1>4. m \in Nat /\ DOMAIN r = 1 .. m
  BY <1>1, <1>2, ListedElements
<1> HIDE DEF m
<1>3. PICK p \in Bijection(1 .. m, K) :
        /\ \A i \in 1 .. m : p[i] \in K /\ r[i] = s[p[i]]
        /\ \A i, j \in 1 .. m : i < j => s[p[i]] <= s[p[j]]
  <2>1. \A k \in K : s[k] \in Nat
    BY <1>1
  <2>2. IsListing(r, s, K, s)
    BY <1>1, <1>2, <2>1, ListedElements
  <2> QED BY <2>2 DEF m, IsListing
<1>5. \A i \in 1 .. m : r[i] \in Nums
  BY <1>1, <1>3
<1>6. r \in Seq(Nums)
  <2>1. r = [i \in 1 .. m |-> r[i]]
    BY <1>2, <1>4 DEF Listed, m
  <2> QED BY <1>4, <1>5, <2>1
<1>7. IsAscending(r)
  BY <1>3, <1>4 DEF IsAscending
<1>8. ASSUME NEW n \in Nums
      PROVE  Cardinality(Places(r, n)) = IF n >= least THEN Cardinality(Places(s, n)) ELSE 0
  <2>1. CASE n >= least
    <3>1. Places(r, n) \subseteq 1 .. m /\ Places(s, n) \subseteq K
      BY <1>4, <2>1 DEF Places, K
    <3>2. \A i \in 1 .. m : i \in Places(r, n) <=> p[i] \in Places(s, n)
      BY <1>3, <1>4 DEF Places, K
    <3>3. IsFiniteSet(1 .. m)
      BY <1>4, FS_Interval
    <3>4. Cardinality(Places(r, n)) = Cardinality(Places(s, n))
      <4>1. p \in Bijection(1 .. m, K)
        BY <1>3
      <4> DEFINE S == 1 .. m
                 A == Places(r, n)
                 B == Places(s, n)
      <4>2. /\ p \in Bijection(S, K) /\ IsFiniteSet(S) /\ A \subseteq S /\ B \subseteq K
            /\ \A i \in S : i \in A <=> p[i] \in B
        BY <3>1, <3>2, <3>3, <4>1
      <4> HIDE DEF S, A, B
      <4>3. Cardinality(A) = Cardinality(B)
        BY <4>2, SameNumber
      <4> QED BY <4>3 DEF A, B
    <3> QED BY <2>1, <3>4
  <2>2. CASE ~(n >= least)
    <3>1. Places(r, n) = {}
      BY <1>3, <1>4, <2>2 DEF Places, K
    <3> QED BY <2>2, <3>1, FS_EmptySet
  <2> QED BY <2>1, <2>2
<1> QED BY <1>6, <1>7, <1>8 DEF r

(* v1.5.5 is put between the earlier and the later releases, once, and     *)
(* nothing is lost; it is left alone when it is there.                     *)
LEMMA V155Inserted ==
  ASSUME NEW s \in Seq(Nums), IsAscending(s)
  PROVE  /\ WithV155(s) \in Seq(Nums) /\ IsAscending(WithV155(s))
         /\ \A n \in Nums : Cardinality(Places(WithV155(s), n)) =
              IF n = V155 /\ Places(s, n) = {} THEN 1 ELSE Cardinality(Places(s, n))
<1>1. CASE \E i \in DOMAIN s : s[i] = V155
  BY <1>1 DEF WithV155, Places
<1>2. CASE ~ \E i \in DOMAIN s : s[i] = V155
  <2> DEFINE later == {i \in DOMAIN s : s[i] > V155}
             at == IF later = {} THEN Len(s) + 1 ELSE Min(later)
             r  == WithV155(s)
  <2>1. /\ r = InsertAt(s, at, V155)
        /\ Len(s) \in Nat /\ DOMAIN s = 1 .. Len(s) /\ V155 \in Nat /\ V155 \in Nums
        /\ \A i \in 1 .. Len(s) : s[i] \in Nat /\ s[i] \in Nums
    <3>1. r = InsertAt(s, at, V155)
      BY <1>2 DEF WithV155
    <3> HIDE DEF r, at
    <3>2. Len(s) \in Nat /\ DOMAIN s = 1 .. Len(s) /\ \A i \in 1 .. Len(s) : s[i] \in Nums
      OBVIOUS
    <3> QED BY <3>1, <3>2, NumsAssumption
  <2>2. /\ at \in 1 .. Len(s) + 1
        /\ \A i \in 1 .. Len(s) : IF i < at THEN s[i] < V155 ELSE s[i] > V155
    <3>1. CASE later = {}
      BY <1>2, <2>1, <3>1
    <3>2. CASE later # {}
      <4>1. at \in later /\ \A i \in later : at <= i
        <5>1. later \subseteq Nat
          OBVIOUS
        <5> HIDE DEF later
        <5> QED BY <3>2, <5>1, LeastNumber
      <4> HIDE DEF at
      <4>2. at \in 1 .. Len(s) /\ s[at] > V155
        BY <2>1, <4>1
      <4>3. ASSUME NEW i \in 1 .. Len(s), i < at PROVE s[i] < V155
        BY <1>2, <2>1, <4>1, <4>2, <4>3
      <4>4. ASSUME NEW i \in 1 .. Len(s), ~(i < at) PROVE s[i] > V155
        <5>1. i = at \/ at < i
          BY <4>2, <4>4
        <5>2. s[at] <= s[i]
          BY <2>1, <4>2, <5>1 DEF IsAscending
        <5> QED BY <2>1, <4>2, <5>2
      <4> QED BY <4>2, <4>3, <4>4
    <3> QED BY <3>1, <3>2
  <2> HIDE DEF at, r
  <2>3. /\ r \in Seq(Nums) /\ DOMAIN r = 1 .. Len(s) + 1
        /\ \A i \in 1 .. Len(s) + 1 :
             r[i] = IF i < at THEN s[i] ELSE IF i = at THEN V155 ELSE s[i - 1]
    <3> DEFINE front == SubSeq(s, 1, at - 1)
               back == SubSeq(s, at, Len(s))
    <3>0. at \in Nat /\ 1 <= at /\ at <= Len(s) + 1
      BY <2>1, <2>2
    <3>1. /\ front \in Seq(Nums) /\ Len(front) = at - 1
          /\ \A i \in 1 .. at - 1 : front[i] = s[i]
      BY <2>1, <3>0
    <3>2. /\ back \in Seq(Nums) /\ Len(back) = Len(s) + 1 - at
          /\ \A i \in 1 .. Len(s) + 1 - at : back[i] = s[at + i - 1]
      BY <2>1, <3>0
    <3>3. r = (front \o <<V155>>) \o back
      BY <2>1 DEF InsertAt
    <3> HIDE DEF front, back
    <3>4. /\ front \o <<V155>> \in Seq(Nums) /\ Len(front \o <<V155>>) = at
          /\ \A i \in 1 .. at : (front \o <<V155>>)[i] = IF i < at THEN s[i] ELSE V155
      BY <2>1, <3>0, <3>1
    <3> DEFINE begin == front \o <<V155>>
    <3> HIDE DEF begin
    <3>5. r \in Seq(Nums) /\ Len(r) = Len(s) + 1
      BY <2>1, <3>0, <3>2, <3>3, <3>4 DEF begin
    <3>6. ASSUME NEW i \in 1 .. Len(s) + 1
          PROVE  r[i] = IF i < at THEN s[i] ELSE IF i = at THEN V155 ELSE s[i - 1]
      <4>0. r = begin \o back /\ begin \in Seq(Nums) /\ Len(begin) = at
        BY <3>3, <3>4 DEF begin
      <4>1. CASE i <= at
        <5>1. i \in 1 .. at /\ r[i] = begin[i]
          BY <2>1, <3>0, <3>2, <4>0, <4>1
        <5> QED BY <3>0, <3>4, <5>1 DEF begin
      <4>2. CASE i > at
        <5>1. r[i] = back[i - at] /\ i - at \in 1 .. Len(s) + 1 - at
          BY <2>1, <3>0, <3>2, <4>0, <4>2
        <5>2. at + (i - at) - 1 = i - 1 /\ ~(i < at) /\ i # at
          BY <2>1, <3>0, <4>2
        <5> QED BY <3>2, <5>1, <5>2
      <4> QED BY <3>0, <4>1, <4>2
    <3> QED BY <2>1, <3>5, <3>6
  <2>4. IsAscending(r)
    <3> SUFFICES ASSUME NEW i \in 1 .. Len(s) + 1, NEW j \in 1 .. Len(s) + 1, i < j
                 PROVE  r[i] <= r[j]
      BY <2>3 DEF IsAscending
    <3>1. CASE j < at
      <4>1. i \in 1 .. Len(s) /\ j \in 1 .. Len(s) /\ r[i] = s[i] /\ r[j] = s[j]
        BY <2>1, <2>2, <2>3, <3>1
      <4> QED BY <2>1, <4>1 DEF IsAscending
    <3>2. CASE i < at /\ ~(j < at)
      <4>1. i \in 1 .. Len(s) /\ r[i] = s[i] /\ s[i] < V155
        BY <2>1, <2>2, <2>3, <3>2
      <4>2. \/ r[j] = V155
            \/ j - 1 \in 1 .. Len(s) /\ ~(j - 1 < at) /\ r[j] = s[j - 1]
        BY <2>1, <2>2, <2>3, <3>2
      <4>3. r[j] \in Nat /\ V155 <= r[j]
        BY <2>1, <2>2, <4>2
      <4> QED BY <2>1, <4>1, <4>3
    <3>3. CASE ~(i < at)
      <4>1. j - 1 \in 1 .. Len(s) /\ ~(j - 1 < at) /\ r[j] = s[j - 1]
        BY <2>1, <2>2, <2>3, <3>3
      <4>2. CASE i = at
        BY <2>1, <2>2, <2>3, <4>1, <4>2
      <4>3. CASE i # at
        <5>1. i - 1 \in 1 .. Len(s) /\ i - 1 < j - 1 /\ r[i] = s[i - 1]
          BY <2>1, <2>2, <2>3, <3>3, <4>3
        <5> QED BY <2>1, <4>1, <5>1 DEF IsAscending
      <4> QED BY <4>2, <4>3
    <3> QED BY <2>1, <2>2, <3>1, <3>2, <3>3
  <2>5. Places(r, V155) = {at} /\ Places(s, V155) = {}
    <3>1. \A i \in 1 .. Len(s) + 1 : r[i] = V155 <=> i = at
      <4> SUFFICES ASSUME NEW i \in 1 .. Len(s) + 1, i # at PROVE r[i] # V155
        BY <2>2, <2>3
      <4>1. CASE i < at
        BY <2>1, <2>2, <2>3, <4>1
      <4>2. CASE ~(i < at)
        <5>1. i - 1 \in 1 .. Len(s) /\ r[i] = s[i - 1]
          BY <2>1, <2>2, <2>3, <4>2
        <5> QED BY <1>2, <2>1, <5>1
      <4> QED BY <4>1, <4>2
    <3> QED BY <1>2, <2>2, <2>3, <3>1 DEF Places
  <2>6. ASSUME NEW n \in Nums, n # V155
        PROVE  Cardinality(Places(r, n)) = Cardinality(Places(s, n))
    <3> DEFINE shift == [i \in 1 .. Len(s) |-> IF i < at THEN i ELSE i + 1]
               T == (1 .. Len(s) + 1) \ {at}
    <3>1. shift \in [1 .. Len(s) -> T] /\ \A i, j \in 1 .. Len(s) : shift[i] = shift[j] => i = j
      BY <2>1, <2>2
    <3>2. ASSUME NEW t \in T PROVE \E i \in 1 .. Len(s) : shift[i] = t
      <4>1. CASE t < at
        BY <2>1, <2>2, <4>1
      <4>2. CASE ~(t < at)
        <5>1. t - 1 \in 1 .. Len(s) /\ shift[t - 1] = t
          BY <2>1, <2>2, <4>2
        <5> QED BY <5>1
      <4> QED BY <4>1, <4>2
    <3>3. \A i \in 1 .. Len(s) : i \in Places(s, n) <=> shift[i] \in Places(r, n)
      BY <2>1, <2>2, <2>3, <2>6 DEF Places
    <3>4. Places(s, n) \subseteq 1 .. Len(s) /\ Places(r, n) \subseteq T
      BY <2>1, <2>3, <2>6, <2>2 DEF Places
    <3> HIDE DEF shift, T
    <3>5. shift \in Bijection(1 .. Len(s), T)
      BY <3>1, <3>2, Fun_IsBij
    <3>6. IsFiniteSet(1 .. Len(s))
      BY <2>1, FS_Interval
    <3> QED BY <3>3, <3>4, <3>5, <3>6, SameNumber
  <2>7. \A n \in Nums : Cardinality(Places(r, n)) =
              IF n = V155 /\ Places(s, n) = {} THEN 1 ELSE Cardinality(Places(s, n))
    BY <2>5, <2>6, FS_Singleton
  <2> QED BY <2>3, <2>4, <2>7 DEF r
<1> QED BY <1>1, <1>2

(* The versions to build, for any released tags, patches and exclusions.   *)
LEMMA ReleasesAreFiltered ==
  ASSUME NEW ts \in Seq(Nums), NEW ps, NEW least \in Nat, NEW ex,
         NEW v, v = ExcludeVersions(GetReleases(ts, ps, least), ex)
  PROVE  v \in Seq(Versions) /\ AreReleases(v, ts, ps, least, ex, Nums)
<1> DEFINE s == Sorted(ts, least)
           w == WithV155(s)
           g == WithPatches(w, ps)
           version(n) == [num |-> n, patch |-> n \in ps]
           Out(n) == {version(n), [num |-> n, patch |-> FALSE]} \cap ex # {}
           kept == {i \in DOMAIN w : ~Out(w[i])}
           m == Cardinality(kept)
<1>1. /\ s \in Seq(Nums) /\ IsAscending(s)
      /\ \A n \in Nums : Cardinality(Places(s, n)) =
                           IF n >= least THEN Cardinality(Places(ts, n)) ELSE 0
  BY SortedTags
<1> HIDE DEF s
<1>2. /\ w \in Seq(Nums) /\ IsAscending(w)
      /\ \A n \in Nums : Cardinality(Places(w, n)) =
           IF n = V155 /\ Places(s, n) = {} THEN 1 ELSE Cardinality(Places(s, n))
  BY <1>1, V155Inserted
<1> HIDE DEF w
<1>3. /\ Len(w) \in Nat /\ DOMAIN w = 1 .. Len(w) /\ IsFiniteSet(1 .. Len(w))
      /\ \A i \in DOMAIN w : w[i] \in Nums /\ g[i] = version(w[i])
      /\ DOMAIN g = DOMAIN w
  BY <1>2, FS_Interval DEF WithPatches
<1>4. v = Listed(g, kept, [i \in kept |-> i])
  <2>1. kept = {i \in DOMAIN g : {g[i], [num |-> g[i].num, patch |-> FALSE]} \cap ex = {}}
    BY <1>3
  <2>2. GetReleases(ts, ps, least) = g
    BY DEF GetReleases, w, s
  <2> HIDE DEF g, kept
  <2> QED BY <2>1, <2>2 DEF ExcludeVersions
<1>5. kept \subseteq Nat /\ IsFiniteSet(kept)
  <2>1. kept \in SUBSET (1 .. Len(w))
    BY <1>3
  <2>2. kept \subseteq Nat
    BY <1>3
  <2> HIDE DEF kept
  <2> QED BY <1>3, <2>1, <2>2, FS_Subset
<1>16. /\ \A n : version(n).num = n
       /\ \A n \in Nums : version(n) \in Versions
  BY DEF Versions
<1> DEFINE key == [i \in kept |-> i]
<1> HIDE DEF g, kept, version
<1>6. /\ m \in Nat /\ DOMAIN v = 1 .. m
      /\ \E p \in Bijection(1 .. m, kept) :
           /\ \A i \in 1 .. m : p[i] \in kept /\ v[i] = g[p[i]]
           /\ \A i, j \in 1 .. m : i < j => key[p[i]] <= key[p[j]]
  <2>1. \A k \in kept : key[k] \in Nat
    BY <1>5
  <2>2. v = Listed(g, kept, key)
    BY <1>4
  <2> HIDE DEF key
  <2>4. /\ Cardinality(kept) \in Nat
        /\ DOMAIN Listed(g, kept, key) = 1 .. Cardinality(kept)
    BY <1>5, <2>1, ListedElements
  <2>3. IsListing(v, g, kept, key)
    BY <1>5, <2>1, <2>2, ListedElements
  <2> QED BY <2>2, <2>3, <2>4 DEF m, IsListing
<1> HIDE DEF m
<1>7. PICK p \in Bijection(1 .. m, kept) :
           /\ \A i \in 1 .. m : p[i] \in kept /\ v[i] = g[p[i]]
           /\ \A i, j \in 1 .. m : i < j => key[p[i]] <= key[p[j]]
  BY <1>6
<1>8. \A i \in 1 .. m : /\ p[i] \in kept /\ p[i] \in DOMAIN w /\ w[p[i]] \in Nums
                         /\ ~Out(w[p[i]]) /\ v[i] = version(w[p[i]]) /\ v[i].num = w[p[i]]
  <2> HIDE DEF Out
  <2> QED BY <1>3, <1>7, <1>16 DEF kept
<1> HIDE DEF Out
<1>9. v \in Seq(Versions)
  <2>1. v = [i \in 1 .. m |-> v[i]]
    BY <1>4, <1>6 DEF Listed, m
  <2>2. \A i \in 1 .. m : v[i] \in Versions
    BY <1>8, <1>16
  <2> QED BY <1>6, <2>1, <2>2
<1>10. ASSUME NEW i \in 1 .. m, NEW j \in 1 .. m, i < j PROVE v[i].num <= v[j].num
  <2>0. key[p[i]] = p[i] /\ key[p[j]] = p[j]
    BY <1>8
  <2>1. p[i] <= p[j] /\ p[i] \in 1 .. Len(w) /\ p[j] \in 1 .. Len(w)
    <3> HIDE DEF key
    <3> QED BY <1>3, <1>7, <1>8, <1>10, <2>0
  <2>2. w[p[i]] <= w[p[j]]
    <3>1. p[i] = p[j] \/ p[i] < p[j]
      BY <1>3, <2>1
    <3>2. w[p[i]] \in Nat
      BY <1>3, <2>1, NumsAssumption
    <3> QED BY <1>2, <1>3, <2>1, <3>1, <3>2 DEF IsAscending
  <2> QED BY <1>8, <2>2
<1>11. \A i \in 1 .. m : v[i] = version(v[i].num)
  BY <1>8
<1>12. ASSUME NEW n \in Nums, Out(n) PROVE {i \in 1 .. m : v[i].num = n} = {}
  BY <1>8, <1>12
<1>13. ASSUME NEW n \in Nums, ~Out(n)
       PROVE  Cardinality({i \in 1 .. m : v[i].num = n}) = Cardinality(Places(w, n))
  <2> DEFINE S == 1 .. m
             A == {i \in 1 .. m : v[i].num = n}
             B == Places(w, n)
  <2>1. p \in Bijection(S, kept)
    BY <1>7
  <2>2. IsFiniteSet(S) /\ A \subseteq S
    BY <1>6, FS_Interval
  <2>3. B \subseteq kept
    BY <1>13 DEF Places, kept
  <2>4. \A i \in S : i \in A <=> p[i] \in B
    <3> SUFFICES ASSUME NEW i \in S PROVE v[i].num = n <=> w[p[i]] = n /\ p[i] \in DOMAIN w
      BY DEF Places
    <3> QED BY <1>8
  <2> HIDE DEF S, A, B
  <2>5. Cardinality(A) = Cardinality(B)
    BY <2>1, <2>2, <2>3, <2>4, SameNumber
  <2> QED BY <2>5 DEF A, B
<1>14. ASSUME NEW n \in Nums
       PROVE  Cardinality(Places(w, n)) =
                IF n >= least /\ Places(ts, n) # {} THEN Cardinality(Places(ts, n))
                ELSE IF n = V155 THEN 1 ELSE 0
  <2>1. /\ Places(s, n) = {} <=> Cardinality(Places(s, n)) = 0
        /\ Places(ts, n) = {} <=> Cardinality(Places(ts, n)) = 0
    <3>1. /\ Len(s) \in Nat /\ Len(ts) \in Nat
          /\ Places(s, n) \in SUBSET (1 .. Len(s)) /\ Places(ts, n) \in SUBSET (1 .. Len(ts))
      BY <1>1 DEF Places
    <3>2. IsFiniteSet(1 .. Len(s)) /\ IsFiniteSet(1 .. Len(ts))
      BY <3>1, FS_Interval
    <3>3. IsFiniteSet(Places(s, n))
      BY <3>1, <3>2, FS_Subset
    <3>4. IsFiniteSet(Places(ts, n))
      BY <3>1, <3>2, FS_Subset
    <3> QED BY <3>3, <3>4, FS_EmptySet
  <2> QED BY <1>1, <1>2, <2>1
<1>15. ASSUME NEW n \in Nums
       PROVE  Cardinality({i \in DOMAIN v : v[i].num = n}) =
                IF Out(n) THEN 0
                ELSE IF n >= least /\ Places(ts, n) # {} THEN Cardinality(Places(ts, n))
                ELSE IF n = V155 THEN 1 ELSE 0
  BY <1>6, <1>12, <1>13, <1>14, FS_EmptySet
<1>18. \A i, j \in DOMAIN v : i < j => v[i].num <= v[j].num
  BY <1>6, <1>10
<1>19. \A i \in DOMAIN v : v[i] = [num |-> v[i].num, patch |-> v[i].num \in ps]
  BY <1>6, <1>11 DEF version
<1>20. ASSUME NEW n \in Nums
       PROVE  Cardinality({i \in DOMAIN v : v[i].num = n}) =
                IF {[num |-> n, patch |-> n \in ps], [num |-> n, patch |-> FALSE]} \cap ex # {} THEN 0
                ELSE IF n >= least /\ \E i \in DOMAIN ts : ts[i] = n
                     THEN Cardinality({i \in DOMAIN ts : ts[i] = n})
                ELSE IF n = V155 THEN 1 ELSE 0
  <2>1. Out(n) <=> {[num |-> n, patch |-> n \in ps], [num |-> n, patch |-> FALSE]} \cap ex # {}
    BY DEF version, Out
  <2>2. /\ Places(ts, n) = {i \in DOMAIN ts : ts[i] = n}
        /\ Places(ts, n) # {} <=> \E i \in DOMAIN ts : ts[i] = n
    BY DEF Places
  <2> QED BY <1>15, <2>1, <2>2
<1> QED BY <1>9, <1>18, <1>19, <1>20 DEF AreReleases

(* The releases are selected once and stay as they are.                    *)
LEMMA SelectionStep ==
  ASSUME TypeOK, [Next]_vars, ReleasesAreExact
  PROVE  ReleasesAreExact' /\ PathIsOfVersions'
<1>1. CASE Select
  <2>1. /\ tags \in Seq(Nums) /\ minimum \in Nat
        /\ path' = ExcludeVersions(GetReleases(tags, patched, minimum), excluded)
        /\ UNCHANGED inputs
    BY <1>1, InputsAssumption DEF Select, TypeOK
  <2>2. path' \in Seq(Versions) /\ AreReleases(path', tags, patched, minimum, excluded, Nums)
    BY <2>1, ReleasesAreFiltered
  <2> QED BY <2>1, <2>2 DEF ReleasesAreExact, PathIsOfVersions, inputs
<1>2. CASE ~Select
  <2>1. UNCHANGED <<inputs, path>> /\ (pc' # "select" => pc # "select")
    BY <1>2 DEF Next, BuildStep, vars, inputs, Goto, Goes, Fails, NoRepository, GitClone, GitCheckout, Call,
       CloneSia, Update, NextVersion, CloneMerkletree, PinMerkletree, CheckoutVersion, Compile,
       UnpinMerkletree, ResetSia, CheckoutMaster
  <2>2. /\ tags' = tags /\ patched' = patched /\ minimum' = minimum /\ excluded' = excluded
        /\ path' = path
    BY <2>1 DEF inputs
  <2> QED BY <2>1, <2>2 DEF ReleasesAreExact, PathIsOfVersions, TypeOK
<1> QED BY <1>1, <1>2

(* What a list holds, and what is left when the loop goes on.              *)
LEMMA ListedValues ==
  ASSUME NEW S, NEW s \in Seq(S)
  PROVE  ToSet(s) \subseteq S /\ (s # <<>> => ToSet(s) = {Head(s)} \cup ToSet(Tail(s)))
<1>1. DOMAIN s = 1 .. Len(s) /\ Len(s) \in Nat /\ \A i \in 1 .. Len(s) : s[i] \in S
  OBVIOUS
<1>2. ToSet(s) \subseteq S
  BY <1>1 DEF ToSet
<1>3. ASSUME s # <<>> PROVE ToSet(s) = {Head(s)} \cup ToSet(Tail(s))
  <2>1. /\ Len(s) >= 1 /\ Head(s) = s[1] /\ Tail(s) \in Seq(S)
        /\ DOMAIN Tail(s) = 1 .. Len(s) - 1
        /\ \A i \in 1 .. Len(s) - 1 : Tail(s)[i] = s[i + 1]
    BY <1>3
  <2>2. \A i \in 1 .. Len(s) : i = 1 \/ (i - 1 \in 1 .. Len(s) - 1 /\ Tail(s)[i - 1] = s[i])
    BY <1>1, <2>1
  <2>3. ASSUME NEW i \in 1 .. Len(s) PROVE s[i] \in {Head(s)} \cup ToSet(Tail(s))
    <3>1. CASE i = 1
      BY <2>1, <3>1
    <3>2. CASE i # 1
      <4>1. i - 1 \in DOMAIN Tail(s) /\ Tail(s)[i - 1] = s[i]
        BY <2>1, <2>2, <3>2
      <4> QED BY <4>1 DEF ToSet
    <3> QED BY <3>1, <3>2
  <2>4. ASSUME NEW i \in DOMAIN Tail(s) PROVE Tail(s)[i] \in ToSet(s)
    <3>1. i + 1 \in DOMAIN s /\ Tail(s)[i] = s[i + 1]
      BY <1>1, <2>1
    <3> QED BY <3>1 DEF ToSet
  <2>5. Head(s) \in ToSet(s)
    <3>1. 1 \in DOMAIN s /\ Head(s) = s[1]
      BY <1>1, <2>1
    <3> QED BY <3>1 DEF ToSet
  <2>6. ToSet(s) \subseteq {Head(s)} \cup ToSet(Tail(s))
    BY <1>1, <2>3 DEF ToSet
  <2>7. ToSet(Tail(s)) \subseteq ToSet(s)
    BY <2>4 DEF ToSet
  <2> QED BY <2>5, <2>6, <2>7
<1> QED BY <1>2, <1>3

(* The types, when what is asked for consists of versions.                 *)
LEMMA TypeStep ==
  ASSUME IInv, TypeOK, PathIsOfVersions', [Next]_vars PROVE TypeOK'
<1>0. /\ failures < MaxFailures /\ failures' = failures + 1 => failures' \in 0 .. MaxFailures
      /\ Versions \subseteq Buildable /\ Master \in Buildable /\ <<>> \in Seq(Buildable)
      /\ path' \in Seq(Buildable) /\ Repos = {"sia", "merkletree"}
  <2>1. Seq(Versions) \subseteq Seq(Buildable)
    BY DEF Buildable
  <2> QED BY <2>1, FailuresAssumption DEF TypeOK, PathIsOfVersions, Buildable, Repos
<1> USE <1>0 DEF TypeOK, PathIsOfVersions, inputs, Goto, Goes, Fails, NoRepository, GitClone, GitCheckout
<1>1. CASE UNCHANGED vars
  BY <1>1 DEF vars
<1>2. CASE Select
  BY <1>2 DEF Select
<1>3. CASE Call
  <2>1. list' \in Seq(Buildable)
    <3>1. \A v \in {path[i] : i \in DOMAIN path} \cup {Master} : v \in Buildable
      BY DEF Buildable
    <3>2. (\A v \in Buildable : <<v>> \in Seq(Buildable)) /\ Append(path, Master) \in Seq(Buildable)
      BY <1>3 DEF Call
    <3>3. \/ \E v \in {path[i] : i \in DOMAIN path} \cup {Master} : list' = <<v>>
          \/ list' = Append(path, Master)
      BY <1>3 DEF Call
    <3>4. ASSUME NEW v \in {path[i] : i \in DOMAIN path} \cup {Master}, list' = <<v>>
          PROVE  list' \in Seq(Buildable)
      <4>1. v \in Buildable
        BY <3>1
      <4> QED BY <3>2, <3>4, <4>1
    <3> QED BY <3>2, <3>3, <3>4
  <2>2. unbuilt' \subseteq Buildable
    BY <1>3, <2>1, ListedValues DEF Call
  <2> QED BY <1>3, <2>1, <2>2 DEF Call
<1>4. CASE CloneSia
  BY <1>4 DEF CloneSia
<1>5. CASE Update
  BY <1>5 DEF Update
<1>6. CASE NextVersion
  BY <1>6 DEF NextVersion
<1>7. CASE CloneMerkletree
  BY <1>7 DEF CloneMerkletree
<1>8. CASE PinMerkletree
  BY <1>8 DEF PinMerkletree
<1>9. CASE CheckoutVersion
  <2>1. Head(list) \in Buildable
    BY <1>9 DEF CheckoutVersion
  <2> QED BY <1>9, <2>1 DEF CheckoutVersion
<1>10. CASE Compile
  BY <1>10 DEF Compile, IInv
<1>11. CASE UnpinMerkletree
  BY <1>11 DEF UnpinMerkletree
<1>12. CASE ResetSia
  <2>1. Tail(list) \in Seq(Buildable)
    BY <1>12 DEF ResetSia
  <2> QED BY <1>12, <2>1 DEF ResetSia
<1>13. CASE CheckoutMaster
  BY <1>13 DEF CheckoutMaster
<1> QED BY <1>1, <1>2, <1>3, <1>4, <1>5, <1>6, <1>7, <1>8, <1>9, <1>10, <1>11, <1>12, <1>13
        DEF Next, BuildStep

(* Both together.  The types of a build follow from what GetReleases and   *)
(* ExcludeVersions select.                                                 *)
LEMMA Selection == Spec => [](TypeOK /\ ReleasesAreExact)
<1>1. Init => TypeOK /\ ReleasesAreExact
  <2> SUFFICES ASSUME Init PROVE TypeOK /\ ReleasesAreExact
    OBVIOUS
  <2>1. 0 \in 0 .. MaxFailures /\ <<>> \in Seq(Versions) /\ <<>> \in Seq(Buildable)
    BY FailuresAssumption
  <2>2. dir \in [Repos -> {"absent", "empty", "cloned"}] /\ head \in [Repos -> Buildable \cup {Pinned}]
    BY DEF Init, Buildable
  <2> QED BY <2>1, <2>2 DEF Init, TypeOK, PathIsOfVersions, ReleasesAreExact
<1>2. IInv /\ (TypeOK /\ ReleasesAreExact) /\ [Next]_vars => (TypeOK /\ ReleasesAreExact)'
  BY SelectionStep, TypeStep
<1> QED BY <1>1, <1>2, Invariant, PTL DEF Spec

(* Every step leaves the variables of buildSiad in their types, whatever   *)
(* the pages list, whatever is excluded and wherever commands fail.        *)
THEOREM TypeCorrect == Spec => []TypeOK
  BY Selection, PTL

(* What GetReleases and ExcludeVersions return, for any tags in any order: *)
(* the released tags from the minimal version on in ascending order, each  *)
(* as often as it is listed and as its patch if it has one, without what   *)
(* is excluded, and v1.5.5 in its place, whatever the minimal version is.  *)
THEOREM ExactReleases == Spec => []ReleasesAreExact
  BY Selection, PTL

(* This is what the comment of GetReleases promises (build_binaries.go:293), *)
(* but for v1.5.5 below the minimal version.                               *)
THEOREM PromisedReleases == Spec => []ReleasesArePromised
<1>1. ReleasesAreExact => ReleasesArePromised
  BY DEF ReleasesAreExact, ReleasesArePromised, AreReleases, AtLeastMinimum
<1> QED BY <1>1, ExactReleases, PTL

(* There it is never kept: v1.5.5 is always returned, unless it is         *)
(* excluded (build_binaries.go:359).                                       *)
THEOREM WorkaroundIgnoresMinimum == Spec => []V155IgnoresMinimum
<1>1. TypeOK /\ ReleasesAreExact => V155IgnoresMinimum
  <2> SUFFICES ASSUME TypeOK, ReleasesAreExact, pc # "select", V155 < minimum, ~V155IsExcluded
               PROVE  \E i \in DOMAIN path : ~(path[i].num >= minimum)
    BY DEF V155IgnoresMinimum, NothingBelowMinimum
  <2> DEFINE S == {i \in DOMAIN path : path[i].num = V155}
  <2>1. V155 \in Nums /\ V155 \in Nat /\ minimum \in Nat /\ ~(V155 >= minimum)
    BY NumsAssumption, InputsAssumption DEF TypeOK
  <2>2. Cardinality(S) = 1
    BY <2>1 DEF ReleasesAreExact, AreReleases, V155IsExcluded
  <2>3. S # {}
    <3> HIDE DEF S
    <3> QED BY <2>2, FS_EmptySet
  <2> QED BY <2>1, <2>3
<1> QED BY <1>1, Selection, PTL

(* What a build has not compiled yet stays on its list.                    *)
LEMMA RestStep ==
  ASSUME TypeOK, RestIsListed, OkMeansBuilt, [Next]_vars
  PROVE  RestIsListed' /\ OkMeansBuilt'
<1> USE DEF RestIsListed, OkMeansBuilt
<1>1. CASE UNCHANGED vars
  BY <1>1 DEF vars
<1>2. CASE Select \/ Call
  BY <1>2 DEF Select, Call
<1>3. CASE BuildStep /\ pc' = "idle" /\ verdict' = "failed"
  BY <1>3
<1>4. CASE CloneSia \/ Update \/ CloneMerkletree \/ PinMerkletree \/ CheckoutVersion
  BY <1>3, <1>4 DEF BuildStep, CloneSia, Update, CloneMerkletree, PinMerkletree, CheckoutVersion,
     GitClone, GitCheckout, NoRepository, Goes, Goto, Fails
<1>5. CASE NextVersion
  BY <1>3, <1>5 DEF BuildStep, NextVersion, Goes, Goto, Fails
<1>6. CASE Compile /\ pc' # "idle"
  <2>1. /\ pc = "compile" /\ pc' \in {"unpin", "reset"} /\ list' = list
        /\ unbuilt' = unbuilt \ {Head(list)}
    BY <1>6 DEF Compile, Goto, Fails
  <2>2. list \in Seq(Buildable) /\ list # <<>>
    BY <2>1 DEF TypeOK
  <2>3. ToSet(list) = {Head(list)} \cup ToSet(Tail(list))
    BY <2>2, ListedValues
  <2> QED BY <2>1, <2>3
<1>7. CASE UnpinMerkletree
  BY <1>3, <1>7 DEF BuildStep, UnpinMerkletree, GitCheckout, NoRepository, Goes, Goto, Fails
<1>8. CASE ResetSia
  BY <1>3, <1>8 DEF BuildStep, ResetSia, Goto, Fails
<1>9. CASE CheckoutMaster /\ verdict' = "ok"
  <2>1. pc = "master" /\ pc' = "idle" /\ UNCHANGED <<list, unbuilt>>
    BY <1>9 DEF CheckoutMaster, Goto, Fails
  <2>2. unbuilt \subseteq ToSet(<<>>) /\ ToSet(<<>>) = {}
    BY <2>1 DEF ToSet
  <2> QED BY <2>1, <2>2
<1>10. Compile /\ pc' = "idle" => verdict' = "failed"
  BY DEF Compile, Goto, Fails
<1>11. CheckoutMaster => pc' = "idle" /\ verdict' \in {"ok", "failed"}
  BY DEF CheckoutMaster, Goto, Fails
<1> QED BY <1>1, <1>2, <1>3, <1>4, <1>5, <1>6, <1>7, <1>8, <1>9, <1>10, <1>11 DEF Next, BuildStep

(* A build that returns nil has compiled each version that it was asked    *)
(* for, in this very build, whatever commands failed in the ones before:   *)
(* the build manager may tell its callers so (build_manager.go:147).       *)
THEOREM NilMeansBuilt == Spec => []OkMeansBuilt
<1>1. Init => RestIsListed /\ OkMeansBuilt
  BY DEF Init, RestIsListed, OkMeansBuilt
<1>2. TypeOK /\ (RestIsListed /\ OkMeansBuilt) /\ [Next]_vars => (RestIsListed /\ OkMeansBuilt)'
  BY RestStep
<1> QED BY <1>1, <1>2, TypeCorrect, PTL DEF Spec
=============================================================================
