----------------------- MODULE ConsensusGroups_proofs -----------------------
(***************************************************************************)
(* Proofs about ConsensusGroups, for any number of ants, length of the     *)
(* comparison and height of the chains: the groups that                    *)
(* antConsensusGroups returns are the ones defined without its loop and    *)
(* its unsigned heights, and what a single group says of the chains.       *)
(***************************************************************************)
EXTENDS ConsensusGroups, TLAPS, WellFoundedInduction

(* A set of numbers that is not empty has a least one. *)
LEMMA LeastNumber ==
  ASSUME NEW T, T \subseteq Nat, T # {}
  PROVE  \E x \in T : \A y \in T : x <= y
<1>1. IsWellFoundedOn(OpToRel(<, Nat), Nat)
  BY NatLessThanWellFounded
<1>2. PICK x \in T : \A y \in T : ~(<<y, x>> \in OpToRel(<, Nat))
  BY <1>1, WFMin
<1>3. ASSUME NEW y \in T PROVE x <= y
  <2>1. x \in Nat /\ y \in Nat
    OBVIOUS
  <2>2. ~(y < x)
    BY <1>2, <2>1 DEF OpToRel
  <2> QED BY <2>1, <2>2
<1> QED BY <1>3

(* Heights wrap below zero, but never to a height of the chain.            *)
LEMMA WrappedHeights ==
  ASSUME NEW h \in Heights, NEW i \in 0 .. Window - 1
  PROVE  LET k == (h + WrapHeight - i) % WrapHeight
         IN  IF i <= h THEN k = h - i ELSE k \notin Heights
<1>1. /\ h \in Nat /\ i \in Nat /\ WrapHeight \in Nat /\ MaxHeight \in Nat /\ Window \in Nat
      /\ h <= MaxHeight /\ i < Window /\ MaxHeight + Window <= WrapHeight
  BY HeightsAssumption DEF Heights
<1>2. CASE i <= h
  <2>1. h - i \in Nat /\ h - i < WrapHeight /\ h + WrapHeight - i = (h - i) + WrapHeight
    BY <1>1, <1>2
  <2>2. ((h - i) + WrapHeight) % WrapHeight = h - i
    BY <1>1, <2>1
  <2> QED BY <1>2, <2>1, <2>2
<1>3. CASE h < i
  <2>1. /\ h + WrapHeight - i \in Nat /\ h + WrapHeight - i < WrapHeight
        /\ h + WrapHeight - i > MaxHeight
    BY <1>1, <1>3
  <2>2. (h + WrapHeight - i) % WrapHeight = h + WrapHeight - i
    BY <1>1, <2>1
  <2> QED BY <1>1, <1>3, <2>1, <2>2 DEF Heights
<1> QED BY <1>1, <1>2, <1>3

(* So the comparison looks at the last Window heights, and at no other. *)
LEMMA ComparedHeights ==
  ASSUME NEW h \in Heights, NEW k \in Heights
  PROVE  (\E i \in 0 .. Window - 1 : k = (h + WrapHeight - i) % WrapHeight)
             <=> k <= h /\ h < k + Window
<1>1. /\ h \in Nat /\ k \in Nat /\ Window \in Nat
  BY HeightsAssumption DEF Heights
<1>2. ASSUME NEW i \in 0 .. Window - 1, k = (h + WrapHeight - i) % WrapHeight
      PROVE  k <= h /\ h < k + Window
  <2>1. i <= h /\ k = h - i
    BY <1>2, WrappedHeights
  <2> QED BY <1>1, <2>1
<1>3. ASSUME k <= h, h < k + Window
      PROVE  \E i \in 0 .. Window - 1 : k = (h + WrapHeight - i) % WrapHeight
  <2>1. h - k \in 0 .. Window - 1 /\ h - k <= h /\ k = h - (h - k)
    BY <1>1, <1>3
  <2> QED BY <2>1, WrappedHeights
<1> QED BY <1>2, <1>3

(* The comparison of two ants that have seen s finds a block that both     *)
(* have seen, and that is among the last ones of the first.                *)
LEMMA MeetsIsShared ==
  ASSUME NEW s, NEW h \in Heights, NEW a, NEW b,
         NEW seenByA, \A blk : blk \in seenByA
                          <=> \E k \in Heights : s[a][k] # "none" /\ blk = <<k, s[a][k]>>,
         NEW seenByB, \A blk : blk \in seenByB
                          <=> \E k \in Heights : s[b][k] # "none" /\ blk = <<k, s[b][k]>>
  PROVE  Meets(s, a, b, h)
             <=> \E blk \in seenByA : blk[1] <= h /\ h < blk[1] + Window /\ blk \in seenByB
<1> DEFINE Shared(k) == k \in Heights /\ s[a][k] # "none" /\ s[a][k] = s[b][k]
<1>1. Meets(s, a, b, h)
        <=> \E k \in Heights : /\ \E i \in 0 .. Window - 1 : k = (h + WrapHeight - i) % WrapHeight
                               /\ Shared(k)
  BY DEF Meets
<1>2. ASSUME NEW blk \in seenByA, blk[1] <= h, h < blk[1] + Window, blk \in seenByB
      PROVE  \E k \in Heights : k <= h /\ h < k + Window /\ Shared(k)
  <2>1. PICK k \in Heights : blk = <<k, s[a][k]>> /\ s[a][k] # "none"
    OBVIOUS
  <2>2. PICK j \in Heights : blk = <<j, s[b][j]>>
    BY <1>2
  <2> QED BY <1>2, <2>1, <2>2
<1>3. ASSUME NEW k \in Heights, k <= h, h < k + Window, Shared(k)
      PROVE  \E blk \in seenByA : blk[1] <= h /\ h < blk[1] + Window /\ blk \in seenByB
  <2>1. <<k, s[a][k]>> \in seenByA /\ <<k, s[a][k]>> \in seenByB
    BY <1>3
  <2> QED BY <1>3, <2>1
<1> HIDE DEF Shared
<1> QED BY <1>1, <1>2, <1>3, ComparedHeights
-----------------------------------------------------------------------------
(* A round.                                                                *)

(* What the ant whose turn it is adds to what is known. *)
LEMMA SampleFacts ==
  ASSUME IInv, Sample, NEW t, t = turn
  PROVE  /\ t \in Ants \ external /\ turn' = t + 1 /\ pc' = pc /\ pc \in Callers
         /\ UNCHANGED <<config, chainVars>>
         /\ seen' = [seen EXCEPT ![t] = [@ EXCEPT ![height[t]] = BlockAt(t, height[t])]]
         /\ askedAt' = [askedAt EXCEPT ![t] = height[t]]
         /\ height[t] \in Heights /\ BlockAt(t, height[t]) \in Branches
         /\ groups' = Place(seen', t, askedAt'[t])
         /\ AskedSoFar' = AskedSoFar \cup {t} /\ t \notin AskedSoFar
<1> USE DEF IInv
<1>1. /\ t \in Ants \ external /\ turn' = t + 1 /\ pc' = pc /\ pc \in Callers
      /\ UNCHANGED <<config, chainVars>>
  BY DEF Sample, Asked
<1>2. /\ seen' = [seen EXCEPT ![t] = [@ EXCEPT ![height[t]] = BlockAt(t, height[t])]]
      /\ askedAt' = [askedAt EXCEPT ![t] = height[t]]
      /\ groups' = Place(seen', t, height[t])
  BY DEF Sample
<1>3. height[t] \in Heights /\ BlockAt(t, height[t]) \in Branches /\ askedAt'[t] = height[t]
  BY <1>1, <1>2 DEF TypeOK, BlockAt, Branches
<1>4. AskedSoFar' = AskedSoFar \cup {t} /\ t \notin AskedSoFar
  BY <1>1, NumAntsAssumption DEF AskedSoFar, config, Ants
<1> QED BY <1>1, <1>2, <1>3, <1>4

(* The types, and what is known of the ants that were asked before.        *)
LEMMA SampleKeeps ==
  ASSUME IInv, Sample
  PROVE  /\ seen' \in [Ants -> [Heights -> Branches \cup {"none"}]]
         /\ askedAt' \in [Ants -> Heights]
         /\ \A a, b \in Ants \ {turn} : Connected(a, b)' <=> Connected(a, b)
<1> DEFINE t == turn
<1>1. seen' \in [Ants -> [Heights -> Branches \cup {"none"}]] /\ askedAt' \in [Ants -> Heights]
  <2>1. /\ seen[t] \in [Heights -> Branches \cup {"none"}]
        /\ height[t] \in Heights /\ BlockAt(t, height[t]) \in Branches
    BY SampleFacts DEF IInv, TypeOK
  <2>2. [seen[t] EXCEPT ![height[t]] = BlockAt(t, height[t])] \in [Heights -> Branches \cup {"none"}]
    BY <2>1
  <2>3. /\ seen' = [seen EXCEPT ![t] = [seen[t] EXCEPT ![height[t]] = BlockAt(t, height[t])]]
        /\ askedAt' = [askedAt EXCEPT ![t] = height[t]]
    BY SampleFacts
  <2> HIDE DEF t
  <2> QED BY <2>1, <2>2, <2>3 DEF IInv, TypeOK
<1>2. \A a \in Ants \ {t} : seen'[a] = seen[a] /\ askedAt'[a] = askedAt[a]
  BY SampleFacts DEF IInv, TypeOK
<1>3. \A a, b \in Ants \ {turn} : Connected(a, b)' <=> Connected(a, b)
  BY <1>2 DEF Connected, Recent, SeenBy
<1> QED BY <1>1, <1>3

(* The place of the ant is what the loop over the groups finds.            *)
LEMMA PlaceIsExact ==
  ASSUME IInv, Sample, NEW t, t = turn
  PROVE  \/ /\ groups' = Append(groups, <<t>>)
            /\ \A g \in DOMAIN groups : \A b \in Ants : b = groups[g][1] => ~Connected(t, b)'
         \/ \E first \in DOMAIN groups :
              /\ groups' = [groups EXCEPT ![first] = Append(@, t)]
              /\ \A b \in Ants : b = groups[first][1] => Connected(t, b)'
              /\ \A f \in DOMAIN groups : f < first =>
                   \A b \in Ants : b = groups[f][1] => ~Connected(t, b)'
<1>0. t \in Ants /\ askedAt'[t] \in Heights /\ groups' = Place(seen', t, askedAt'[t])
  BY SampleFacts, SampleKeeps DEF IInv, TypeOK
<1>1. \A b \in Ants : Meets(seen', t, b, askedAt'[t]) <=> Connected(t, b)'
  <2> SUFFICES ASSUME NEW b \in Ants
               PROVE  Meets(seen', t, b, askedAt'[t]) <=> Connected(t, b)'
    OBVIOUS
  <2>1. \A c, blk : blk \in SeenBy(c)'
                       <=> \E k \in Heights : seen'[c][k] # "none" /\ blk = <<k, seen'[c][k]>>
    BY DEF SeenBy
  <2>2. Connected(t, b)' <=>
          \E blk \in SeenBy(t)' : /\ blk[1] <= askedAt'[t] /\ askedAt'[t] < blk[1] + Window
                                  /\ blk \in SeenBy(b)'
    BY DEF Connected, Recent
  <2> DEFINE A == SeenBy(t)'
             B == SeenBy(b)'
             s == seen'
             h == askedAt'[t]
  <2>3. /\ \A blk : blk \in A <=> \E k \in Heights : s[t][k] # "none" /\ blk = <<k, s[t][k]>>
        /\ \A blk : blk \in B <=> \E k \in Heights : s[b][k] # "none" /\ blk = <<k, s[b][k]>>
        /\ h \in Heights
    BY <1>0, <2>1
  <2> HIDE DEF A, B, s, h
  <2>4. Meets(s, t, b, h)
          <=> \E blk \in A : blk[1] <= h /\ h < blk[1] + Window /\ blk \in B
    BY <2>3, MeetsIsShared
  <2> QED BY <2>2, <2>4 DEF A, B, s, h
<1>2. /\ groups \in Seq(Seq(Ants)) /\ DOMAIN groups \subseteq Nat
      /\ \A g \in DOMAIN groups : groups[g][1] \in Ants
  BY DEF IInv, TypeOK
<1> DEFINE met == {g \in DOMAIN groups : Meets(seen', t, groups[g][1], askedAt'[t])}
<1>3. CASE met = {}
  <2>1. groups' = Append(groups, <<t>>)
    BY <1>0, <1>3 DEF Place
  <2> QED BY <1>1, <1>2, <1>3, <2>1
<1>4. CASE met # {}
  <2> DEFINE first == CHOOSE g \in met : \A f \in met : g <= f
  <2>1. first \in met /\ \A f \in met : first <= f
    <3>1. \E g \in met : \A f \in met : g <= f
      BY <1>2, <1>4, LeastNumber
    <3> QED BY <3>1
  <2>2. groups' = [groups EXCEPT ![first] = Append(@, t)]
    BY <1>0, <1>4 DEF Place
  <2> HIDE DEF first
  <2>3. \A f \in DOMAIN groups : f < first => f \notin met
    BY <1>2, <2>1
  <2> QED BY <1>1, <1>2, <2>1, <2>2, <2>3
<1> QED BY <1>3, <1>4

(* Either way one group, new or not, takes the ant as its last member, and *)
(* all other groups stay as they are.                                      *)
Takes(G, t) ==
  /\ DOMAIN groups' = DOMAIN groups \cup {G}
  /\ \A g \in DOMAIN groups \ {G} : groups'[g] = groups[g]
  /\ G \in DOMAIN groups => groups'[G][1] = groups[G][1]
  /\ \A a : a \in Members(G)' <=> a = t \/ (G \in DOMAIN groups /\ a \in Members(G))
  /\ \A m \in 2 .. Len(groups'[G]) :
       /\ G \in DOMAIN groups
       /\ \/ m \in 2 .. Len(groups[G]) /\ groups'[G][m] = groups[G][m]
          \/ groups'[G][m] = t /\ \A b \in Ants : b = groups[G][1] => Connected(t, b)'
  /\ \A f \in DOMAIN groups : f < G =>
       \A b \in Ants : b = groups[f][1] => ~Connected(t, b)'
  /\ G \notin DOMAIN groups => \A f \in DOMAIN groups : f < G

LEMMA GroupAppend ==
  ASSUME NEW S, NEW q \in Seq(S), q # <<>>, NEW e \in S
  PROVE  /\ Len(q) \in Nat \ {0} /\ DOMAIN q = 1 .. Len(q)
         /\ Append(q, e) # <<>> /\ Len(Append(q, e)) = Len(q) + 1
         /\ DOMAIN Append(q, e) = 1 .. Len(q) + 1
         /\ \A m \in 1 .. Len(q) : Append(q, e)[m] = q[m]
         /\ Append(q, e)[Len(q) + 1] = e
<1>1. Len(q) \in Nat \ {0} /\ DOMAIN q = 1 .. Len(q)
  OBVIOUS
<1>2. /\ Append(q, e) \in Seq(S) /\ Len(Append(q, e)) = Len(q) + 1
      /\ \A m \in 1 .. Len(q) : Append(q, e)[m] = q[m]
      /\ Append(q, e)[Len(q) + 1] = e
  BY <1>1
<1>3. Append(q, e) # <<>> /\ DOMAIN Append(q, e) = 1 .. Len(q) + 1
  BY <1>1, <1>2
<1> QED BY <1>1, <1>2, <1>3

LEMMA OneGroupTakes ==
  ASSUME IInv, Sample, NEW t, t = turn
  PROVE  /\ groups' \in Seq(Seq(Ants)) /\ \A g \in DOMAIN groups' : groups'[g] # <<>>
         /\ groups' # <<>> /\ groups'[1][1] = IF groups = <<>> THEN t ELSE groups[1][1]
         /\ \E G \in Nat : Takes(G, t)
<1>0. /\ t \in Ants /\ groups \in Seq(Seq(Ants)) /\ Len(groups) \in Nat
      /\ DOMAIN groups = 1 .. Len(groups)
      /\ groups = <<>> <=> Len(groups) = 0
      /\ \A g \in DOMAIN groups : groups[g] # <<>> /\ groups[g] \in Seq(Ants)
  BY SampleFacts DEF IInv, TypeOK
<1>1. CASE /\ groups' = Append(groups, <<t>>)
           /\ \A g \in DOMAIN groups : \A b \in Ants : b = groups[g][1] => ~Connected(t, b)'
  <2>0. PICK G \in Nat : G = Len(groups) + 1
    BY <1>0
  <2>1. /\ groups' \in Seq(Seq(Ants)) /\ Len(groups') = G /\ DOMAIN groups' = DOMAIN groups \cup {G}
        /\ G \notin DOMAIN groups /\ groups'[G] = <<t>>
        /\ \A g \in DOMAIN groups : g < G /\ groups'[g] = groups[g]
    BY <1>0, <1>1, <2>0
  <2>2. Len(<<t>>) = 1 /\ DOMAIN <<t>> = {1} /\ <<t>>[1] = t /\ <<t>> # <<>> /\ 2 .. 1 = {}
    OBVIOUS
  <2>3. \A a : a \in Members(G)' <=> a = t
    BY <2>1, <2>2 DEF Members
  <2>4. groups' # <<>> /\ (groups = <<>> => G = 1) /\ (groups # <<>> => 1 \in DOMAIN groups)
    BY <1>0, <2>0, <2>1
  <2>5. Takes(G, t)
    BY <1>1, <2>1, <2>2, <2>3 DEF Takes
  <2>6. \A g \in DOMAIN groups' : groups'[g] # <<>>
    BY <1>0, <2>1, <2>2
  <2>7. groups'[1][1] = IF groups = <<>> THEN t ELSE groups[1][1]
    BY <2>1, <2>2, <2>4
  <2> QED BY <2>1, <2>4, <2>5, <2>6, <2>7
<1>2. ASSUME NEW G \in DOMAIN groups,
             groups' = [groups EXCEPT ![G] = Append(@, t)],
             \A b \in Ants : b = groups[G][1] => Connected(t, b)',
             \A f \in DOMAIN groups : f < G => \A b \in Ants : b = groups[f][1] => ~Connected(t, b)'
      PROVE  /\ groups' \in Seq(Seq(Ants)) /\ \A g \in DOMAIN groups' : groups'[g] # <<>>
             /\ groups' # <<>> /\ groups'[1][1] = groups[1][1] /\ groups # <<>>
             /\ G \in Nat /\ Takes(G, t)
  <2>1. /\ DOMAIN groups' = DOMAIN groups /\ groups'[G] = Append(groups[G], t)
        /\ \A g \in DOMAIN groups \ {G} : groups'[g] = groups[g]
        /\ groups' \in Seq(Seq(Ants)) /\ G \in Nat
    BY <1>0, <1>2
  <2>2. /\ Len(groups[G]) \in Nat \ {0} /\ DOMAIN groups[G] = 1 .. Len(groups[G])
        /\ Append(groups[G], t) # <<>> /\ Len(Append(groups[G], t)) = Len(groups[G]) + 1
        /\ DOMAIN Append(groups[G], t) = 1 .. Len(groups[G]) + 1
        /\ \A m \in 1 .. Len(groups[G]) : Append(groups[G], t)[m] = groups[G][m]
        /\ Append(groups[G], t)[Len(groups[G]) + 1] = t
    <3>1. groups[G] \in Seq(Ants) /\ groups[G] # <<>> /\ t \in Ants
      BY <1>0
    <3> QED BY <3>1, GroupAppend
  <2>3. \A a : a \in Members(G)' <=> a = t \/ a \in Members(G)
    <3>1. Members(G)' = {Append(groups[G], t)[m] : m \in 1 .. Len(groups[G]) + 1}
      BY <2>1, <2>2 DEF Members
    <3>2. Members(G) = {groups[G][m] : m \in 1 .. Len(groups[G])}
      BY <2>2 DEF Members
    <3>3. \A m \in 1 .. Len(groups[G]) + 1 : m \in 1 .. Len(groups[G]) \/ m = Len(groups[G]) + 1
      BY <2>2
    <3>4. /\ Len(groups[G]) + 1 \in 1 .. Len(groups[G]) + 1
          /\ \A m \in 1 .. Len(groups[G]) : m \in 1 .. Len(groups[G]) + 1
      BY <2>2
    <3> QED BY <2>2, <3>1, <3>2, <3>3, <3>4
  <2>4. \A m \in 2 .. Len(groups'[G]) : \/ m \in 2 .. Len(groups[G]) /\ groups'[G][m] = groups[G][m]
                                        \/ groups'[G][m] = t
    BY <2>1, <2>2
  <2>5. Takes(G, t)
    <3>1. groups'[G][1] = groups[G][1]
      BY <2>1, <2>2
    <3> QED BY <1>2, <2>1, <2>3, <2>4, <3>1 DEF Takes
  <2>6. \A g \in DOMAIN groups' : groups'[g] # <<>>
    BY <1>0, <2>1, <2>2
  <2>7. groups # <<>> /\ groups' # <<>> /\ groups'[1][1] = groups[1][1]
    <3>1. groups # <<>> /\ groups' # <<>>
      BY <1>0, <2>1
    <3>2. CASE G = 1
      BY <2>1, <2>2, <3>1, <3>2
    <3>3. CASE G # 1
      <4>1. 1 \in DOMAIN groups \ {G}
        BY <1>0, <3>1, <3>3
      <4> QED BY <2>1, <3>1, <4>1
    <3> QED BY <3>1, <3>2, <3>3
  <2> QED BY <2>1, <2>5, <2>6, <2>7
<1>3. CASE \E first \in DOMAIN groups :
              /\ groups' = [groups EXCEPT ![first] = Append(@, t)]
              /\ \A b \in Ants : b = groups[first][1] => Connected(t, b)'
              /\ \A f \in DOMAIN groups : f < first =>
                   \A b \in Ants : b = groups[f][1] => ~Connected(t, b)'
  BY <1>2, <1>3
<1> QED BY <1>1, <1>3, PlaceIsExact

(* The groups after a place is found, part by part.                        *)
LEMMA SampleExact == ASSUME IInv, Sample PROVE GroupsAreExact'
<1>1. PICK t : t = turn
  OBVIOUS
<1>2. PICK G \in Nat : Takes(G, t)
  BY <1>1, OneGroupTakes
<1>3. /\ t \in Ants /\ pc \in Callers /\ AskedSoFar' = AskedSoFar \cup {t} /\ t \notin AskedSoFar
      /\ \A a, b \in Ants \ {t} : Connected(a, b)' <=> Connected(a, b)
  BY <1>1, SampleFacts, SampleKeeps
<1>4. /\ UNION {Members(g) : g \in DOMAIN groups} = AskedSoFar
      /\ \A g \in DOMAIN groups : \A m \in 2 .. Len(groups[g]) :
           Connected(groups[g][m], groups[g][1])
      /\ \A f, g \in DOMAIN groups : f < g =>
           \A a \in Members(g) : a \notin Members(f) /\ ~Connected(a, groups[f][1])
  BY <1>3 DEF IInv, GroupsAreExact
<1>5. /\ AskedSoFar \subseteq Ants \ {t}
      /\ \A g \in DOMAIN groups : Members(g) \subseteq AskedSoFar
      /\ \A g \in DOMAIN groups : \A m \in 1 .. Len(groups[g]) : groups[g][m] \in Members(g)
      /\ \A g \in DOMAIN groups : groups[g][1] \in Members(g) /\ g \in Nat
  BY <1>3, <1>4 DEF AskedSoFar, Members, IInv, TypeOK
<1>6. \A g \in DOMAIN groups \ {G} : Members(g)' = Members(g) /\ groups'[g] = groups[g]
  BY <1>2 DEF Takes, Members
<1>7. UNION {Members(g)' : g \in DOMAIN groups'} = AskedSoFar'
  BY <1>2, <1>3, <1>4, <1>6 DEF Takes
<1>8. ASSUME NEW g \in DOMAIN groups', NEW m \in 2 .. Len(groups'[g]), NEW a, NEW b,
             a = groups'[g][m], b = groups'[g][1]
      PROVE  Connected(a, b)'
  <2>1. CASE g # G
    <3>1. g \in DOMAIN groups /\ a = groups[g][m] /\ b = groups[g][1] /\ m \in 2 .. Len(groups[g])
      BY <1>2, <1>6, <1>8, <2>1 DEF Takes
    <3>2. a \in Ants \ {t} /\ b \in Ants \ {t}
      BY <1>5, <3>1
    <3> QED BY <1>3, <1>4, <3>1, <3>2
  <2>2. CASE g = G
    <3>1. G \in DOMAIN groups /\ b = groups[G][1] /\ b \in Ants \ {t}
      BY <1>2, <1>5, <1>8, <2>2 DEF Takes
    <3>2. CASE m \in 2 .. Len(groups[G]) /\ a = groups[G][m]
      <4>1. a \in Ants \ {t}
        BY <1>5, <3>1, <3>2
      <4> QED BY <1>3, <1>4, <3>1, <3>2, <4>1
    <3>3. CASE a = t /\ (b = groups[G][1] => Connected(t, b)')
      BY <3>1, <3>3
    <3> QED BY <1>2, <1>8, <2>2, <3>1, <3>2, <3>3 DEF Takes
  <2> QED BY <2>1, <2>2
<1>9. ASSUME NEW f \in DOMAIN groups', NEW g \in DOMAIN groups', f < g,
             NEW a \in Members(g)', NEW b, b = groups'[f][1]
      PROVE  a \notin Members(f)' /\ ~Connected(a, b)'
  <2>1. f \in DOMAIN groups /\ b = groups[f][1] /\ b \in Ants \ {t}
    BY <1>2, <1>5, <1>6, <1>9 DEF Takes
  <2>2. CASE a = t
    <3>1. g = G
      BY <1>2, <1>3, <1>5, <1>6, <2>2 DEF Takes
    <3> QED BY <1>2, <1>3, <1>5, <1>6, <1>9, <2>1, <2>2, <3>1 DEF Takes
  <2>3. CASE a # t
    <3>1. g \in DOMAIN groups /\ a \in Members(g) /\ a \in Ants \ {t}
      BY <1>2, <1>5, <1>6, <2>3 DEF Takes
    <3>2. a \notin Members(f) /\ ~Connected(a, b)
      BY <1>4, <1>9, <2>1, <3>1
    <3>3. a \notin Members(f)'
      BY <1>2, <1>6, <2>1, <2>3, <3>2 DEF Takes
    <3> QED BY <1>3, <2>1, <3>1, <3>2, <3>3
  <2> QED BY <2>2, <2>3
<1> QED BY <1>7, <1>8, <1>9 DEF GroupsAreExact

LEMMA SampleStep == ASSUME IInv, Sample PROVE IInv'
<1>1. PICK t : t = turn
  OBVIOUS
<1>2. /\ t \in Ants \ external /\ turn' = t + 1 /\ pc' = pc /\ pc \in Callers
      /\ UNCHANGED <<config, chainVars, verdict, failures>>
      /\ seen' = [seen EXCEPT ![t] = [@ EXCEPT ![height[t]] = BlockAt(t, height[t])]]
      /\ height[t] \in Heights
  BY <1>1, SampleFacts DEF Sample
<1>3. TypeOK'
  <2>1. /\ groups' \in Seq(Seq(Ants)) /\ \A g \in DOMAIN groups' : groups'[g] # <<>>
    BY <1>1, OneGroupTakes
  <2>2. \A a \in external', h \in Heights : seen'[a][h] = "none"
    BY <1>2 DEF IInv, TypeOK, config
  <2>3. turn' \in 1 .. NumAnts + 1
    BY <1>2, NumAntsAssumption DEF Ants
  <2> QED BY <1>2, <2>1, <2>2, <2>3, SampleKeeps DEF IInv, TypeOK, config, chainVars
<1>4. ExternalIsLast'
  BY <1>1, <1>2, NumAntsAssumption DEF IInv, ExternalIsLast, config, Ants
<1>5. CallsBeginAfresh'
  BY <1>2 DEF CallsBeginAfresh, Callers
<1>6. FirstFoundsFirst'
  <2>1. CASE groups = <<>>
    <3>1. AskedSoFar = {}
      BY <1>2, <2>1 DEF IInv, GroupsAreExact
    <3>2. 1 \in Ants \ external
      BY NumAntsAssumption DEF Ants, IInv, ExternalIsLast
    <3>3. t = 1
      BY <1>1, <1>2, <3>1, <3>2, NumAntsAssumption DEF AskedSoFar, Ants
    <3> QED BY <1>1, <2>1, <3>3, OneGroupTakes DEF FirstFoundsFirst
  <2>2. CASE groups # <<>>
    BY <1>1, <2>2, OneGroupTakes DEF IInv, FirstFoundsFirst
  <2> QED BY <2>1, <2>2
<1>7. SeenIsOnChain'
  <2> SUFFICES ASSUME NEW a \in Ants, NEW h \in Heights, seen'[a][h] # "none"
               PROVE  h <= height[a] /\ (reorged \/ seen'[a][h] = BlockAt(a, h))
    BY <1>2 DEF SeenIsOnChain, BlockAt, config, chainVars
  <2>1. CASE a = t /\ h = height[t]
    <3>1. h <= height[a]
      BY <2>1, HeightsAssumption DEF Heights
    <3>2. seen'[a][h] = BlockAt(a, h)
      BY <1>2, <2>1 DEF IInv, TypeOK
    <3> QED BY <3>1, <3>2
  <2>2. CASE ~(a = t /\ h = height[t])
    <3>1. seen'[a][h] = seen[a][h]
      BY <1>2, <2>2 DEF IInv, TypeOK
    <3> QED BY <3>1 DEF IInv, SeenIsOnChain
  <2> QED BY <2>1, <2>2
<1> QED BY <1>3, <1>4, <1>5, <1>6, <1>7, SampleExact DEF IInv

(* No groups are the groups of no ants. *)
LEMMA NoGroups ==
  ASSUME groups = <<>>, turn = 1
  PROVE  GroupsAreExact /\ FirstFoundsFirst
<1>1. DOMAIN groups = {} /\ AskedSoFar = {}
  BY NumAntsAssumption DEF AskedSoFar, Ants
<1> QED BY <1>1 DEF GroupsAreExact, FirstFoundsFirst

LEMMA NoGroupsNext ==
  ASSUME groups' = <<>>, turn' = 1
  PROVE  GroupsAreExact' /\ FirstFoundsFirst'
<1>1. DOMAIN groups' = {} /\ AskedSoFar' = {}
  BY NumAntsAssumption DEF AskedSoFar, Ants
<1> QED BY <1>1 DEF GroupsAreExact, FirstFoundsFirst

(* The groups depend on nothing else than this.                            *)
LEMMA SameGroups ==
  ASSUME GroupsAreExact, UNCHANGED <<pc, groups, turn, external, seen, askedAt>>
  PROVE  GroupsAreExact'
<1>1. \A a : SeenBy(a)' = SeenBy(a) /\ Recent(a)' = Recent(a)
  BY DEF Recent, SeenBy
<1>2. \A a, b : Connected(a, b)' <=> Connected(a, b)
  BY <1>1 DEF Connected
<1>3. (\A g : Members(g)' = Members(g)) /\ AskedSoFar' = AskedSoFar
  BY DEF Members, AskedSoFar
<1>4. CASE pc \notin Callers
  BY <1>4 DEF GroupsAreExact
<1>5. CASE pc \in Callers
  <2>1. UNION {Members(g)' : g \in DOMAIN groups'} = AskedSoFar'
    BY <1>3, <1>5 DEF GroupsAreExact
  <2>2. \A g \in DOMAIN groups' : \A m \in 2 .. Len(groups'[g]) : \A a, b :
          a = groups'[g][m] /\ b = groups'[g][1] => Connected(a, b)'
    BY <1>2, <1>5 DEF GroupsAreExact
  <2>3. \A f, g \in DOMAIN groups' : f < g => \A a \in Members(g)' : \A b :
          b = groups'[f][1] => a \notin Members(f)' /\ ~Connected(a, b)'
    BY <1>2, <1>3, <1>5 DEF GroupsAreExact
  <2> QED BY <2>1, <2>2, <2>3 DEF GroupsAreExact
<1> QED BY <1>4, <1>5

(* A call ends, and the next one begins with no groups.                    *)
LEMMA RoundStep ==
  ASSUME IInv, SampleFails \/ WaitRoundOver \/ MonitorRoundOver PROVE IInv'
<1>1. EndRound /\ UNCHANGED <<config, chainVars, seen>>
  BY DEF SampleFails, WaitRoundOver, MonitorRoundOver
<1>2. /\ pc' \in {"pause", "sleep", "failed"} /\ failures' \in 0 .. MaxFailures
      /\ verdict' \in {"none", "synced", "split", "error"}
  BY FailuresAssumption DEF SampleFails, WaitRoundOver, MonitorRoundOver, IInv, TypeOK
<1>3. TypeOK'
  <2>1. /\ 1 \in 1 .. NumAnts + 1 /\ 0 \in Heights /\ <<>> \in Seq(Seq(Ants))
        /\ \A g \in DOMAIN <<>> : <<>>[g] # <<>>
    BY NumAntsAssumption, HeightsAssumption DEF Heights
  <2> QED BY <1>1, <1>2, <2>1 DEF IInv, TypeOK, EndRound, config, chainVars
<1>4. ExternalIsLast' /\ CallsBeginAfresh'
  BY <1>1, NumAntsAssumption
     DEF IInv, TypeOK, ExternalIsLast, CallsBeginAfresh, EndRound, config, Ants
<1>5. SeenIsOnChain'
  BY <1>1 DEF IInv, SeenIsOnChain, BlockAt, config, chainVars
<1> QED BY <1>1, <1>3, <1>4, <1>5, NoGroupsNext DEF IInv, EndRound

(* A pause is over, or ends the wait, or a nil map is written.             *)
LEMMA PauseStep ==
  ASSUME IInv, SampleExternal \/ NextRound \/ JobsStopped PROVE IInv'
<1>1. UNCHANGED <<config, chainVars, sampleVars, turn, verdict, failures>>
  BY DEF SampleExternal, NextRound, JobsStopped
<1>2. \/ pc \in {"pause", "sleep"} /\ pc' \in Callers \cup {"failed"}
      \/ pc' = "dead"
  BY DEF SampleExternal, NextRound, JobsStopped, Callers
<1>3. TypeOK' /\ ExternalIsLast' /\ CallsBeginAfresh' /\ FirstFoundsFirst' /\ SeenIsOnChain'
  BY <1>1, <1>2 DEF IInv, TypeOK, ExternalIsLast, CallsBeginAfresh, FirstFoundsFirst,
                    SeenIsOnChain, BlockAt, Callers, config, chainVars, sampleVars
<1>4. GroupsAreExact'
  <2>1. CASE pc' = "dead"
    BY <2>1 DEF GroupsAreExact, Callers
  <2>2. CASE pc \in {"pause", "sleep"}
    BY <1>1, <2>2, NoGroupsNext DEF IInv, CallsBeginAfresh, sampleVars
  <2> QED BY <1>2, <2>1, <2>2
<1> QED BY <1>3, <1>4 DEF IInv

(* The ants' chains: what is remembered of an ant stays below its height,  *)
(* and on its chain as long as it only grows or was below the fork.        *)
LEMMA ChainStep ==
  ASSUME IInv, NEW a \in Ants, NEW b \in Ants, Grow(a) \/ Follow(a, b) PROVE IInv'
<1>1. UNCHANGED pollVars
  BY DEF Grow, Follow
<1>2. /\ height' \in [Ants -> Heights] /\ branch' \in [Ants -> Branches] /\ reorged' \in BOOLEAN
  <2>1. CASE Grow(a)
    <3>1. height[a] + 1 \in Heights
      BY <2>1, HeightsAssumption DEF Grow, IInv, TypeOK, Heights
    <3> QED BY <2>1, <3>1 DEF Grow, IInv, TypeOK
  <2>2. CASE Follow(a, b)
    <3>1. reorged' \in BOOLEAN
      BY <2>2 DEF Follow, IInv, TypeOK
    <3> QED BY <2>2, <3>1 DEF Follow, IInv, TypeOK
  <2> QED BY <2>1, <2>2
<1>3. TypeOK' /\ ExternalIsLast' /\ CallsBeginAfresh' /\ FirstFoundsFirst'
  BY <1>1, <1>2 DEF IInv, TypeOK, ExternalIsLast, CallsBeginAfresh, FirstFoundsFirst,
                    pollVars, config, sampleVars
<1>4. GroupsAreExact'
  BY <1>1, SameGroups DEF IInv, pollVars, config, sampleVars
<1>5. SeenIsOnChain'
  <2> SUFFICES ASSUME NEW c \in Ants, NEW h \in Heights, seen[c][h] # "none"
               PROVE  h <= height'[c] /\ (reorged' \/ seen[c][h] = BlockAt(c, h)')
    BY <1>1 DEF SeenIsOnChain, pollVars, sampleVars
  <2>1. h <= height[c] /\ (reorged \/ seen[c][h] = BlockAt(c, h))
    BY DEF IInv, SeenIsOnChain
  <2>2. CASE Grow(a)
    BY <1>1, <2>1, <2>2 DEF Grow, IInv, TypeOK, BlockAt, Heights, pollVars, config
  <2>3. CASE Follow(a, b)
    <3>0. /\ height[a] \in Nat /\ height[b] \in Nat /\ h \in Nat /\ forkHeight \in Nat
          /\ height \in [Ants -> Heights] /\ branch \in [Ants -> Branches]
      BY HeightsAssumption DEF IInv, TypeOK, Heights
    <3>1. CASE c # a
      <4>1. height'[c] = height[c] /\ branch'[c] = branch[c] /\ forkHeight' = forkHeight
        BY <1>1, <2>3, <3>0, <3>1 DEF Follow, pollVars, config
      <4>2. reorged => reorged'
        BY <2>3 DEF Follow
      <4> QED BY <2>1, <4>1, <4>2 DEF BlockAt
    <3>2. CASE c = a
      <4>1. height'[c] = height[b] /\ branch'[c] = branch[b] /\ forkHeight' = forkHeight
        BY <1>1, <2>3, <3>0, <3>2 DEF Follow, pollVars, config
      <4>2. reorged \/ (branch[a] # branch[b] /\ height[a] > forkHeight) => reorged'
        BY <2>3 DEF Follow
      <4>3. h <= height'[c]
        BY <2>1, <2>3, <3>0, <3>2, <4>1 DEF Follow
      <4>4. CASE h <= forkHeight
        BY <2>1, <3>2, <4>1, <4>2, <4>3, <4>4 DEF BlockAt
      <4>5. CASE h > forkHeight
        <5>1. height[a] > forkHeight
          BY <2>1, <3>0, <3>2, <4>5
        <5> QED BY <2>1, <3>0, <3>2, <4>1, <4>2, <4>3, <4>5, <5>1 DEF BlockAt
      <4> QED BY <3>0, <4>4, <4>5
    <3> QED BY <3>1, <3>2
  <2> QED BY <2>2, <2>3
<1> QED BY <1>3, <1>4, <1>5 DEF IInv

(* What a single group says, from what the groups are: its members share a *)
(* recent block with the first ant, and while no ant has replaced a block  *)
(* that is a block of both chains.                                         *)
LEMMA ForksLate == IInv => OneGroupForksLate
<1> SUFFICES ASSUME IInv, AllAsked, Len(groups) = 1, ~reorged, NEW a \in Asked
             PROVE  branch[a] = branch[1] \/ askedAt[a] < forkHeight + Window
  BY DEF OneGroupForksLate
<1>1. pc \in Callers /\ Asked \subseteq Ants /\ a \in Ants /\ 1 \in Ants
  BY NumAntsAssumption DEF AllAsked, Asked, Ants
<1>2. a \in AskedSoFar
  <2>1. turn \in 1 .. NumAnts + 1 /\ turn \notin Asked /\ external \subseteq {NumAnts}
    BY DEF IInv, TypeOK, ExternalIsLast, AllAsked
  <2>2. CASE pc = "wait"
    BY <1>1, <2>1, <2>2, NumAntsAssumption DEF Asked, AskedSoFar, Ants
  <2>3. CASE pc # "wait"
    <3>1. turn = NumAnts + 1
      BY <2>1, <2>3, NumAntsAssumption DEF Asked, Ants
    <3>2. external = {}
      BY <2>1, <3>1, NumAntsAssumption DEF IInv, ExternalIsLast
    <3> QED BY <1>1, <3>1, <3>2, NumAntsAssumption DEF AskedSoFar, Ants
  <2> QED BY <2>2, <2>3
<1>3. a \in Members(1) /\ groups[1][1] = 1 /\ 1 \in DOMAIN groups
  <2>1. DOMAIN groups = {1} /\ groups # <<>>
    <3>1. groups \in Seq(Seq(Ants)) /\ 1 .. 1 = {1}
      BY DEF IInv, TypeOK
    <3>2. DOMAIN groups = 1 .. Len(groups) /\ Len(groups) = 1
      BY <3>1
    <3>3. groups # <<>>
      BY <3>2, 1 \in 1 .. 1
    <3> QED BY <3>1, <3>2, <3>3
  <2>2. UNION {Members(g) : g \in DOMAIN groups} = AskedSoFar
    BY <1>1 DEF IInv, GroupsAreExact
  <2> QED BY <1>2, <2>1, <2>2 DEF IInv, FirstFoundsFirst
<1>4. PICK m \in DOMAIN groups[1] : a = groups[1][m]
  BY <1>3 DEF Members
<1>5. CASE m = 1
  BY <1>3, <1>4, <1>5
<1>6. CASE m # 1
  <2>1. m \in 2 .. Len(groups[1])
    BY <1>3, <1>4, <1>6 DEF IInv, TypeOK
  <2>2. Connected(a, 1)
    BY <1>1, <1>3, <1>4, <2>1 DEF IInv, GroupsAreExact
  <2>3. PICK blk \in Recent(a) : blk \in SeenBy(1)
    BY <2>2 DEF Connected
  <2>4. PICK k \in Heights : blk = <<k, seen[a][k]>> /\ seen[a][k] # "none"
    BY <2>3 DEF Recent, SeenBy
  <2>5. seen[1][k] = seen[a][k] /\ askedAt[a] < k + Window
    <3>1. PICK j \in Heights : blk = <<j, seen[1][j]>>
      BY <2>3 DEF SeenBy
    <3> QED BY <2>3, <2>4, <3>1 DEF Recent
  <2>6. BlockAt(a, k) = BlockAt(1, k)
    BY <1>1, <2>4, <2>5 DEF IInv, SeenIsOnChain
  <2>7. CASE k > forkHeight
    BY <2>6, <2>7, HeightsAssumption DEF BlockAt, IInv, TypeOK, Heights
  <2>8. CASE k <= forkHeight
    BY <1>1, <2>5, <2>8, HeightsAssumption DEF IInv, TypeOK, Heights
  <2> QED BY <2>7, <2>8, HeightsAssumption DEF IInv, TypeOK, Heights
<1> QED BY <1>5, <1>6

(* The inductive invariant of the rounds.                                  *)
THEOREM Invariant == Spec => []IInv
<1>1. Init => IInv
  <2> SUFFICES ASSUME Init PROVE IInv
    OBVIOUS
  <2>1. TypeOK
    <3>1. /\ 1 \in 1 .. NumAnts + 1 /\ 0 \in Heights /\ <<>> \in Seq(Seq(Ants))
          /\ 0 \in 0 .. MaxFailures /\ forkHeight \in Heights
          /\ \A g \in DOMAIN <<>> : <<>>[g] # <<>>
      BY NumAntsAssumption, HeightsAssumption, FailuresAssumption DEF Heights, Init
    <3>2. external \in SUBSET Ants /\ branch \in [Ants -> Branches] /\ pc \in {"wait", "sleep"}
      BY NumAntsAssumption DEF Init, Ants
    <3>3. /\ height = [a \in Ants |-> 0] /\ askedAt = [a \in Ants |-> 0] /\ reorged = FALSE
          /\ seen = [a \in Ants |-> [h \in Heights |-> "none"]]
          /\ turn = 1 /\ groups = <<>> /\ verdict = "none" /\ failures = 0
      BY DEF Init
    <3> QED BY <3>1, <3>2, <3>3 DEF TypeOK, Callers
  <2>2. ExternalIsLast
    BY NumAntsAssumption DEF Init, ExternalIsLast
  <2>3. CallsBeginAfresh /\ SeenIsOnChain
    BY DEF Init, CallsBeginAfresh, SeenIsOnChain
  <2>4. GroupsAreExact /\ FirstFoundsFirst
    BY NoGroups DEF Init
  <2> QED BY <2>1, <2>2, <2>3, <2>4 DEF IInv
<1>2. IInv /\ [Next]_vars => IInv'
  <2> SUFFICES ASSUME IInv, [Next]_vars PROVE IInv'
    OBVIOUS
  <2>1. CASE PollStep
    BY <2>1, SampleStep, RoundStep, PauseStep DEF PollStep
  <2>2. CASE \E a \in Ants : Grow(a) \/ \E b \in Ants : Follow(a, b)
    BY <2>2, ChainStep
  <2>3. CASE UNCHANGED vars
    <3>1. TypeOK' /\ ExternalIsLast' /\ CallsBeginAfresh' /\ FirstFoundsFirst' /\ SeenIsOnChain'
      BY <2>3 DEF vars, config, chainVars, sampleVars, IInv, TypeOK, ExternalIsLast,
                  CallsBeginAfresh, FirstFoundsFirst, SeenIsOnChain, BlockAt
    <3>2. GroupsAreExact'
      BY <2>3, SameGroups DEF vars, config, sampleVars, IInv
    <3> QED BY <3>1, <3>2 DEF IInv
  <2> QED BY <2>1, <2>2, <2>3 DEF Next
<1> QED BY <1>1, <1>2, PTL DEF Spec

(* The types; in particular nothing is ever seen of an external ant.       *)
THEOREM TypeCorrect == Spec => []TypeOK
  BY Invariant, PTL DEF IInv

(* antConsensusGroups returns the groups that are defined without its      *)
(* loop, the order of its comparisons and its unsigned heights.            *)
THEOREM GroupsAreRight == Spec => []GroupsAreExact
  BY Invariant, PTL DEF IInv

(* A single group: no ant has left the chain of the first one by more      *)
(* blocks than are compared, as long as no ant has replaced a block.       *)
THEOREM SingleGroup == Spec => []OneGroupForksLate
  BY Invariant, ForksLate, PTL

(* Only a complete round with one group is taken for agreement. *)
LEMMA DeclaredAfterRound ==
  ASSUME IInv, [Next]_vars, DeclaresSync PROVE AllAsked /\ Len(groups) = 1
<1>1. CASE UNCHANGED vars
  BY <1>1 DEF vars, DeclaresSync, Callers
<1>2. CASE Sample \/ SampleExternal
  BY <1>2 DEF Sample, SampleExternal, DeclaresSync, Callers
<1>3. CASE SampleFails
  BY <1>3 DEF SampleFails, DeclaresSync, Callers
<1>4. CASE WaitRoundOver
  BY <1>4 DEF WaitRoundOver, DeclaresSync, Callers
<1>5. CASE MonitorRoundOver
  BY <1>5 DEF MonitorRoundOver, DeclaresSync, Callers
<1>6. CASE NextRound \/ JobsStopped
  BY <1>6 DEF NextRound, JobsStopped, DeclaresSync, Callers
<1>7. ASSUME NEW a \in Ants, Grow(a) \/ \E b \in Ants : Follow(a, b) PROVE FALSE
  BY <1>7 DEF Grow, Follow, pollVars, DeclaresSync, Callers
<1> QED BY <1>1, <1>2, <1>3, <1>4, <1>5, <1>6, <1>7 DEF Next, PollStep

(* What New waits for and the monitor logs is true of the chains. *)
THEOREM SyncIsTrue == Spec => SyncMeansForksLate
<1>1. IInv /\ [Next]_vars =>
        [DeclaresSync => reorged \/ \A a \in Asked :
            branch[a] = branch[1] \/ askedAt[a] < forkHeight + Window]_vars
  <2> SUFFICES ASSUME IInv, [Next]_vars, DeclaresSync, ~reorged
               PROVE  \A a \in Asked : branch[a] = branch[1] \/ askedAt[a] < forkHeight + Window
    OBVIOUS
  <2>1. AllAsked /\ Len(groups) = 1
    BY DeclaredAfterRound
  <2> QED BY <2>1, ForksLate DEF OneGroupForksLate
<1> QED BY <1>1, Invariant, PTL DEF Spec, SyncMeansForksLate
=============================================================================
