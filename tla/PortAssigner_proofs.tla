------------------------ MODULE PortAssigner_proofs ------------------------
(***************************************************************************)
(* Proofs about PortAssigner, for any set of goroutines and ports: one     *)
(* GetAddrs returns different ports, and the two sets of the process       *)
(* neither lose nor leak a port.  No two GetAddrs return one port as long  *)
(* as no two goroutines deal with one at once.                             *)
(***************************************************************************)
EXTENDS PortAssigner, TLAPS

(* What a sequence holds after an Append.                                  *)
LEMMA AppendedSet ==
  ASSUME NEW S, NEW s \in Seq(S), NEW e \in S
  PROVE  /\ Append(s, e) \in Seq(S) /\ Len(Append(s, e)) = Len(s) + 1
         /\ ToSet(Append(s, e)) = ToSet(s) \cup {e}
<1>1. /\ Len(s) \in Nat /\ Len(Append(s, e)) = Len(s) + 1
      /\ DOMAIN Append(s, e) = 1 .. Len(s) + 1 /\ DOMAIN s = 1 .. Len(s)
  OBVIOUS
<1>2. /\ \A i \in 1 .. Len(s) : Append(s, e)[i] = s[i]
      /\ Append(s, e)[Len(s) + 1] = e
  OBVIOUS
<1> QED BY <1>1, <1>2 DEF ToSet

(* An element that is new to a sequence without repetitions may be added.  *)
LEMMA AppendedInjective ==
  ASSUME NEW S, NEW s \in Seq(S), NEW e \in S, IsInjective(s), e \notin ToSet(s)
  PROVE  IsInjective(Append(s, e))
<1>1. /\ Len(s) \in Nat
      /\ DOMAIN Append(s, e) = 1 .. Len(s) + 1 /\ DOMAIN s = 1 .. Len(s)
  OBVIOUS
<1>2. /\ \A i \in 1 .. Len(s) : Append(s, e)[i] = s[i] /\ s[i] # e
      /\ Append(s, e)[Len(s) + 1] = e
  BY <1>1 DEF ToSet
<1> QED BY <1>1, <1>2 DEF IsInjective

(* A step of a goroutine that keeps what it returns and what is assigned.  *)
LEMMA TryStep ==
  ASSUME IInv, TypeOK', NEW g \in Goroutines,
         addrs' = addrs, assigned \subseteq assigned',
         \A h \in Goroutines \ {g} : pc'[h] = pc[h] /\ port'[h] = port[h] /\ tries'[h] = tries[h],
         pc'[g] \in Dealing => port'[g] \in Ports /\ Len(addrs[g]) < NumAddrs,
         pc'[g] = "draw" => tries'[g] < MaxTries,
         pc'[g] \in {"probe", "write", "written"} => port'[g] \notin ToSet(addrs[g]),
         pc'[g] = "written" => port'[g] \in assigned',
         \A p \in checking' : \/ p = port'[g] /\ pc'[g] \in Dealing
                              \/ p \in checking /\ ~(p = port[g] /\ pc[g] \in Dealing)
  PROVE  IInv'
<1> USE DEF IInv
<1>1. AddrsDiffer'
  BY DEF AddrsDiffer
<1>2. NothingStaysReserved'
  <2>1. \A h \in Goroutines : ToSet(addrs'[h]) \subseteq assigned'
    BY DEF NothingStaysReserved
  <2>2. ASSUME NEW p \in checking'
        PROVE  \E h \in Goroutines : port'[h] = p /\ pc'[h] \in Dealing
    <3>1. CASE p = port'[g] /\ pc'[g] \in Dealing
      BY <3>1
    <3>2. CASE p \in checking /\ ~(p = port[g] /\ pc[g] \in Dealing)
      <4>1. PICK h \in Goroutines : port[h] = p /\ pc[h] \in Dealing
        BY <3>2 DEF NothingStaysReserved
      <4>2. h # g
        BY <3>2, <4>1
      <4> QED BY <4>1, <4>2
    <3> QED BY <2>2, <3>1, <3>2
  <2> QED BY <2>1, <2>2 DEF NothingStaysReserved
<1>3. HasPortAndRoom'
  BY DEF HasPortAndRoom
<1>4. TryIsLeft'
  BY DEF TryIsLeft
<1>5. PassedLookup'
  BY DEF PassedLookup
<1> QED BY <1>1, <1>2, <1>3, <1>4, <1>5

LEMMA TypeStep == ASSUME IInv, [Next]_vars PROVE TypeOK'
<1> USE DEF IInv
<1>1. CASE UNCHANGED vars
  BY <1>1 DEF vars, TypeOK
<1>2. ASSUME NEW g \in Goroutines, Step(g) PROVE TypeOK'
  <2>1. CASE AllDrawn(g) \/ Lookup(g) \/ ProbeFree(g) \/ ProbeFails(g) \/ LookupRace(g)
    BY <2>1 DEF AllDrawn, Lookup, ProbeFree, ProbeFails, LookupRace, Goto, TypeOK
  <2>2. CASE Draw(g)
    <3>1. PICK p \in Ports : /\ port' = [port EXCEPT ![g] = p]
                             /\ IF p \in checking THEN Goto(g, "release") ELSE Goto(g, "lookup")
                             /\ checking' = checking \cup {p}
      BY <2>2 DEF Draw
    <3>2. tries[g] + 1 \in 0 .. MaxTries
      BY <2>2, BoundsAssumption DEF Draw, At, TryIsLeft, TypeOK
    <3> QED BY <2>2, <3>1, <3>2 DEF Draw, Goto, TypeOK
  <2>3. CASE Write(g)
    <3>1. port[g] \in Ports
      BY <2>3 DEF Write, At, HasPortAndRoom, Dealing
    <3> QED BY <2>3, <3>1 DEF Write, Goto, TypeOK
  <2>4. CASE ReleaseKept(g)
    <3>1. port[g] \in Ports /\ Len(addrs[g]) < NumAddrs
      BY <2>4 DEF ReleaseKept, At, HasPortAndRoom, Dealing
    <3>2. addrs[g] \in Seq(Ports)
      BY DEF TypeOK
    <3>3. /\ Append(addrs[g], port[g]) \in Seq(Ports)
          /\ Len(Append(addrs[g], port[g])) <= NumAddrs
      BY <3>1, <3>2, AppendedSet, BoundsAssumption
    <3>4. addrs' = [addrs EXCEPT ![g] = Append(addrs[g], port[g])]
      BY <2>4 DEF ReleaseKept
    <3>5. addrs' \in [Goroutines -> Seq(Ports)] /\ \A h \in Goroutines : Len(addrs'[h]) <= NumAddrs
      BY <3>3, <3>4 DEF TypeOK
    <3> QED BY <2>4, <3>5, BoundsAssumption DEF ReleaseKept, Goto, TypeOK
  <2>5. CASE ReleaseFailed(g)
    BY <2>5 DEF ReleaseFailed, Goto, TypeOK
  <2> QED BY <1>2, <2>1, <2>2, <2>3, <2>4, <2>5 DEF Step
<1>3. ASSUME NEW p \in Ports, Occupy(p) PROVE TypeOK'
  BY <1>3 DEF Occupy, TypeOK
<1> QED BY <1>1, <1>2, <1>3 DEF Next

LEMMA InvStep == ASSUME IInv, [Next]_vars PROVE IInv'
<1> USE DEF IInv
<1>0. TypeOK'
  BY TypeStep
<1>1. CASE UNCHANGED vars \/ \E p \in Ports : Occupy(p)
  <2>1. UNCHANGED <<checking, assigned, pc, port, tries, addrs>>
    BY <1>1 DEF vars, Occupy
  <2>2. AddrsDiffer' /\ NothingStaysReserved'
    BY <2>1 DEF AddrsDiffer, NothingStaysReserved
  <2>3. HasPortAndRoom' /\ TryIsLeft' /\ PassedLookup'
    BY <2>1 DEF HasPortAndRoom, TryIsLeft, PassedLookup
  <2> QED BY <1>0, <2>2, <2>3
<1>2. ASSUME NEW g \in Goroutines, Step(g) PROVE IInv'
  <2>1. CASE AllDrawn(g)
    <3>1. /\ pc[g] = "draw" /\ pc' = [pc EXCEPT ![g] = "done"]
          /\ UNCHANGED <<checking, assigned, port, tries, addrs>>
      BY <2>1 DEF AllDrawn, At, Goto
    <3>2. pc'[g] = "done" /\ \A h \in Goroutines \ {g} : pc'[h] = pc[h]
      BY <3>1 DEF TypeOK
    <3> QED BY <1>0, <3>1, <3>2, TryStep DEF Dealing
  <2>2. CASE Draw(g)
    <3>1. PICK p \in Ports : /\ port' = [port EXCEPT ![g] = p]
                             /\ pc' = [pc EXCEPT ![g] = IF p \in checking THEN "release" ELSE "lookup"]
                             /\ checking' = checking \cup {p}
      BY <2>2 DEF Draw, Goto
    <3>2. /\ pc[g] = "draw" /\ Len(addrs[g]) < NumAddrs /\ UNCHANGED <<assigned, addrs>>
          /\ tries' = [tries EXCEPT ![g] = @ + 1]
      BY <2>2 DEF Draw, At
    <3>3. /\ port'[g] = p /\ pc'[g] \in {"release", "lookup"}
          /\ \A h \in Goroutines \ {g} : pc'[h] = pc[h] /\ port'[h] = port[h] /\ tries'[h] = tries[h]
      BY <3>1, <3>2 DEF TypeOK
    <3> QED BY <1>0, <3>1, <3>2, <3>3, TryStep DEF Dealing
  <2>3. CASE Lookup(g)
    <3>1. /\ pc[g] = "lookup"
          /\ pc' = [pc EXCEPT ![g] = IF port[g] \in assigned THEN "release" ELSE "probe"]
          /\ UNCHANGED <<checking, assigned, port, tries, addrs>>
      BY <2>3 DEF Lookup, At, Goto
    <3>2. /\ pc'[g] \in {"release", "probe"} /\ \A h \in Goroutines \ {g} : pc'[h] = pc[h]
          /\ pc'[g] = "probe" => port[g] \notin assigned
      BY <3>1 DEF TypeOK
    <3>3. pc'[g] = "probe" => port[g] \notin ToSet(addrs[g])
      BY <3>2 DEF NothingStaysReserved
    <3>4. port[g] \in Ports /\ Len(addrs[g]) < NumAddrs
      BY <3>1 DEF HasPortAndRoom, Dealing
    <3>5. \A p \in checking : p = port[g] \/ ~(p = port[g] /\ pc[g] \in Dealing)
      OBVIOUS
    <3> QED BY <1>0, <3>1, <3>2, <3>3, <3>4, <3>5, TryStep DEF Dealing
  <2>4. CASE LookupRace(g)
    <3>1. UNCHANGED <<checking, assigned, pc, port, tries, addrs>>
      BY <2>4 DEF LookupRace
    <3>2. AddrsDiffer' /\ NothingStaysReserved'
      BY <3>1 DEF AddrsDiffer, NothingStaysReserved
    <3>3. HasPortAndRoom' /\ TryIsLeft' /\ PassedLookup'
      BY <3>1 DEF HasPortAndRoom, TryIsLeft, PassedLookup
    <3> QED BY <1>0, <3>2, <3>3
  <2>5. CASE ProbeFree(g) \/ ProbeFails(g)
    <3>1. /\ pc[g] = "probe" /\ pc' \in {[pc EXCEPT ![g] = l] : l \in {"write", "release"}}
          /\ UNCHANGED <<checking, assigned, port, tries, addrs>>
      BY <2>5 DEF ProbeFree, ProbeFails, At, Goto
    <3>2. pc'[g] \in {"write", "release"} /\ \A h \in Goroutines \ {g} : pc'[h] = pc[h]
      BY <3>1 DEF TypeOK
    <3>3. /\ port[g] \in Ports /\ Len(addrs[g]) < NumAddrs
          /\ port[g] \notin ToSet(addrs[g])
      BY <3>1 DEF HasPortAndRoom, PassedLookup, Dealing
    <3> QED BY <1>0, <3>1, <3>2, <3>3, TryStep DEF Dealing
  <2>6. CASE Write(g)
    <3>1. /\ pc[g] = "write" /\ pc' = [pc EXCEPT ![g] = "written"]
          /\ assigned' = assigned \cup {port[g]}
          /\ UNCHANGED <<checking, port, tries, addrs>>
      BY <2>6 DEF Write, At, Goto
    <3>2. pc'[g] = "written" /\ \A h \in Goroutines \ {g} : pc'[h] = pc[h]
      BY <3>1 DEF TypeOK
    <3>3. /\ port[g] \in Ports /\ Len(addrs[g]) < NumAddrs
          /\ port[g] \notin ToSet(addrs[g])
      BY <3>1 DEF HasPortAndRoom, PassedLookup, Dealing
    <3> QED BY <1>0, <3>1, <3>2, <3>3, TryStep DEF Dealing
  <2>7. CASE ReleaseFailed(g)
    <3>1. /\ pc[g] = "release"
          /\ pc' = [pc EXCEPT ![g] = IF tries[g] < MaxTries THEN "draw" ELSE "error"]
          /\ checking' = checking \ {port[g]}
          /\ UNCHANGED <<assigned, port, tries, addrs>>
      BY <2>7 DEF ReleaseFailed, At, Goto
    <3>2. /\ pc'[g] \in {"draw", "error"} /\ \A h \in Goroutines \ {g} : pc'[h] = pc[h]
          /\ pc'[g] = "draw" => tries[g] < MaxTries
      BY <3>1 DEF TypeOK
    <3> QED BY <1>0, <3>1, <3>2, TryStep DEF Dealing
  <2>8. CASE ReleaseKept(g)
    <3>1. /\ pc[g] = "written" /\ pc' = [pc EXCEPT ![g] = "draw"]
          /\ checking' = checking \ {port[g]}
          /\ addrs' = [addrs EXCEPT ![g] = Append(@, port[g])]
          /\ tries' = [tries EXCEPT ![g] = 0]
          /\ UNCHANGED <<assigned, port>>
      BY <2>8 DEF ReleaseKept, At, Goto
    <3>2. /\ addrs[g] \in Seq(Ports) /\ port[g] \in Ports
          /\ port[g] \notin ToSet(addrs[g]) /\ port[g] \in assigned
      BY <3>1 DEF TypeOK, HasPortAndRoom, PassedLookup, Dealing
    <3>3. /\ pc'[g] = "draw" /\ tries'[g] = 0 /\ addrs'[g] = Append(addrs[g], port[g])
          /\ \A h \in Goroutines \ {g} : pc'[h] = pc[h] /\ tries'[h] = tries[h] /\ addrs'[h] = addrs[h]
      BY <3>1 DEF TypeOK
    <3>4. AddrsDiffer'
      BY <3>2, <3>3, AppendedInjective DEF AddrsDiffer
    <3>5. NothingStaysReserved'
      <4>1. ToSet(addrs'[g]) = ToSet(addrs[g]) \cup {port[g]}
        BY <3>2, <3>3, AppendedSet
      <4>2. \A h \in Goroutines : ToSet(addrs'[h]) \subseteq assigned'
        BY <4>1, <3>1, <3>2, <3>3 DEF NothingStaysReserved
      <4>3. ASSUME NEW p \in checking'
            PROVE  \E h \in Goroutines : port'[h] = p /\ pc'[h] \in Dealing
        <5>1. PICK h \in Goroutines : port[h] = p /\ pc[h] \in Dealing
          BY <4>3, <3>1 DEF NothingStaysReserved
        <5>2. h # g
          BY <5>1, <3>1
        <5> QED BY <5>1, <5>2, <3>1, <3>3
      <4> QED BY <4>2, <4>3 DEF NothingStaysReserved
    <3>6. HasPortAndRoom' /\ PassedLookup'
      BY <3>1, <3>3 DEF HasPortAndRoom, PassedLookup, Dealing
    <3>7. TryIsLeft'
      BY <3>3, BoundsAssumption DEF TryIsLeft
    <3> QED BY <1>0, <3>4, <3>5, <3>6, <3>7
  <2> QED BY <1>2, <2>1, <2>2, <2>3, <2>4, <2>5, <2>6, <2>7, <2>8 DEF Step
<1> QED BY <1>1, <1>2 DEF Next

(* IInv holds in every reachable state. *)
THEOREM Invariant == Spec => []IInv
<1>1. Init => IInv
  <2> SUFFICES ASSUME Init PROVE IInv
    OBVIOUS
  <2>1. \A g \in Goroutines : addrs[g] = <<>> /\ pc[g] = "draw" /\ tries[g] = 0
    BY DEF Init
  <2>2. <<>> \in Seq(Ports) /\ Len(<<>>) = 0 /\ ToSet(<<>>) = {} /\ IsInjective(<<>>)
    BY DEF ToSet, IsInjective
  <2>3. TypeOK
    <3>1. addrs \in [Goroutines -> Seq(Ports)] /\ \A g \in Goroutines : Len(addrs[g]) <= NumAddrs
      BY <2>1, <2>2, BoundsAssumption DEF Init
    <3>2. tries \in [Goroutines -> 0 .. MaxTries]
      BY BoundsAssumption DEF Init
    <3> QED BY <3>1, <3>2 DEF Init, TypeOK
  <2>4. AddrsDiffer /\ NothingStaysReserved
    BY <2>1, <2>2 DEF Init, AddrsDiffer, NothingStaysReserved
  <2>5. HasPortAndRoom /\ TryIsLeft /\ PassedLookup
    BY <2>1, BoundsAssumption DEF HasPortAndRoom, TryIsLeft, PassedLookup, Dealing
  <2> QED BY <2>3, <2>4, <2>5 DEF IInv
<1>2. IInv /\ [Next]_vars => IInv'
  BY InvStep
<1> QED BY <1>1, <1>2, PTL DEF Spec

(* Every variable keeps its type: no goroutine tries more than MaxTries    *)
(* times for one address, or collects more than NumAddrs.                  *)
THEOREM TypeCorrect == Spec => []TypeOK
<1>1. IInv => TypeOK
  BY DEF IInv
<1> QED BY <1>1, Invariant, PTL

(* The ports of one GetAddrs differ, whoever else draws ports meanwhile.   *)
THEOREM OwnPortsDiffer == Spec => []AddrsDiffer
<1>1. IInv => AddrsDiffer
  BY DEF IInv
<1> QED BY <1>1, Invariant, PTL

(* A returned port stays assigned, a reserved port has its goroutine.      *)
THEOREM SetsAreExact == Spec => []NothingStaysReserved
<1>1. IInv => NothingStaysReserved
  BY DEF IInv
<1> QED BY <1>1, Invariant, PTL

(* A step after which nobody returns or assigns another port, and no port  *)
(* but one that passed the lookup is probed, keeps ports new.              *)
LEMMA KeepsNew ==
  ASSUME NewPorts, NEW g \in Goroutines, UNCHANGED <<assigned, addrs>>,
         \A h \in Goroutines \ {g} : pc'[h] = pc[h] /\ port'[h] = port[h],
         pc'[g] \in {"probe", "write"} => port'[g] \notin assigned,
         pc'[g] # "written"
  PROVE  NewPorts'
<1>1. NoCollision'
  BY DEF NewPorts, NoCollision
<1>2. PortIsNew'
  BY DEF NewPorts, PortIsNew
<1> QED BY <1>1, <1>2 DEF NewPorts

(* The write: nobody else deals with the port, and nobody has returned it, *)
(* since what was returned is assigned.                                    *)
LEMMA WriteKeepsNew ==
  ASSUME IInv, NewPorts, NoSharedPort, NEW g \in Goroutines, Write(g) PROVE NewPorts'
<1>1. /\ pc[g] = "write" /\ pc' = [pc EXCEPT ![g] = "written"]
      /\ assigned' = assigned \cup {port[g]}
      /\ UNCHANGED <<port, addrs>>
  BY DEF Write, At, Goto
<1>2. pc'[g] = "written" /\ \A h \in Goroutines \ {g} : pc'[h] = pc[h]
  BY <1>1 DEF IInv, TypeOK
<1>3. NoCollision'
  BY <1>1 DEF NewPorts, NoCollision
<1>4. ASSUME NEW h \in Goroutines, pc'[h] \in {"probe", "write"} PROVE port'[h] \notin assigned'
  <2>1. h # g /\ pc[h] \in {"probe", "write"}
    BY <1>2, <1>4
  <2>2. port[h] # port[g]
    BY <2>1, <1>1 DEF NoSharedPort, Dealing
  <2> QED BY <2>1, <2>2, <1>1 DEF NewPorts, PortIsNew
<1>5. ASSUME NEW h \in Goroutines, NEW k \in Goroutines, pc'[h] = "written"
      PROVE  port'[h] \notin ToSet(addrs'[k])
  <2>1. CASE h = g
    BY <2>1, <1>1 DEF NewPorts, PortIsNew, IInv, NothingStaysReserved
  <2>2. CASE h # g
    BY <2>2, <1>1, <1>2, <1>5 DEF NewPorts, PortIsNew
  <2> QED BY <2>1, <2>2
<1> QED BY <1>3, <1>4, <1>5 DEF NewPorts, PortIsNew

(* The return: the port is in no list yet, and nobody else returns it.     *)
LEMMA ReturnKeepsNew ==
  ASSUME IInv, NewPorts, NoSharedPort, NEW g \in Goroutines, ReleaseKept(g) PROVE NewPorts'
<1>1. /\ pc[g] = "written" /\ pc' = [pc EXCEPT ![g] = "draw"]
      /\ addrs' = [addrs EXCEPT ![g] = Append(@, port[g])]
      /\ UNCHANGED <<assigned, port>>
  BY DEF ReleaseKept, At, Goto
<1>2. /\ pc'[g] = "draw" /\ addrs'[g] = Append(addrs[g], port[g])
      /\ \A h \in Goroutines \ {g} : pc'[h] = pc[h] /\ addrs'[h] = addrs[h]
  BY <1>1 DEF IInv, TypeOK
<1>3. port[g] \in Ports /\ \A h \in Goroutines : addrs[h] \in Seq(Ports)
  BY <1>1 DEF IInv, TypeOK, HasPortAndRoom, Dealing
<1>4. \A h \in Goroutines : port[g] \notin ToSet(addrs[h])
  BY <1>1 DEF NewPorts, PortIsNew
<1>5. /\ Len(addrs[g]) \in Nat /\ DOMAIN addrs[g] = 1 .. Len(addrs[g])
      /\ DOMAIN addrs'[g] = 1 .. Len(addrs[g]) + 1
      /\ addrs'[g][Len(addrs[g]) + 1] = port[g]
      /\ \A i \in DOMAIN addrs[g] : addrs'[g][i] = addrs[g][i]
  BY <1>2, <1>3
<1>6. NoCollision'
  <2>1. \A h \in Goroutines : \A i \in DOMAIN addrs[h] : addrs[h][i] # port[g]
    BY <1>4 DEF ToSet
  <2>2. \A h \in Goroutines : \A i \in DOMAIN addrs'[h] :
          \/ h = g /\ i = Len(addrs[g]) + 1 /\ addrs'[h][i] = port[g]
          \/ i \in DOMAIN addrs[h] /\ addrs'[h][i] = addrs[h][i]
    BY <1>2, <1>5
  <2>3. ASSUME NEW h \in Goroutines, NEW k \in Goroutines,
               NEW i \in DOMAIN addrs'[h], NEW j \in DOMAIN addrs'[k], addrs'[h][i] = addrs'[k][j]
        PROVE  h = k /\ i = j
    <3>1. /\ \/ h = g /\ i = Len(addrs[g]) + 1 /\ addrs'[h][i] = port[g]
             \/ i \in DOMAIN addrs[h] /\ addrs'[h][i] = addrs[h][i]
          /\ \/ k = g /\ j = Len(addrs[g]) + 1 /\ addrs'[k][j] = port[g]
             \/ j \in DOMAIN addrs[k] /\ addrs'[k][j] = addrs[k][j]
      BY <2>2
    <3>2. CASE i \in DOMAIN addrs[h] /\ addrs'[h][i] = addrs[h][i]
      <4>1. j \in DOMAIN addrs[k] /\ addrs'[k][j] = addrs[k][j]
        BY <3>1, <3>2, <2>1, <2>3
      <4>2. addrs[h][i] = addrs[k][j]
        BY <3>2, <4>1, <2>3
      <4>3. \A f, m \in Goroutines : \A x \in DOMAIN addrs[f], y \in DOMAIN addrs[m] :
              addrs[f][x] = addrs[m][y] => f = m /\ x = y
        BY DEF NewPorts, NoCollision
      <4> QED BY <3>2, <4>1, <4>2, <4>3
    <3>3. CASE h = g /\ i = Len(addrs[g]) + 1 /\ addrs'[h][i] = port[g]
      BY <3>1, <3>3, <2>1, <2>3
    <3> QED BY <3>1, <3>2, <3>3
  <2> QED BY <2>3 DEF NoCollision
<1>7. ASSUME NEW h \in Goroutines, pc'[h] \in {"probe", "write"} PROVE port'[h] \notin assigned'
  BY <1>1, <1>2, <1>7 DEF NewPorts, PortIsNew
<1>8. ASSUME NEW h \in Goroutines, NEW k \in Goroutines, pc'[h] = "written"
      PROVE  port'[h] \notin ToSet(addrs'[k])
  <2>1. h # g /\ pc[h] = "written" /\ port[h] # port[g]
    BY <1>1, <1>2, <1>8 DEF NoSharedPort, Dealing
  <2>2. CASE k = g
    <3>1. ToSet(addrs'[g]) = ToSet(addrs[g]) \cup {port[g]}
      BY <1>2, <1>3, AppendedSet
    <3> QED BY <2>1, <2>2, <3>1, <1>1 DEF NewPorts, PortIsNew
  <2>3. CASE k # g
    BY <2>1, <2>3, <1>1, <1>2 DEF NewPorts, PortIsNew
  <2> QED BY <2>2, <2>3
<1> QED BY <1>6, <1>7, <1>8 DEF NewPorts, PortIsNew

LEMMA NewStep ==
  ASSUME IInv, NewPorts, NoSharedPort, [Next]_vars PROVE NewPorts'
<1>1. CASE UNCHANGED vars \/ \E p \in Ports : Occupy(p)
  <2>1. UNCHANGED <<assigned, pc, port, addrs>>
    BY <1>1 DEF vars, Occupy
  <2> QED BY <2>1 DEF NewPorts, PortIsNew, NoCollision
<1>2. ASSUME NEW g \in Goroutines, Step(g) PROVE NewPorts'
  <2>1. CASE AllDrawn(g) \/ Draw(g) \/ ProbeFails(g) \/ ReleaseFailed(g)
    <3>1. /\ UNCHANGED <<assigned, addrs>>
          /\ \E label \in {"done", "lookup", "release", "draw", "error"} :
               pc' = [pc EXCEPT ![g] = label]
          /\ port' = port \/ \E p \in Ports : port' = [port EXCEPT ![g] = p]
      BY <2>1 DEF AllDrawn, Draw, ProbeFails, ReleaseFailed, Goto
    <3>2. /\ pc'[g] \in {"done", "lookup", "release", "draw", "error"}
          /\ \A h \in Goroutines \ {g} : pc'[h] = pc[h] /\ port'[h] = port[h]
      BY <3>1 DEF IInv, TypeOK
    <3> QED BY <3>1, <3>2, KeepsNew
  <2>2. CASE Lookup(g)
    <3>1. /\ pc' = [pc EXCEPT ![g] = IF port[g] \in assigned THEN "release" ELSE "probe"]
          /\ UNCHANGED <<assigned, port, addrs>>
      BY <2>2 DEF Lookup, Goto
    <3>2. /\ pc'[g] \in {"probe", "release"} /\ (pc'[g] = "probe" => port[g] \notin assigned)
          /\ \A h \in Goroutines \ {g} : pc'[h] = pc[h]
      BY <3>1 DEF IInv, TypeOK
    <3> QED BY <3>1, <3>2, KeepsNew
  <2>3. CASE LookupRace(g)
    BY <2>3 DEF LookupRace, NewPorts, PortIsNew, NoCollision
  <2>4. CASE ProbeFree(g)
    <3>1. pc[g] = "probe" /\ pc' = [pc EXCEPT ![g] = "write"] /\ UNCHANGED <<assigned, port, addrs>>
      BY <2>4 DEF ProbeFree, At, Goto
    <3>2. pc'[g] = "write" /\ \A h \in Goroutines \ {g} : pc'[h] = pc[h]
      BY <3>1 DEF IInv, TypeOK
    <3>3. port[g] \notin assigned
      BY <3>1 DEF NewPorts, PortIsNew
    <3> QED BY <3>1, <3>2, <3>3, KeepsNew
  <2>5. CASE Write(g)
    BY <2>5, WriteKeepsNew
  <2>6. CASE ReleaseKept(g)
    BY <2>6, ReturnKeepsNew
  <2> QED BY <1>2, <2>1, <2>2, <2>3, <2>4, <2>5, <2>6 DEF Step
<1> QED BY <1>1, <1>2 DEF Next

(* As long as no two goroutines deal with one port at once, no port is     *)
(* returned twice in the process: assignedPorts keeps its promise          *)
(* (ant.go:66) however many GetAddrs follow each other, and the collisions *)
(* that are possible come from the sharing alone.                          *)
THEOREM NoCollisionWithoutSharing == Spec /\ []NoSharedPort => []NoCollision
<1>1. Init => NewPorts
  <2> SUFFICES ASSUME Init PROVE NewPorts
    OBVIOUS
  <2>1. \A g \in Goroutines : addrs[g] = <<>> /\ pc[g] = "draw"
    BY DEF Init
  <2> QED BY <2>1 DEF NewPorts, PortIsNew, NoCollision
<1>2. IInv /\ NewPorts /\ NoSharedPort /\ [Next]_vars => NewPorts'
  BY NewStep
<1>3. NewPorts => NoCollision
  BY DEF NewPorts
<1> QED BY <1>1, <1>2, <1>3, Invariant, PTL DEF Spec
=============================================================================
