---------------------------- MODULE PortAssigner ----------------------------
(***************************************************************************)
(* ant.GetAddr and GetAddrs (ant/ant.go): goroutines that configure ants   *)
(* and farms draw random ports and keep the ports they drew in two sets    *)
(* shared by the process, checking and assigned.                           *)
(*                                                                         *)
(* Each access to the sets is a step.  The sets are guarded by a mutex,    *)
(* but the lookup in assigned is made without it: a lookup that overlaps   *)
(* the write of another goroutine ends the process (Go reports a           *)
(* concurrent map read and map write) or reads the set before the write.   *)
(***************************************************************************)
EXTENDS Naturals, Sequences, SequencesExt

CONSTANTS
    Goroutines,   \* callers of GetAddrs
    Ports,        \* the range that the random port is drawn from
    NoPort,
    NumAddrs,     \* n of GetAddrs(n)
    MaxTries      \* tries of build.Retry, 100 in the code

ASSUME BoundsAssumption == NumAddrs \in Nat /\ MaxTries \in Nat \ {0}
ASSUME NoPortAssumption == NoPort \notin Ports

VARIABLES
    checking, assigned,   \* assignedPorts
    used,      \* ports that some process of the machine listens on
    pc,        \* where each goroutine is in GetAddr
    port,      \* the port it has drawn
    tries,     \* how often its retried function has run
    addrs,     \* the ports that its GetAddrs collected
    crashed    \* the process died

vars == <<checking, assigned, used, pc, port, tries, addrs, crashed>>

TypeOK ==
    /\ checking \subseteq Ports /\ assigned \subseteq Ports /\ used \subseteq Ports
    /\ pc \in [Goroutines -> {"draw", "lookup", "probe", "write", "written", "release",
                              "done", "error"}]
    /\ port \in [Goroutines -> Ports \cup {NoPort}]
    /\ tries \in [Goroutines -> 0 .. MaxTries]
    /\ addrs \in [Goroutines -> Seq(Ports)]
    /\ \A g \in Goroutines : Len(addrs[g]) <= NumAddrs
    /\ crashed \in BOOLEAN

Init ==
    /\ checking = {} /\ assigned = {}
    /\ used \in SUBSET Ports
    /\ pc = [g \in Goroutines |-> "draw"]
    /\ port = [g \in Goroutines |-> NoPort]
    /\ tries = [g \in Goroutines |-> 0]
    /\ addrs = [g \in Goroutines |-> <<>>]
    /\ crashed = FALSE

Goto(g, label) == pc' = [pc EXCEPT ![g] = label]

At(g, label) == ~crashed /\ pc[g] = label

(* GetAddrs has its n addresses. *)
AllDrawn(g) ==
    /\ At(g, "draw") /\ Len(addrs[g]) = NumAddrs
    /\ Goto(g, "done")
    /\ UNCHANGED <<checking, assigned, used, port, tries, addrs, crashed>>

(* Draw a port.  If another goroutine is checking it, fail this try;       *)
(* otherwise reserve it.                                                   *)
Draw(g) ==
    /\ At(g, "draw") /\ Len(addrs[g]) < NumAddrs
    /\ \E p \in Ports :
         /\ port' = [port EXCEPT ![g] = p]
         /\ IF p \in checking THEN Goto(g, "release") ELSE Goto(g, "lookup")
         /\ checking' = checking \cup {p}
    /\ tries' = [tries EXCEPT ![g] = @ + 1]
    /\ UNCHANGED <<assigned, used, addrs, crashed>>

(* The unguarded lookup. *)
Lookup(g) ==
    /\ At(g, "lookup")
    /\ IF port[g] \in assigned THEN Goto(g, "release") ELSE Goto(g, "probe")
    /\ UNCHANGED <<checking, assigned, used, port, tries, addrs, crashed>>

LookupRace(g) ==
    /\ At(g, "lookup")
    /\ \E h \in Goroutines \ {g} : pc[h] = "write"
    /\ crashed' = TRUE
    /\ UNCHANGED <<checking, assigned, used, pc, port, tries, addrs>>

(* ss, or Listen, tells whether the port is used; both may fail. *)
ProbeFree(g) ==
    /\ At(g, "probe") /\ port[g] \notin used
    /\ Goto(g, "write")
    /\ UNCHANGED <<checking, assigned, used, port, tries, addrs, crashed>>

ProbeFails(g) ==
    /\ At(g, "probe")
    /\ Goto(g, "release")
    /\ UNCHANGED <<checking, assigned, used, port, tries, addrs, crashed>>

(* Mutant: the port is not remembered. *)
NoWrite(g) ==
    /\ At(g, "write")
    /\ Goto(g, "written")
    /\ UNCHANGED <<checking, assigned, used, port, tries, addrs, crashed>>

(* Under the mutex: no two goroutines write at once. *)
Write(g) ==
    /\ At(g, "write")
    /\ assigned' = assigned \cup {port[g]}
    /\ Goto(g, "written")
    /\ UNCHANGED <<checking, used, port, tries, addrs, crashed>>

(* The deferred function of the retried function runs on every return: it  *)
(* takes the port out of checking, whoever put it there.                   *)
ReleaseKept(g) ==
    /\ At(g, "written")
    /\ checking' = checking \ {port[g]}
    /\ addrs' = [addrs EXCEPT ![g] = Append(@, port[g])]
    /\ tries' = [tries EXCEPT ![g] = 0]
    /\ Goto(g, "draw")
    /\ UNCHANGED <<assigned, used, port, crashed>>

(* Mutants: only a port that is returned is released; one try too many. *)
KeepFailed(g) ==
    /\ At(g, "release")
    /\ Goto(g, IF tries[g] < MaxTries THEN "draw" ELSE "error")
    /\ UNCHANGED <<checking, assigned, used, port, tries, addrs, crashed>>

ReleaseAndRetry(g) ==
    /\ At(g, "release")
    /\ checking' = checking \ {port[g]}
    /\ Goto(g, IF tries[g] <= MaxTries THEN "draw" ELSE "error")
    /\ UNCHANGED <<assigned, used, port, tries, addrs, crashed>>

ReleaseFailed(g) ==
    /\ At(g, "release")
    /\ checking' = checking \ {port[g]}
    /\ Goto(g, IF tries[g] < MaxTries THEN "draw" ELSE "error")
    /\ UNCHANGED <<assigned, used, port, tries, addrs, crashed>>

(* Some process starts to listen. *)
Occupy(p) ==
    /\ ~crashed /\ p \notin used
    /\ used' = used \cup {p}
    /\ UNCHANGED <<checking, assigned, pc, port, tries, addrs, crashed>>

Step(g) ==
    \/ AllDrawn(g) \/ Draw(g) \/ Lookup(g) \/ LookupRace(g)
    \/ ProbeFree(g) \/ ProbeFails(g) \/ Write(g) \/ ReleaseKept(g) \/ ReleaseFailed(g)

Next == (\E g \in Goroutines : Step(g)) \/ (\E p \in Ports : Occupy(p))

Spec == Init /\ [][Next]_vars
FairSpec == Spec /\ \A g \in Goroutines : WF_vars(Step(g))
-----------------------------------------------------------------------------
(* Properties.                                                             *)

(* The addresses that one GetAddrs returns, the five of one ant, differ    *)
(* from each other, whatever other goroutines draw.                        *)
AddrsDiffer == \A g \in Goroutines : IsInjective(addrs[g])

(* assignedPorts "prevents port collisions between all configured          *)
(* services" (ant.go:66): no port is returned twice in the process.        *)
NoCollision ==
    \A g, h \in Goroutines : \A i \in DOMAIN addrs[g], j \in DOMAIN addrs[h] :
        addrs[g][i] = addrs[h][j] => g = h /\ i = j

(* The two sets neither lose nor leak: a returned port stays in assigned,  *)
(* and a port in checking is one that some goroutine is dealing with.      *)
Dealing == {"lookup", "probe", "write", "written", "release"}
NothingStaysReserved ==
    /\ \A g \in Goroutines : ToSet(addrs[g]) \subseteq assigned
    /\ \A p \in checking : \E g \in Goroutines : port[g] = p /\ pc[g] \in Dealing

(* Why these hold: whoever deals with a port has one, and room for it; a   *)
(* try is begun only if one is left; a port that passed the lookup is none *)
(* of the goroutine's own, and it is in assigned before it is returned.    *)
(* IInv is inductive.                                                      *)
HasPortAndRoom ==
    \A g \in Goroutines : pc[g] \in Dealing => port[g] \in Ports /\ Len(addrs[g]) < NumAddrs
TryIsLeft == \A g \in Goroutines : pc[g] = "draw" => tries[g] < MaxTries
PassedLookup ==
    \A g \in Goroutines :
        /\ pc[g] \in {"probe", "write", "written"} => port[g] \notin ToSet(addrs[g])
        /\ pc[g] = "written" => port[g] \in assigned
IInv == /\ TypeOK /\ AddrsDiffer /\ NothingStaysReserved
        /\ HasPortAndRoom /\ TryIsLeft /\ PassedLookup

(* The only way to a collision: two goroutines deal with one port at once. *)
(* The farm configures its ants one after the other (antfarm/ant.go:124),  *)
(* so that in a process with one farm the premise holds.                   *)
NoSharedPort ==
    \A g, h \in Goroutines : pc[g] \in Dealing /\ pc[h] \in Dealing /\ port[g] = port[h] => g = h

(* Then a port that passed the lookup, or was written and is about to be   *)
(* returned, is nobody's: with IInv this is inductive.                     *)
PortIsNew ==
    /\ \A g \in Goroutines : pc[g] \in {"probe", "write"} => port[g] \notin assigned
    /\ \A g, h \in Goroutines : pc[g] = "written" => port[g] \notin ToSet(addrs[h])
NewPorts == PortIsNew /\ NoCollision

(* GetAddrs returns, with addresses or with an error, or the process died. *)
GetAddrsReturns == \A g \in Goroutines : <>(pc[g] \in {"done", "error"} \/ crashed)
=============================================================================
