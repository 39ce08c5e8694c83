-------------------------- MODULE ConsensusGroups --------------------------
(***************************************************************************)
(* antfarm/ant.go, antConsensusGroups: asks the ants one after the other   *)
(* for their current block, remembers it in the ant's SeenBlocks, and puts *)
(* the ant into the first group whose first member has seen one of the     *)
(* ant's last blocks.  Its two callers in antfarm/antfarm.go:              *)
(* waitForAntsToSync, inside New, and PermanentSyncMonitor, which runs as  *)
(* long as the farm.                                                       *)
(*                                                                         *)
(* There are two chains, with the same blocks up to a height; the ants     *)
(* grow, follow each other and reorganise while they are asked.            *)
(***************************************************************************)
EXTENDS Naturals, Sequences, FiniteSets

CONSTANTS
    NumAnts,       \* internal and external ants
    Window,        \* how many blocks of an ant are compared, eight in the code
    MaxHeight,     \* bound: height of a chain
    WrapHeight,    \* types.BlockHeight is unsigned: 2^64, scaled down
    MaxFailures    \* bound: API calls that fail

Ants     == 1 .. NumAnts
Heights  == 0 .. MaxHeight
Branches == {"main", "fork"}
Callers  == {"wait", "monitor"}

ASSUME NumAntsAssumption == NumAnts \in Nat \ {0}
ASSUME HeightsAssumption ==
    /\ Window \in Nat \ {0} /\ MaxHeight \in Nat /\ WrapHeight \in Nat
    /\ WrapHeight >= MaxHeight + Window
ASSUME FailuresAssumption == MaxFailures \in Nat

VARIABLES
    forkHeight,    \* the last height at which the two chains agree
    external,      \* ants of another farm (af.externalAnts), the last ones
    branch, height,    \* the chain of each ant
    reorged,       \* history: an ant has replaced a block
    seen,          \* SeenBlocks: the chain of the block seen at a height, or "none"
    pc,            \* the caller that asks, or where it pauses
    turn,          \* the ant to ask
    groups,        \* the groups so far
    askedAt,       \* cg.Height of each ant, as it was asked in this round
    verdict,       \* what the monitor has logged last
    failures       \* API calls that failed so far

chainVars   == <<branch, height, reorged>>
config      == <<forkHeight, external>>
sampleVars  == <<seen, groups, askedAt>>
vars == <<config, chainVars, sampleVars, pc, turn, verdict, failures>>

TypeOK ==
    /\ forkHeight \in Heights /\ external \in SUBSET Ants
    /\ branch \in [Ants -> Branches] /\ height \in [Ants -> Heights]
    /\ reorged \in BOOLEAN
    /\ seen \in [Ants -> [Heights -> Branches \cup {"none"}]]
    /\ pc \in Callers \cup {"pause", "sleep", "failed", "dead"}
    /\ turn \in 1 .. NumAnts + 1
    /\ groups \in Seq(Seq(Ants)) /\ \A g \in DOMAIN groups : groups[g] # <<>>
    /\ askedAt \in [Ants -> Heights]
    /\ verdict \in {"none", "synced", "split", "error"}
    /\ failures \in 0 .. MaxFailures
    (* SeenBlocks of an external ant is a nil map: nothing is written. *)
    /\ \A a \in external, h \in Heights : seen[a][h] = "none"

(* New waits for the sync, or has not been asked to; all ants begin with   *)
(* the genesis block.                                                      *)
Init ==
    /\ forkHeight \in 0 .. MaxHeight - 1
    /\ external \in {{}, {NumAnts} \ {1}}
    /\ branch \in [Ants -> Branches] /\ branch[1] = "main"
    /\ height = [a \in Ants |-> 0]
    /\ reorged = FALSE
    /\ seen = [a \in Ants |-> [h \in Heights |-> "none"]]
    /\ pc \in {"wait", "sleep"}
    /\ turn = 1 /\ groups = <<>> /\ askedAt = [a \in Ants |-> 0]
    /\ verdict = "none" /\ failures = 0
-----------------------------------------------------------------------------
(* antConsensusGroups.                                                     *)

(* The block at height h of the chain of ant a. *)
BlockAt(a, h) == IF h <= forkHeight THEN "main" ELSE branch[a]

(* Mutants: the current block is not compared; one block too many is. *)
MeetsBelow(s, a, b, h) ==
    \E i \in 1 .. Window - 1 :
        LET k == (h + WrapHeight - i) % WrapHeight
        IN  k \in Heights /\ s[a][k] # "none" /\ s[a][k] = s[b][k]

MeetsWider(s, a, b, h) ==
    \E i \in 0 .. Window :
        LET k == (h + WrapHeight - i) % WrapHeight
        IN  k \in Heights /\ s[a][k] # "none" /\ s[a][k] = s[b][k]

(* The comparison of ant a, at height h, with the first member b of a      *)
(* group, over what both have seen (s); heights wrap below zero.           *)
Meets(s, a, b, h) ==
    \E i \in 0 .. Window - 1 :
        LET k == (h + WrapHeight - i) % WrapHeight
        IN  k \in Heights /\ s[a][k] # "none" /\ s[a][k] = s[b][k]

(* Mutants: a new group does not get its first member; any member of a     *)
(* group will do.                                                          *)
PlaceInEmptyGroup(s, a, h) ==
    LET met == {g \in DOMAIN groups : groups[g] # <<>> /\ Meets(s, a, groups[g][1], h)}
    IN  IF met = {}
        THEN Append(groups, <<>>)
        ELSE LET first == CHOOSE g \in met : \A f \in met : g <= f
             IN  [groups EXCEPT ![first] = Append(@, a)]

PlaceByMember(s, a, h) ==
    LET met == {g \in DOMAIN groups :
                   \E m \in DOMAIN groups[g] : Meets(s, a, groups[g][m], h)}
    IN  IF met = {}
        THEN Append(groups, <<a>>)
        ELSE LET first == CHOOSE g \in met : \A f \in met : g <= f
             IN  [groups EXCEPT ![first] = Append(@, a)]

Place(s, a, h) ==
    LET met == {g \in DOMAIN groups : Meets(s, a, groups[g][1], h)}
    IN  IF met = {}
        THEN Append(groups, <<a>>)
        ELSE LET first == CHOOSE g \in met : \A f \in met : g <= f
             IN  [groups EXCEPT ![first] = Append(@, a)]

(* waitForAntsToSync asks the farm's own ants, the monitor all of them. *)
Asked == IF pc = "wait" THEN Ants \ external ELSE Ants

(* ConsensusGet of one ant, and its place among the groups. *)
Sample ==
    /\ pc \in Callers /\ turn \in Asked \ external
    /\ LET h == height[turn]
           s == [seen EXCEPT ![turn][h] = BlockAt(turn, h)]
       IN  /\ seen' = s
           /\ groups' = Place(s, turn, h)
           /\ askedAt' = [askedAt EXCEPT ![turn] = h]
    /\ turn' = turn + 1
    /\ UNCHANGED <<config, chainVars, pc, verdict, failures>>

(* An ant decoded from another farm has no map: the assignment panics.     *)
SampleExternal ==
    /\ pc \in Callers /\ turn \in Asked \cap external
    /\ pc' = "dead"
    /\ UNCHANGED <<config, chainVars, sampleVars, turn, verdict, failures>>

(* antConsensusGroups returns: the next call begins with no groups. *)
EndRound == turn' = 1 /\ groups' = <<>> /\ askedAt' = [a \in Ants |-> 0]

(* An error ends New; the monitor logs it. *)
SampleFails ==
    /\ pc \in Callers /\ turn \in Asked
    /\ failures < MaxFailures /\ failures' = failures + 1
    /\ IF pc = "wait" THEN pc' = "failed" /\ UNCHANGED verdict
                      ELSE pc' = "sleep" /\ verdict' = "error"
    /\ EndRound
    /\ UNCHANGED <<config, chainVars, seen>>
-----------------------------------------------------------------------------
(* The callers.                                                            *)

AllAsked == pc \in Callers /\ turn \notin Asked

(* waitForAntsToSync: New goes on, times out, or tries again in a second.  *)
WaitRoundOver ==
    /\ pc = "wait" /\ AllAsked
    /\ pc' \in IF Len(groups) = 1 THEN {"sleep"} ELSE {"failed", "pause"}
    /\ EndRound
    /\ UNCHANGED <<config, chainVars, seen, verdict, failures>>

MonitorRoundOver ==
    /\ pc = "monitor" /\ AllAsked
    /\ pc' = "sleep"
    /\ verdict' = IF Len(groups) = 1 THEN "synced" ELSE "split"
    /\ EndRound
    /\ UNCHANGED <<config, chainVars, seen, failures>>

(* The timers. *)
NextRound ==
    /\ pc \in {"pause", "sleep"}
    /\ pc' = IF pc = "pause" THEN "wait" ELSE "monitor"
    /\ UNCHANGED <<config, chainVars, sampleVars, turn, verdict, failures>>

(* The runner of the first ant is stopped. *)
JobsStopped ==
    /\ pc = "pause"
    /\ pc' = "failed"
    /\ UNCHANGED <<config, chainVars, sampleVars, turn, verdict, failures>>
-----------------------------------------------------------------------------
(* The ants: a block is mined on an ant's chain; an ant follows another    *)
(* one that is ahead, replacing its blocks above the fork if need be.      *)

pollVars == <<config, sampleVars, pc, turn, verdict, failures>>

Grow(a) ==
    /\ height[a] < MaxHeight
    /\ height' = [height EXCEPT ![a] = @ + 1]
    /\ UNCHANGED <<pollVars, branch, reorged>>

Follow(a, b) ==
    /\ height[b] > height[a]
    /\ height' = [height EXCEPT ![a] = height[b]]
    /\ branch' = [branch EXCEPT ![a] = branch[b]]
    /\ reorged' = (reorged \/ (branch[a] # branch[b] /\ height[a] > forkHeight))
    /\ UNCHANGED pollVars

PollStep == \/ Sample \/ SampleExternal \/ SampleFails
            \/ WaitRoundOver \/ MonitorRoundOver \/ NextRound \/ JobsStopped

Next == PollStep \/ (\E a \in Ants : Grow(a) \/ \E b \in Ants : Follow(a, b))

Spec == Init /\ [][Next]_vars

(* The goroutine goes on: siad answers or refuses, and timers run out.     *)
FairSpec == Spec /\ WF_vars(PollStep)
-----------------------------------------------------------------------------
(* Properties.                                                             *)

(* What antConsensusGroups returns, against a definition without the loop, *)
(* the order of comparison and the unsigned heights: the groups partition  *)
(* the ants that were asked; an ant is in the first group with whose first *)
(* member it has a block in common, one that is among the last it has      *)
(* seen; the first members have none in common.                            *)
SeenBy(a)       == {<<h, seen[a][h]>> : h \in {k \in Heights : seen[a][k] # "none"}}
Recent(a)       == {blk \in SeenBy(a) : blk[1] <= askedAt[a] /\ askedAt[a] < blk[1] + Window}
Connected(a, b) == Recent(a) \cap SeenBy(b) # {}
Members(g)      == {groups[g][m] : m \in DOMAIN groups[g]}
AskedSoFar      == {a \in Ants \ external : a < turn}
GroupsAreExact ==
    pc \in Callers =>
        /\ UNION {Members(g) : g \in DOMAIN groups} = AskedSoFar
        /\ \A g \in DOMAIN groups : \A m \in 2 .. Len(groups[g]) :
             Connected(groups[g][m], groups[g][1])
        /\ \A f, g \in DOMAIN groups : f < g =>
             \A a \in Members(g) : a \notin Members(f) /\ ~Connected(a, groups[f][1])

(* What a single group says of the chains: the chain of each ant has not   *)
(* left that of the first one by more blocks than are compared.  It holds  *)
(* while no ant has replaced a block, although the ants are asked one      *)
(* after the other; after a reorganisation SeenBlocks is stale             *)
(* (antfarm/ant.go:78).                                                    *)
OneGroupForksLate ==
    AllAsked /\ Len(groups) = 1 /\ ~reorged =>
        \A a \in Asked : branch[a] = branch[1] \/ askedAt[a] < forkHeight + Window

(* What New and the monitor make of it: when New stops waiting             *)
(* (antfarm.go:347) or the monitor logs that the ants are synchronized     *)
(* (antfarm.go:258), the chain of each ant asked was, at the moment when   *)
(* it was asked, within the window of the fork, unless one had replaced    *)
(* blocks.  Failing calls and rounds given up never count as agreement.    *)
DeclaresSync ==
    /\ pc \in Callers /\ pc' = "sleep"
    /\ pc = "monitor" => verdict' = "synced"
SyncMeansForksLate ==
    [][DeclaresSync => reorged \/ \A a \in Asked :
           branch[a] = branch[1] \/ askedAt[a] < forkHeight + Window]_vars

(* What makes these two inductive.  Only an external ant comes last, and   *)
(* the turn does not pass it; every call begins with no groups; the first  *)
(* ant, which is asked first, founds the first group; and what an ant has  *)
(* seen is on its chain while no ant has replaced a block.                 *)
ExternalIsLast ==
    /\ external \in {{}, {NumAnts} \ {1}}
    /\ \A a \in external : turn <= a
CallsBeginAfresh == pc \in {"pause", "sleep", "failed"} => groups = <<>> /\ turn = 1
FirstFoundsFirst == groups # <<>> => groups[1][1] = 1
SeenIsOnChain ==
    \A a \in Ants, h \in Heights :
        seen[a][h] # "none" => h <= height[a] /\ (reorged \/ seen[a][h] = BlockAt(a, h))
IInv == /\ TypeOK /\ ExternalIsLast /\ CallsBeginAfresh
        /\ FirstFoundsFirst /\ SeenIsOnChain /\ GroupsAreExact

(* When the ants have settled on one chain, a New that waits goes on, and  *)
(* the monitor logs that they are synchronized and logs nothing else from  *)
(* then on, whatever forks it has seen before.                             *)
OneTip == \A a \in Ants : height[a] = height[1] /\ BlockAt(a, height[a]) = BlockAt(1, height[1])
AgreementIsSeen ==
    <>[]OneTip => <>[](verdict = "synced") \/ <>(pc \in {"failed", "dead"})

(* PermanentSyncMonitor "checks that all ants in the antFarm are on the    *)
(* same blockchain" (antfarm.go:241): an ant that stays on another chain   *)
(* while the first ant goes on is reported again and again.                *)
LeftBehind(a) ==
    /\ branch[a] # branch[1] /\ height[a] > forkHeight
    /\ height[1] >= height[a] + Window
LastingSplitIsReported ==
    (\E a \in Ants : <>[]LeftBehind(a)) =>
        []<>(verdict # "synced") \/ <>(pc \in {"failed", "dead"})
=============================================================================
