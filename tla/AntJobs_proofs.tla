--------------------------- MODULE AntJobs_proofs ---------------------------
(***************************************************************************)
(* Proofs about AntJobs, for any desired balance, block delay and bounds:  *)
(* the types of the three jobs, which the composition keeps because no two *)
(* of them switch siad's miner, and what an announcement of a host says    *)
(* about its storage folder.                                               *)
(***************************************************************************)
EXTENDS AntJobs, TLAPS

(* A call that fails is counted up to the bound. *)
LEMMA FailsCount ==
  ASSUME TypeOK
  PROVE  /\ failures < MaxFailures /\ failures' = failures + 1 => failures' \in 0 .. MaxFailures
         /\ UNCHANGED failures => failures' \in 0 .. MaxFailures
  BY BoundsAssumption DEF TypeOK, Miner!TypeOK

(* One job at work keeps the types of all three. *)
LEMMA MinerTypes == ASSUME IInv, MinerStep PROVE Miner!TypeOK'
<1>0. TypeOK
  BY DEF IInv
<1> USE <1>0, FailsCount DEF IInv, TypeOK, Miner!TypeOK, MinerStep, Miner!Goto, Miner!Fails
<1>1. CASE Miner!JobStep
  <2>1. CASE Miner!Begin
    BY <2>1 DEF Miner!Begin
  <2>2. CASE Miner!FirstStart
    BY <2>2 DEF Miner!FirstStart, Miner!SwitchOn
  <2>3. CASE Miner!GetFrequency
    BY <2>3 DEF Miner!GetFrequency
  <2>4. CASE Miner!TimeOut
    BY <2>4 DEF Miner!TimeOut
  <2>5. CASE Miner!SeeStop
    BY <2>5 DEF Miner!SeeStop
  <2>6. CASE Miner!ReadHeight
    BY <2>6 DEF Miner!ReadHeight
  <2>7. CASE Miner!StopMiner
    BY <2>7 DEF Miner!StopMiner, Miner!SwitchOff
  <2>8. CASE Miner!StartMiner
    BY <2>8 DEF Miner!StartMiner, Miner!SwitchOn
  <2> QED BY <1>1, <2>1, <2>2, <2>3, <2>4, <2>5, <2>6, <2>7, <2>8 DEF Miner!JobStep
<1>2. CASE Miner!OwnBlock
  BY <1>2 DEF Miner!OwnBlock
<1>3. CASE Miner!OtherBlock
  BY <1>3 DEF Miner!OtherBlock
<1> QED BY <1>1, <1>2, <1>3 DEF Miner!Next

LEMMA MaintainerTypes == ASSUME IInv, MaintainerStep PROVE Maintainer!TypeOK'
<1>0. TypeOK
  BY DEF IInv
<1> USE <1>0, FailsCount
    DEF IInv, TypeOK, Maintainer!TypeOK, MaintainerStep, Maintainer!Fails, Maintainer!siadVars
<1>1. CASE Maintainer!JobStep
  <2>1. CASE Maintainer!Begin
    BY <2>1 DEF Maintainer!Begin
  <2>2. CASE Maintainer!FirstStart
    BY <2>2 DEF Maintainer!FirstStart
  <2>3. CASE Maintainer!GetBalance
    <3>1. sawEnough' \in BOOLEAN
      <4>1. (balance > Desired) \in BOOLEAN
        OBVIOUS
      <4> QED BY <2>3, <4>1 DEF Maintainer!GetBalance, Maintainer!HaveDesired
    <3> QED BY <2>3, <3>1 DEF Maintainer!GetBalance
  <2>4. CASE Maintainer!Decide
    BY <2>4 DEF Maintainer!Decide
  <2>5. CASE Maintainer!Switch
    BY <2>5 DEF Maintainer!Switch
  <2>6. CASE Maintainer!SleepOver
    BY <2>6 DEF Maintainer!SleepOver
  <2>7. CASE Maintainer!SeeStop
    BY <2>7 DEF Maintainer!SeeStop
  <2> QED BY <1>1, <2>1, <2>2, <2>3, <2>4, <2>5, <2>6, <2>7 DEF Maintainer!JobStep
<1>2. CASE Maintainer!CoinsMature
  <2>1. balance' \in 0 .. MaxBalance
    BY <1>2, BalanceAssumption DEF Maintainer!CoinsMature
  <2> QED BY <1>2, <2>1 DEF Maintainer!CoinsMature
<1>3. CASE Maintainer!Spend
  <2>1. balance' \in 0 .. MaxBalance
    BY <1>3, BalanceAssumption DEF Maintainer!Spend
  <2> QED BY <1>3, <2>1 DEF Maintainer!Spend
<1> QED BY <1>1, <1>2, <1>3 DEF Maintainer!Next

LEMMA HostTypes == ASSUME IInv, HostStep PROVE Host!TypeOK'
<1>0. /\ TypeOK /\ 0 \in Host!Heights
      /\ \A h \in Host!Heights : h \in Nat /\ h =< MaxHeight
      /\ \A h \in Nat : h =< MaxHeight => h \in Host!Heights
  BY ChainAssumption DEF IInv, Host!Heights
<1> USE <1>0, FailsCount
    DEF TypeOK, Host!TypeOK, Host!Waiting, HostStep, Host!Goto, Host!Fails,
        Host!hjrVars, Host!diskVars, Host!chainVars
<1>1. CASE Host!JobStep
  <2>1. CASE Host!Begin
    BY <2>1 DEF Host!Begin
  <2>2. CASE Host!Synced
    BY <2>2 DEF Host!Synced
  <2>3. CASE Host!CoinsDecided
    BY <2>3 DEF Host!CoinsDecided
  <2>4. CASE Host!Stat
    <3>1. failures' \in 0 .. MaxFailures
      BY <2>4 DEF Host!Stat
    <3> QED BY <2>4, <3>1 DEF Host!Stat
  <2>5. CASE Host!AddFolder
    <3>1. failures' \in 0 .. MaxFailures
      BY <2>5 DEF Host!AddFolder
    <3> QED BY <2>5, <3>1 DEF Host!AddFolder
  <2>6. CASE Host!Configure
    BY <2>6 DEF Host!Configure
  <2>7. CASE Host!LoopHead
    BY <2>7 DEF Host!LoopHead
  <2>8. CASE Host!Announce
    <3>1. failures' \in 0 .. MaxFailures
      BY <2>8 DEF Host!Announce
    <3> QED BY <2>8, <3>1 DEF Host!Announce
  <2>9. CASE Host!ReadTip
    <3>1. failures' \in 0 .. MaxFailures
      BY <2>9 DEF Host!ReadTip, Host!NotAnnounced
    <3> QED BY <2>9, <3>1 DEF Host!ReadTip, Host!NotAnnounced
  <2>10. CASE Host!ScanBlock
    <3>1. failures' \in 0 .. MaxFailures
      BY <2>10 DEF Host!ScanBlock
    <3>2. announcedAt' \in Host!Heights
      BY <2>10 DEF Host!ScanBlock, Host!Heights
    <3>3. bh' \in Host!Heights
      <4>1. bh < currentBH => bh + 1 \in Nat /\ bh + 1 =< MaxHeight
        BY ChainAssumption
      <4> QED BY <2>10, <4>1 DEF Host!ScanBlock
    <3> QED BY <2>10, <3>1, <3>2, <3>3 DEF Host!ScanBlock
  <2>11. CASE Host!NotInChain
    BY <2>11 DEF Host!NotInChain, Host!NotAnnounced
  <2>12. CASE Host!Check
    <3>1. failures' \in 0 .. MaxFailures
      BY <2>12 DEF Host!Check, Host!NotAnnounced
    <3> QED BY <2>12, <3>1 DEF Host!Check, Host!NotAnnounced
  <2>13. CASE Host!TimeOut
    BY <2>13 DEF Host!TimeOut
  <2>14. CASE Host!SeeStop
    BY <2>14 DEF Host!SeeStop, Host!NotAnnounced
  <2> QED BY <1>1, <2>1, <2>2, <2>3, <2>4, <2>5, <2>6, <2>7, <2>8, <2>9, <2>10, <2>11,
             <2>12, <2>13, <2>14 DEF Host!JobStep
<1>2. CASE Host!MineBlock
  <2>1. height' \in Host!Heights /\ height' = height + 1
    BY <1>2, ChainAssumption DEF Host!MineBlock
  <2>2. onChain' \subseteq 1 .. height'
    <3>1. height \in Nat /\ onChain \subseteq 1 .. height
      OBVIOUS
    <3>2. onChain' = onChain \/ onChain' = onChain \cup {height'}
      BY <1>2 DEF Host!MineBlock, Host!chainVars
    <3>3. onChain \cup {height'} \subseteq 1 .. height'
      BY <2>1, <3>1
    <3> QED BY <3>2, <3>3
  <2>3. pool' \in BOOLEAN
    BY <1>2 DEF Host!MineBlock
  <2> QED BY <1>2, <2>1, <2>2, <2>3 DEF Host!MineBlock
<1>3. CASE Host!Reorg
  <2>1. height' \in Host!Heights /\ height =< height'
    BY <1>3, ChainAssumption DEF Host!Reorg
  <2>2. PICK fork \in 0 .. height - 1 :
          LET kept == onChain \cap 0 .. fork
          IN  \/ onChain' = kept /\ pool' \in {FALSE, pool \/ kept # onChain}
              \/ /\ pool \/ kept # onChain
                 /\ \E h \in fork + 1 .. height' : onChain' = kept \cup {h}
                 /\ pool' = FALSE
    BY <1>3 DEF Host!Reorg
  <2>3. onChain' \subseteq 1 .. height'
    <3>1. height \in Nat /\ height' \in Nat /\ onChain \subseteq 1 .. height'
      BY <2>1
    <3>2. \/ onChain' = onChain \cap 0 .. fork
          \/ \E h \in fork + 1 .. height' : onChain' = (onChain \cap 0 .. fork) \cup {h}
      BY <2>2
    <3>3. ASSUME NEW h \in fork + 1 .. height' PROVE h \in 1 .. height'
      BY <3>1, <3>3
    <3> QED BY <3>1, <3>2, <3>3
  <2>4. pool' \in BOOLEAN
    <3>1. (pool \/ onChain \cap 0 .. fork # onChain) \in BOOLEAN
      OBVIOUS
    <3> QED BY <2>2, <3>1
  <2>5. reorgs' \in 0 .. MaxReorgs
    BY <1>3, BoundsAssumption DEF Host!Reorg
  <2> QED BY <1>3, <2>1, <2>3, <2>4, <2>5 DEF Host!Reorg
<1>4. CASE Host!Restart
  <2>1. restarts' \in 0 .. MaxRestarts
    BY <1>4, BoundsAssumption DEF Host!Restart
  <2>2. pool' \in BOOLEAN
    BY <1>4 DEF Host!Restart
  <2> QED BY <1>4, <2>1, <2>2 DEF Host!Restart
<1> QED BY <1>1, <1>2, <1>3, <1>4 DEF Host!Next

(* A job's frame keeps the types of the others: they share siad's miner,   *)
(* the stop channel and the count of failures, of which only the miner     *)
(* says more than its type, and to one job alone.                          *)
LEMMA TypeStep == ASSUME IInv, [Next]_vars PROVE TypeOK'
<1> USE DEF IInv, TypeOK, minerVars, maintainerVars, hostVars
<1>1. CASE MinerStep
  <2>1. Miner!TypeOK'
    BY <1>1, MinerTypes
  <2>2. Maintainer!TypeOK'
    BY <1>1, <2>1 DEF MinerStep, MinerFrame, OneSwitchesMiner, Miner!TypeOK, Maintainer!TypeOK
  <2>3. Host!TypeOK'
    BY <1>1, <2>1 DEF MinerStep, MinerFrame, Miner!TypeOK, Host!TypeOK, Host!Heights, Host!Waiting
  <2> QED BY <2>1, <2>2, <2>3
<1>2. CASE MaintainerStep
  <2>1. Maintainer!TypeOK'
    BY <1>2, MaintainerTypes
  <2>2. Miner!TypeOK'
    BY <1>2, <2>1 DEF MaintainerStep, MaintainerFrame, OneSwitchesMiner, Miner!TypeOK,
                      Maintainer!TypeOK
  <2>3. Host!TypeOK'
    BY <1>2, <2>1 DEF MaintainerStep, MaintainerFrame, Maintainer!TypeOK, Host!TypeOK,
                      Host!Heights, Host!Waiting
  <2> QED BY <2>1, <2>2, <2>3
<1>3. CASE HostStep
  <2>1. Host!TypeOK'
    BY <1>3, HostTypes
  <2>2. Miner!TypeOK'
    BY <1>3, <2>1 DEF HostStep, HostFrame, Miner!TypeOK, Host!TypeOK
  <2>3. Maintainer!TypeOK'
    BY <1>3, <2>1 DEF HostStep, HostFrame, Maintainer!TypeOK, Host!TypeOK
  <2> QED BY <2>1, <2>2, <2>3
<1>4. CASE Stop \/ UNCHANGED vars
  <2>1. stopped' \in BOOLEAN /\ UNCHANGED <<minerVars, maintainerVars, hostVars, minerOn, failures>>
    BY <1>4 DEF Stop, vars, Miner!TypeOK
  <2>2. Miner!TypeOK' /\ Maintainer!TypeOK'
    BY <2>1 DEF Miner!TypeOK, Maintainer!TypeOK
  <2>3. Host!TypeOK'
    BY <2>1 DEF Host!TypeOK, Host!Heights, Host!Waiting
  <2> QED BY <2>2, <2>3
<1> QED BY <1>1, <1>2, <1>3, <1>4 DEF Next

(* What is kept by a step that does not touch the host. *)
FolderInv == DirectoryIsTried /\ LoopFollowsTry /\ AnnouncedHostOffersStorage

LEMMA FolderQuiet ==
  ASSUME FolderInv, UNCHANGED <<hosting, announced, hostdir, folder, addFailed>>
  PROVE  FolderInv'
  BY DEF FolderInv, DirectoryIsTried, LoopFollowsTry, AnnouncedHostOffersStorage, FolderTried,
         Host!Waiting

(* The host's steps: its goroutine comes to its settings, its loop and its *)
(* announcement through AddFolder, or finds the directory made before.     *)
LEMMA FolderStep == ASSUME IInv, HostStep PROVE FolderInv'
<1> USE DEF IInv, FolderInv, DirectoryIsTried, LoopFollowsTry, AnnouncedHostOffersStorage,
            FolderTried, HostStep, Host!Waiting, Host!Goto, Host!Fails,
            Host!hjrVars, Host!diskVars
<1>1. CASE Host!JobStep
  <2>1. CASE Host!Begin \/ Host!Synced \/ Host!CoinsDecided
    BY <2>1 DEF Host!Begin, Host!Synced, Host!CoinsDecided
  <2>2. CASE Host!Stat
    BY <2>2 DEF Host!Stat
  <2>3. CASE Host!AddFolder
    BY <2>3 DEF Host!AddFolder
  <2>4. CASE Host!Configure
    BY <2>4 DEF Host!Configure
  <2>5. CASE Host!LoopHead
    BY <2>5 DEF Host!LoopHead
  <2>6. CASE Host!Announce
    BY <2>6 DEF Host!Announce
  <2>7. CASE Host!ReadTip
    BY <2>7 DEF Host!ReadTip, Host!NotAnnounced
  <2>8. CASE Host!ScanBlock
    BY <2>8 DEF Host!ScanBlock
  <2>9. CASE Host!NotInChain
    BY <2>9 DEF Host!NotInChain, Host!NotAnnounced
  <2>10. CASE Host!Check
    BY <2>10 DEF Host!Check, Host!NotAnnounced
  <2>11. CASE Host!TimeOut
    BY <2>11 DEF Host!TimeOut
  <2>12. CASE Host!SeeStop
    <3>1. CASE hosting \in {"sync", "coins", "pause"} /\ hosting' = "done" /\ UNCHANGED announced
      BY <2>12, <3>1 DEF Host!SeeStop
    <3>2. CASE hosting = "retry" /\ hosting' = "loop" /\ announced' = FALSE
      BY <2>12, <3>2 DEF Host!SeeStop
    <3> QED BY <2>12, <3>1, <3>2 DEF Host!SeeStop, Host!NotAnnounced
  <2> QED BY <1>1, <2>1, <2>2, <2>3, <2>4, <2>5, <2>6, <2>7, <2>8, <2>9, <2>10, <2>11,
             <2>12 DEF Host!JobStep
<1>2. CASE Host!MineBlock \/ Host!Reorg
  BY <1>2, FolderQuiet DEF Host!MineBlock, Host!Reorg
<1>3. CASE Host!Restart
  BY <1>3 DEF Host!Restart
<1> QED BY <1>1, <1>2, <1>3 DEF Host!Next

(* The inductive invariant.  A miner or a maintainer that is done stays so *)
(* (their steps ask that they are not), and the first folder of a host     *)
(* was tried before its first announcement.                                *)
THEOREM Invariant == Spec => []IInv
<1>1. Init => IInv
  <2> SUFFICES ASSUME Init PROVE IInv
    OBVIOUS
  <2>0. /\ failures = 0 /\ failures \in 0 .. MaxFailures
        /\ restarts \in 0 .. MaxRestarts /\ reorgs \in 0 .. MaxReorgs
    BY BoundsAssumption DEF Init, Miner!Init, Host!Init
  <2>1. Miner!TypeOK
    BY <2>0 DEF Init, Miner!Init, Miner!TypeOK
  <2>2. Maintainer!TypeOK
    BY <2>0 DEF Init, Maintainer!Init, Maintainer!TypeOK
  <2>3. Host!TypeOK
    <3>1. height \in Host!Heights /\ 0 \in Host!Heights
      BY ChainAssumption DEF Init, Host!Init, Host!Heights
    <3> QED BY <2>0, <3>1 DEF Init, Host!Init, Host!TypeOK, Host!Waiting
  <2>4. OneSwitchesMiner /\ FolderInv
    BY DEF Init, Host!Init, OneSwitchesMiner, FolderInv, DirectoryIsTried, LoopFollowsTry,
           AnnouncedHostOffersStorage, FolderTried, Host!Waiting
  <2> QED BY <2>1, <2>2, <2>3, <2>4 DEF IInv, TypeOK, FolderInv
<1>2. IInv /\ [Next]_vars => IInv'
  <2> SUFFICES ASSUME IInv, [Next]_vars PROVE IInv'
    OBVIOUS
  <2>1. TypeOK'
    BY TypeStep
  <2>2. OneSwitchesMiner'
    BY DEF IInv, OneSwitchesMiner, Next, MinerStep, MinerFrame, MaintainerStep, MaintainerFrame,
           HostStep, HostFrame, Stop, vars, minerVars, maintainerVars
  <2>3. FolderInv'
    <3>1. CASE HostStep
      BY <3>1, FolderStep
    <3>2. CASE ~HostStep
      <4>1. UNCHANGED hostVars
        BY <3>2 DEF Next, MinerStep, MinerFrame, MaintainerStep, MaintainerFrame, Stop, vars
      <4> QED BY <4>1, FolderQuiet DEF hostVars, IInv, FolderInv
    <3> QED BY <3>1, <3>2
  <2> QED BY <2>1, <2>2, <2>3 DEF IInv, FolderInv
<1> QED BY <1>1, <1>2, PTL DEF Spec

(* The three jobs, composed, keep their types: in particular the miner job *)
(* sleeps with siad's miner off, and a host that waits for its             *)
(* announcement has made one.                                              *)
THEOREM TypeCorrect == Spec => []TypeOK
  BY Invariant, PTL DEF IInv

(* A host that announced itself offers storage, or its call that adds the  *)
(* folder has failed (job_host.go:105), however often it is restarted.     *)
THEOREM FolderBeforeAnnouncement == Spec => []AnnouncedHostOffersStorage
  BY Invariant, PTL DEF IInv

(* A step of the maintainer: it sets its flag, then switches the miner; an *)
(* error leaves the flag wrong, and is counted.                            *)
LEMMA FlagStep ==
  ASSUME IInv, SwitchInv, MaintainerStep PROVE SwitchInv'
<1>1. failures \in Nat /\ mining = "done" /\ mining' = mining
  BY DEF IInv, TypeOK, Maintainer!TypeOK, OneSwitchesMiner, MaintainerStep, MaintainerFrame, minerVars
<1>2. MinesUntilBlock'
  BY <1>1 DEF MinesUntilBlock
<1>3. Maintainer!Fails => failures' # 0
  BY <1>1 DEF Maintainer!Fails
<1>4. sawEnough \in BOOLEAN /\ minerRunning \in BOOLEAN
  BY DEF IInv, TypeOK, Maintainer!TypeOK
<1> USE DEF SwitchInv, FlagIsSiads, Switching, MaintainerStep, Maintainer!siadVars
<1>5. CASE Maintainer!Begin
  BY <1>2, <1>4, <1>5 DEF Maintainer!Begin
<1>6. CASE Maintainer!FirstStart
  BY <1>2, <1>3, <1>4, <1>6 DEF Maintainer!FirstStart
<1>7. CASE Maintainer!GetBalance
  BY <1>2, <1>3, <1>7 DEF Maintainer!GetBalance
<1>8. CASE Maintainer!Decide
  BY <1>2, <1>4, <1>8 DEF Maintainer!Decide
<1>9. CASE Maintainer!Switch
  BY <1>2, <1>3, <1>4, <1>9 DEF Maintainer!Switch, IInv, TypeOK, Maintainer!TypeOK
<1>10. CASE Maintainer!SleepOver \/ Maintainer!SeeStop
  BY <1>2, <1>10 DEF Maintainer!SleepOver, Maintainer!SeeStop
<1>11. CASE Maintainer!CoinsMature \/ Maintainer!Spend
  BY <1>2, <1>11 DEF Maintainer!CoinsMature, Maintainer!Spend
<1> QED BY <1>5, <1>6, <1>7, <1>8, <1>9, <1>10, <1>11
        DEF Maintainer!Next, Maintainer!JobStep

LEMMA MiningStep ==
  ASSUME IInv, SwitchInv, MinerStep PROVE SwitchInv'
<1>1. failures \in Nat /\ maintaining = "done" /\ maintaining' = maintaining
  BY DEF IInv, TypeOK, Miner!TypeOK, OneSwitchesMiner, MinerStep, MinerFrame, maintainerVars
<1>2. FlagIsSiads'
  BY <1>1 DEF FlagIsSiads
<1>3. Miner!Fails => failures' # 0
  BY <1>1 DEF Miner!Fails
<1> USE DEF SwitchInv, MinesUntilBlock, MinerStep, Miner!Goto, Miner!SwitchOn, Miner!SwitchOff
<1>4. CASE Miner!Begin \/ Miner!FirstStart \/ Miner!GetFrequency
  BY <1>2, <1>3, <1>4 DEF Miner!Begin, Miner!FirstStart, Miner!GetFrequency
<1>5. CASE Miner!TimeOut \/ Miner!SeeStop
  BY <1>2, <1>5 DEF Miner!TimeOut, Miner!SeeStop
<1>6. CASE Miner!ReadHeight \/ Miner!StopMiner \/ Miner!StartMiner
  BY <1>2, <1>3, <1>6 DEF Miner!ReadHeight, Miner!StopMiner, Miner!StartMiner
<1>7. CASE Miner!OwnBlock \/ Miner!OtherBlock
  BY <1>2, <1>7 DEF Miner!OwnBlock, Miner!OtherBlock
<1> QED BY <1>4, <1>5, <1>6, <1>7 DEF Miner!Next, Miner!JobStep

(* The flags of the two jobs agree with siad's miner; calls that failed    *)
(* stay counted.                                                           *)
LEMMA SwitchInvariant == Spec => []SwitchInv
<1>1. Init => SwitchInv
  BY DEF Init, Miner!Init, Maintainer!Init, SwitchInv, FlagIsSiads, MinesUntilBlock, Switching
<1>2. IInv /\ SwitchInv /\ [Next]_vars => SwitchInv'
  <2> SUFFICES ASSUME IInv, SwitchInv, [Next]_vars PROVE SwitchInv'
    OBVIOUS
  <2>1. CASE HostStep \/ Stop \/ UNCHANGED vars
    <3>1. /\ UNCHANGED <<mining, maintaining, minerRunning, sawEnough, minerOn>>
          /\ failures' = 0 => failures = 0
      <4>1. CASE HostStep
        <5>1. failures' = failures \/ Host!Fails
          BY <4>1 DEF HostStep, Host!Next, Host!JobStep, Host!Begin, Host!Synced, Host!CoinsDecided,
             Host!Stat, Host!AddFolder, Host!Configure, Host!LoopHead, Host!Announce, Host!ReadTip,
             Host!ScanBlock, Host!NotInChain, Host!Check, Host!TimeOut, Host!SeeStop,
             Host!MineBlock, Host!Reorg, Host!Restart
        <5>2. failures \in Nat
          BY DEF IInv, TypeOK, Host!TypeOK
        <5> QED BY <4>1, <5>1, <5>2 DEF HostStep, HostFrame, Host!Fails, minerVars, maintainerVars
      <4> QED BY <2>1, <4>1 DEF Stop, vars, minerVars, maintainerVars
    <3> QED BY <3>1 DEF SwitchInv, FlagIsSiads, MinesUntilBlock, Switching
  <2> QED BY <2>1, FlagStep, MiningStep DEF Next
<1> QED BY <1>1, <1>2, Invariant, PTL DEF Spec

(* As long as no call has failed, a maintainer that sleeps has siad mine   *)
(* exactly if the balance that it read last was not enough                 *)
(* (job_balancemaintainer.go:19).                                          *)
THEOREM FollowsBalance == Spec => []MinesByLastBalance
<1>1. IInv /\ SwitchInv => MinesByLastBalance
  <2> SUFFICES ASSUME IInv, SwitchInv, failures = 0, maintaining = "sleep" PROVE minerOn = ~sawEnough
    BY DEF MinesByLastBalance
  <2> QED BY DEF SwitchInv, FlagIsSiads, Switching
<1> QED BY <1>1, Invariant, SwitchInvariant, PTL

(* As long as no call has failed, the miner job's siad mines whenever the  *)
(* job waits for a block (job_miner.go:23).                                *)
THEOREM KeepsMiningUntilBlock == Spec => []MinesUntilBlock
<1>1. SwitchInv => MinesUntilBlock
  BY DEF SwitchInv
<1> QED BY <1>1, SwitchInvariant, PTL

(* An announcement stays where the host found it, unless the chain is      *)
(* reorganised, whatever calls fail and however often the host starts.     *)
THEOREM AnnouncementStays == Spec => []FoundStaysFound
<1>1. Init => FoundStaysFound
  BY DEF Init, Host!Init, FoundStaysFound
<1>2. IInv /\ FoundStaysFound /\ [Next]_vars => FoundStaysFound'
  <2> SUFFICES ASSUME IInv, FoundStaysFound, [Next]_vars PROVE FoundStaysFound'
    OBVIOUS
  <2> USE DEF FoundStaysFound, Host!Waiting
  <2>1. CASE ~HostStep
    <3>1. UNCHANGED hostVars
      BY <2>1 DEF Next, MinerStep, MinerFrame, MaintainerStep, MaintainerFrame, Stop, vars
    <3> QED BY <3>1 DEF hostVars
  <2>2. CASE HostStep /\ Host!JobStep
    <3> USE DEF Host!Goto, Host!hjrVars, Host!chainVars, Host!NotAnnounced
    <3>1. onChain' = onChain /\ reorgs' = reorgs
      BY <2>2 DEF Host!JobStep, Host!Begin, Host!Synced, Host!CoinsDecided,
         Host!Stat, Host!AddFolder, Host!Configure, Host!LoopHead, Host!Announce, Host!ReadTip,
         Host!ScanBlock, Host!NotInChain, Host!Check, Host!TimeOut, Host!SeeStop
    <3>2. CASE Host!Begin \/ Host!Synced \/ Host!CoinsDecided \/ Host!Stat \/ Host!AddFolder
               \/ Host!Configure \/ Host!LoopHead
      BY <3>1, <3>2 DEF Host!Begin, Host!Synced, Host!CoinsDecided, Host!Stat, Host!AddFolder,
         Host!Configure, Host!LoopHead
    <3>3. CASE Host!Announce \/ Host!ReadTip \/ Host!NotInChain \/ Host!Check
      BY <3>1, <3>3 DEF Host!Announce, Host!ReadTip, Host!NotInChain, Host!Check
    <3>4. CASE Host!ScanBlock
      BY <3>1, <3>4 DEF Host!ScanBlock
    <3>5. CASE Host!TimeOut \/ Host!SeeStop
      BY <3>1, <3>5 DEF Host!TimeOut, Host!SeeStop
    <3> QED BY <2>2, <3>2, <3>3, <3>4, <3>5 DEF Host!JobStep
  <2>3. CASE HostStep /\ ~Host!JobStep
    <3>1. CASE Host!MineBlock
      BY <3>1 DEF Host!MineBlock, Host!hjrVars
    <3>2. CASE Host!Reorg
      <4>1. reorgs' # 0
        BY <3>2 DEF Host!Reorg, IInv, TypeOK, Host!TypeOK
      <4> QED BY <4>1
    <3>3. CASE Host!Restart
      BY <3>3 DEF Host!Restart
    <3> QED BY <2>3, <3>1, <3>2, <3>3 DEF HostStep, Host!Next
  <2> QED BY <2>1, <2>2, <2>3
<1> QED BY <1>1, <1>2, Invariant, PTL DEF Spec
=============================================================================
