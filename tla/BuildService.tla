---------------------------- MODULE BuildService ----------------------------
(***************************************************************************)
(* What the build manager promises to the tests that call BuildVersions:   *)
(* every version gets at most one verdict, which is final, and a call      *)
(* returns nil only if each version it asked for is on the disk.           *)
(***************************************************************************)
CONSTANTS Calls, Versions

VARIABLES asked,      \* asked[c]: the versions that call c requests
          verdict,    \* "none", "ok" or "failed" for each version
          onDisk,     \* the versions whose binary exists
          returned    \* returned[c]: "no", "nil" or "error"

vars == <<asked, verdict, onDisk, returned>>

Init ==
    /\ asked \in [Calls -> SUBSET Versions]
    /\ verdict = [v \in Versions |-> "none"]
    /\ onDisk \in SUBSET Versions
    /\ returned = [c \in Calls |-> "no"]

(* The one build of a version writes its binary, and then gets its         *)
(* verdict; it may fail after it wrote the binary.                         *)
Write(v) ==
    /\ verdict[v] = "none"
    /\ onDisk' = onDisk \cup {v}
    /\ UNCHANGED <<asked, verdict, returned>>

Decide(v) ==
    /\ verdict[v] = "none"
    /\ \/ v \in onDisk /\ verdict' = [verdict EXCEPT ![v] = "ok"]
       \/ verdict' = [verdict EXCEPT ![v] = "failed"]
    /\ UNCHANGED <<asked, onDisk, returned>>

Succeed(c) ==
    /\ returned[c] = "no"
    /\ asked[c] \subseteq onDisk
    /\ returned' = [returned EXCEPT ![c] = "nil"]
    /\ UNCHANGED <<asked, verdict, onDisk>>

(* A build failed, or the disk cannot be read, which may happen any time. *)
Fail(c) ==
    /\ returned[c] = "no"
    /\ returned' = [returned EXCEPT ![c] = "error"]
    /\ UNCHANGED <<asked, verdict, onDisk>>

Next == \/ \E v \in Versions : Write(v) \/ Decide(v)
        \/ \E c \in Calls : Succeed(c) \/ Fail(c)

Spec == Init /\ [][Next]_vars
=============================================================================
