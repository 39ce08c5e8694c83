----------------------------- MODULE SiadBuild -----------------------------
(***************************************************************************)
(* binaries-builder/build_binaries.go, buildSiad: brings a checkout of the *)
(* Sia repository to each of the versions asked for and compiles it; for   *)
(* v1.4.0 the checkout of merkletree is pinned to an older commit          *)
(* meanwhile.  The checkouts and the binaries outlive the build: each      *)
(* build starts on what the builds before it, and the commands that failed *)
(* in them, have left.                                                     *)
(*                                                                         *)
(* Builds come one after the other: threadedUpdateBuilds asks for one      *)
(* version and has one build at a time (module BuildManager);              *)
(* TestBuildBinaries asks for all releases and master at once.             *)
(***************************************************************************)
EXTENDS Releases

CONSTANTS
    V140,           \* the place of v1.4.0
    TagLists,       \* the released tags, in the order of Gitlab's pages
    PatchSets,      \* the releases that have a patch
    Minima,         \* the minimal releases considered
    Exclusions,     \* the sets of excluded versions considered
    MaxFailures     \* bound: commands that fail

ASSUME V140Assumption == V140 \in Nums /\ 0 \notin Nums
ASSUME InputsAssumption ==
    /\ TagLists \subseteq Seq(Nums) /\ PatchSets \subseteq SUBSET Nums
    /\ Minima \subseteq Nat /\ Exclusions \subseteq SUBSET Versions
ASSUME FailuresAssumption == MaxFailures \in Nat

(* What can be checked out, besides versions of Sia: the branch master of  *)
(* either repository, and the commit bc4a11e of merkletree.                *)
Master   == [num |-> 0, patch |-> FALSE]
Pinned   == [num |-> 0, patch |-> TRUE]
Special  == [num |-> V140, patch |-> FALSE]
Repos    == {"sia", "merkletree"}
NoBinary == <<>>

VARIABLES
    tags, patched, minimum, excluded,    \* what the releases are taken from
    path,        \* the versions that GetReleases and ExcludeVersions returned
    pc,          \* where buildSiad is
    list,        \* its argument versions, from the one it builds now on
    dir,         \* directory of a repository: "absent", "empty", "cloned"
    head,        \* what is checked out in it
    binary,      \* binary[v]: the heads that it was built from
    verdict,     \* what the last build returned
    pinLeft,     \* history: a build failed while merkletree was pinned
    unbuilt,     \* history: versions asked for that the last build has not compiled
    failures     \* commands that failed so far

inputs == <<tags, patched, minimum, excluded>>
vars == <<inputs, path, pc, list, dir, head, binary, verdict, pinLeft, unbuilt, failures>>

Buildable == Versions \cup {Master}

PathIsOfVersions == path \in Seq(Versions)

TypeOK ==
    /\ tags \in TagLists /\ patched \in PatchSets
    /\ minimum \in Minima /\ excluded \in Exclusions
    /\ PathIsOfVersions
    /\ pc \in {"select", "idle", "clone", "update", "version", "merkletree", "pin", "checkout",
               "compile", "unpin", "reset", "master"}
    /\ list \in Seq(Buildable)
    /\ dir \in [Repos -> {"absent", "empty", "cloned"}]
    /\ head \in [Repos -> Buildable \cup {Pinned}]
    /\ \A v \in Buildable : binary[v] = NoBinary \/ DOMAIN binary[v] = Repos
    /\ verdict \in {"none", "ok", "failed"}
    /\ pinLeft \in BOOLEAN /\ unbuilt \subseteq Buildable /\ failures \in 0 .. MaxFailures
    /\ pc \in {"merkletree", "pin", "checkout", "compile", "unpin", "reset"} => list # <<>>
    /\ pc \in {"merkletree", "pin", "unpin"} => Head(list) = Special

Init ==
    /\ tags \in TagLists /\ patched \in PatchSets
    /\ minimum \in Minima /\ excluded \in Exclusions
    /\ path = <<>>
    /\ pc = "select" /\ list = <<>>
    /\ dir = [r \in Repos |-> "absent"]
    /\ head = [r \in Repos |-> Master]
    /\ binary = [v \in Buildable |-> NoBinary]
    /\ verdict = "none" /\ pinLeft = FALSE /\ unbuilt = {} /\ failures = 0

Select ==
    /\ pc = "select" /\ pc' = "idle"
    /\ path' = ExcludeVersions(GetReleases(tags, patched, minimum), excluded)
    /\ UNCHANGED <<inputs, list, dir, head, binary, verdict, pinLeft, unbuilt, failures>>

(* The builder asks for one version, the test for all of them. *)
Call ==
    /\ pc = "idle" /\ pc' = "clone"
    /\ \/ \E v \in {path[i] : i \in DOMAIN path} \cup {Master} : list' = <<v>>
       \/ list' = Append(path, Master)
    /\ unbuilt' = ToSet(list')
    /\ UNCHANGED <<inputs, path, dir, head, binary, verdict, pinLeft, failures>>
-----------------------------------------------------------------------------
(* buildSiad.                                                              *)

Goto(label) == pc' = label /\ UNCHANGED <<inputs, path>>

(* Merkletree is checked out where v1.4.0 needs it.                        *)
Pinning == pc \in {"checkout", "compile", "unpin"} /\ Head(list) = Special

(* A command fails: buildSiad returns, and nothing is brought back.        *)
Fails ==
    /\ Goto("idle") /\ verdict' = "failed" /\ list' = <<>>
    /\ failures < MaxFailures /\ failures' = failures + 1
    /\ pinLeft' = (pinLeft \/ Pinning) /\ UNCHANGED unbuilt

(* In a directory without a clone every git command fails.                 *)
NoRepository(r) ==
    /\ dir[r] # "cloned"
    /\ Goto("idle") /\ verdict' = "failed" /\ list' = <<>>
    /\ UNCHANGED <<pinLeft, unbuilt, failures, dir, head, binary>>

Goes(label) == Goto(label) /\ UNCHANGED <<list, verdict, pinLeft, unbuilt, failures>>

(* Mutant: git clone refuses a directory that exists.                      *)
GitCloneAgain(r, label) ==
    \/ dir[r] = "absent" /\ Goes(label) /\ dir' = [dir EXCEPT ![r] = "cloned"]
    \/ dir[r] = "absent" /\ Fails /\ dir' = [dir EXCEPT ![r] = "empty"]
    \/ /\ dir[r] # "absent"
       /\ Goto("idle") /\ verdict' = "failed" /\ list' = <<>>
       /\ UNCHANGED <<pinLeft, unbuilt, failures, dir>>

(* gitClone: a directory that exists is taken for a clone, also when it is *)
(* what a clone that failed has left.                                      *)
GitClone(r, label) ==
    \/ dir[r] = "absent" /\ Goes(label) /\ dir' = [dir EXCEPT ![r] = "cloned"]
    \/ dir[r] = "absent" /\ Fails /\ dir' = [dir EXCEPT ![r] = "empty"]
    \/ dir[r] # "absent" /\ Goes(label) /\ UNCHANGED dir
    \/ Fails /\ UNCHANGED dir

(* gitCheckout: reset and checkout.                                        *)
GitCheckout(r, rev, label) ==
    \/ NoRepository(r)
    \/ /\ dir[r] = "cloned" /\ UNCHANGED <<dir, binary>>
       /\ \/ Goes(label) /\ head' = [head EXCEPT ![r] = rev]
          \/ Fails /\ UNCHANGED head

CloneSia == pc = "clone" /\ GitClone("sia", "update") /\ UNCHANGED <<head, binary>>

(* Checkout of master, reset, fetch and pull.                              *)
Update ==
    /\ pc = "update"
    /\ \/ NoRepository("sia")
       \/ /\ dir["sia"] = "cloned" /\ UNCHANGED <<dir, binary>>
          /\ \/ Goes("version") /\ head' = [head EXCEPT !["sia"] = Master]
             \/ Fails /\ head' \in {head, [head EXCEPT !["sia"] = Master]}

(* Mutant: merkletree is pinned for every version.                         *)
NextVersionPinned ==
    /\ pc = "version"
    /\ \/ Goes(IF list = <<>> THEN "master" ELSE "merkletree")
       \/ list # <<>> /\ Fails
    /\ UNCHANGED <<dir, head, binary>>

(* The head of the loop; a directory for the binary is made.               *)
NextVersion ==
    /\ pc = "version"
    /\ \/ Goes(IF list = <<>> THEN "master"
               ELSE IF Head(list) = Special THEN "merkletree" ELSE "checkout")
       \/ list # <<>> /\ Fails
    /\ UNCHANGED <<dir, head, binary>>

CloneMerkletree == pc = "merkletree" /\ GitClone("merkletree", "pin") /\ UNCHANGED <<head, binary>>
PinMerkletree   == pc = "pin" /\ GitCheckout("merkletree", Pinned, "checkout")
CheckoutVersion == pc = "checkout" /\ GitCheckout("sia", Head(list), "compile")

(* go get, date, git rev-parse and go build, which writes the binary.      *)
Compile ==
    /\ pc = "compile"
    /\ \/ /\ Goto(IF Head(list) = Special THEN "unpin" ELSE "reset")
          /\ binary' = [binary EXCEPT ![Head(list)] = head]
          /\ unbuilt' = unbuilt \ {Head(list)}
          /\ UNCHANGED <<list, verdict, pinLeft, failures>>
       \/ Fails /\ UNCHANGED binary
    /\ UNCHANGED <<dir, head>>

(* Mutant: merkletree stays where v1.4.0 needs it.                         *)
KeepPinned == pc = "unpin" /\ Goes("reset") /\ UNCHANGED <<dir, head, binary>>

UnpinMerkletree == pc = "unpin" /\ GitCheckout("merkletree", Master, "reset")

ResetSia ==
    /\ pc = "reset"
    /\ \/ Goto("version") /\ list' = Tail(list) /\ UNCHANGED <<verdict, pinLeft, unbuilt, failures>>
       \/ Fails
    /\ UNCHANGED <<dir, head, binary>>

(* The last checkout of master: buildSiad returns nil.                     *)
CheckoutMaster ==
    /\ pc = "master" /\ UNCHANGED <<dir, binary>>
    /\ \/ /\ Goto("idle") /\ verdict' = "ok"
          /\ head' = [head EXCEPT !["sia"] = Master]
          /\ UNCHANGED <<list, pinLeft, unbuilt, failures>>
       \/ Fails /\ UNCHANGED head

BuildStep ==
    \/ CloneSia \/ Update \/ NextVersion \/ CloneMerkletree \/ PinMerkletree
    \/ CheckoutVersion \/ Compile \/ UnpinMerkletree \/ ResetSia \/ CheckoutMaster

Next == Select \/ Call \/ BuildStep

Spec == Init /\ [][Next]_vars

(* The commands end, and tests build again.                                *)
FairSpec == Spec /\ WF_vars(Next)
-----------------------------------------------------------------------------
(* Properties.                                                             *)

(* A binary is the one its directory is named for: it was compiled from    *)
(* its version of Sia, v1.4.0 with the pinned merkletree                   *)
(* (build_binaries.go:135), the others without it (:220) -- unless a build *)
(* failed between the two checkouts of merkletree, which nothing but       *)
(* another build of v1.4.0 brings back.  So it is however builds of        *)
(* several versions follow each other and wherever they fail.              *)
BinaryIsOfItsVersion ==
    \A v \in Buildable : binary[v] # NoBinary =>
        /\ binary[v]["sia"] = v
        /\ v = Special => binary[v]["merkletree"] = Pinned
        /\ v # Special => binary[v]["merkletree"] = Master \/ pinLeft

(* What makes it inductive, whatever versions are built: what is checked   *)
(* out, and in which clone, at each step of a build.  A merkletree that is *)
(* pinned belongs to the build of v1.4.0 that goes on, or pinLeft tells.   *)
PinIsKnown ==
    /\ head["merkletree"] \in {Master, Pinned}
    /\ head["merkletree"] = Pinned => Pinning \/ pinLeft
    /\ Pinning /\ pc # "unpin" => head["merkletree"] = Pinned
    /\ pc \in {"merkletree", "pin", "unpin"} => Head(list) = Special
ClonesAreThere ==
    /\ pc \notin {"select", "idle", "clone", "update"} => dir["sia"] = "cloned"
    /\ Pinning => dir["merkletree"] = "cloned"
IInv ==
    /\ DOMAIN head = Repos /\ DOMAIN dir = Repos /\ DOMAIN binary = Buildable
    /\ PinIsKnown /\ ClonesAreThere
    /\ pc = "compile" => head["sia"] = Head(list)
    /\ BinaryIsOfItsVersion

(* A build that returns nil has compiled every version that it was asked   *)
(* for, whatever binaries it found: this is what BuildManager relies on    *)
(* when it tells its callers that a binary is on the disk                  *)
(* (build_manager.go:147).                                                 *)
OkMeansBuilt == pc = "idle" /\ verdict = "ok" => unbuilt = {}

(* What makes it inductive: what is not compiled yet is still on the list, *)
(* and is not what the loop is about to leave.                             *)
RestIsListed ==
    /\ pc = "select" => unbuilt = {}
    /\ pc \notin {"select", "idle"} => unbuilt \subseteq ToSet(list)
    /\ pc \in {"unpin", "reset"} => unbuilt \subseteq ToSet(Tail(list))
    /\ pc = "master" => list = <<>>

(* When commands fail no more, builds succeed again whatever the failed    *)
(* ones have left -- unless what is left is the empty directory of a clone *)
(* that failed (build_binaries.go:416), which is never cloned again.       *)
BuildsRecover ==
    []<>(verdict = "ok" \/ \E r \in Repos : dir[r] = "empty")

(* The versions to build are those that the comment of GetReleases         *)
(* promises (build_binaries.go:293), without the excluded ones, for any    *)
(* order of the pages and any place of v1.5.5 in the list.  Of v1.5.5      *)
(* below the minimal version nothing is said: there the code does not keep *)
(* what the comment promises.                                              *)
AtLeastMinimum == {n \in Nums : n # V155 \/ n >= minimum}
ReleasesArePromised ==
    pc # "select" => AreReleases(path, tags, patched, minimum, excluded, AtLeastMinimum)

(* What is returned in every case: v1.5.5 too, also below the minimum.     *)
ReleasesAreExact ==
    pc # "select" => AreReleases(path, tags, patched, minimum, excluded, Nums)

(* "Greater than or equal to the given minimal version" without this       *)
(* exception does not hold: the insertion of v1.5.5 does not look at the   *)
(* minimal version (build_binaries.go:359), so that v1.5.5 is built unless *)
(* it is excluded.                                                         *)
NothingBelowMinimum == pc # "select" => \A i \in DOMAIN path : path[i].num >= minimum
V155IsExcluded ==
    {[num |-> V155, patch |-> V155 \in patched], [num |-> V155, patch |-> FALSE]} \cap excluded # {}
V155IgnoresMinimum ==
    pc # "select" /\ V155 < minimum /\ ~V155IsExcluded => ~NothingBelowMinimum
=============================================================================
