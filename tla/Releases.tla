------------------------------ MODULE Releases ------------------------------
(***************************************************************************)
(* binaries-builder/build_binaries.go: GetReleases and ExcludeVersions,    *)
(* which give the tests the versions of siad to build.  A release is its   *)
(* place in the order of versions; a version is a release, or the patch of *)
(* a release that is tagged with the suffix "-antfarm".                    *)
(***************************************************************************)
EXTENDS Naturals, Sequences, FiniteSets, FiniteSetsExt, SequencesExt

CONSTANTS
    Nums,    \* the places of releases in the order of versions
    V155     \* the place of v1.5.5, which is built also when it is no release

ASSUME NumsAssumption == Nums \subseteq Nat /\ V155 \in Nums

Versions == [num : Nums, patch : BOOLEAN]

(* The positions K of a list, arranged in ascending order of their keys.   *)
Arranged(K, key) ==
    CHOOSE p \in Bijection(1 .. Cardinality(K), K) :
        \A i, j \in 1 .. Cardinality(K) : i < j => key[p[i]] <= key[p[j]]

(* The elements of s at the positions K in that order. *)
Listed(s, K, key) == [i \in 1 .. Cardinality(K) |-> s[Arranged(K, key)[i]]]

Sorted(tags, minimum) == Listed(tags, {i \in DOMAIN tags : tags[i] >= minimum}, tags)

(* v1.5.5 goes before the first later release of a sorted list, unless it  *)
(* is there.                                                               *)
WithV155(s) ==
    LET later == {i \in DOMAIN s : s[i] > V155}
    IN  IF \E i \in DOMAIN s : s[i] = V155
        THEN s
        ELSE InsertAt(s, IF later = {} THEN Len(s) + 1 ELSE Min(later), V155)

(* A patch takes the place of its release.                                 *)
WithPatches(s, patched) == [i \in DOMAIN s |-> [num |-> s[i], patch |-> s[i] \in patched]]

(* Mutant: v1.5.5 is always the last release.                              *)
ReleasesEndWithV155(tags, patched, minimum) ==
    LET found == \E i \in DOMAIN Sorted(tags, minimum) : Sorted(tags, minimum)[i] = V155
    IN  WithPatches(IF found THEN Sorted(tags, minimum)
                    ELSE Append(Sorted(tags, minimum), V155), patched)

(* The released tags, as the pages list them, and the patched releases. *)
GetReleases(tags, patched, minimum) ==
    WithPatches(WithV155(Sorted(tags, minimum)), patched)

(* A release is excluded together with its patch; excluding a patch by its *)
(* own name leaves the release.                                            *)
ExcludeVersions(versions, excluded) ==
    LET kept == {i \in DOMAIN versions :
                   {versions[i], [num |-> versions[i].num, patch |-> FALSE]} \cap excluded = {}}
    IN  Listed(versions, kept, [i \in kept |-> i])

(* What they should return: the tags of releases "greater than or equal to *)
(* the given minimal version in ascending semantic version order", each as *)
(* its patch if it has one (build_binaries.go:293), and v1.5.5 as if it    *)
(* were a release (build_binaries.go:338); a tag that two pages list is    *)
(* returned twice, and what is excluded is not returned.  How often the    *)
(* versions of nums occur is spoken of; order and patches are of all.      *)
AreReleases(versions, tags, patched, minimum, excluded, nums) ==
    LET version(n) == [num |-> n, patch |-> n \in patched]
        release(n) == [num |-> n, patch |-> FALSE]
        times(n)   == Cardinality({i \in DOMAIN tags : tags[i] = n})
    IN  /\ \A i, j \in DOMAIN versions : i < j => versions[i].num <= versions[j].num
        /\ \A i \in DOMAIN versions : versions[i] = version(versions[i].num)
        /\ \A n \in nums :
             Cardinality({i \in DOMAIN versions : versions[i].num = n}) =
                 IF {version(n), release(n)} \cap excluded # {} THEN 0
                 ELSE IF n >= minimum /\ \E i \in DOMAIN tags : tags[i] = n THEN times(n)
                 ELSE IF n = V155 THEN 1 ELSE 0
=============================================================================
