------------------------------- MODULE MCAnt -------------------------------
(* Small instances of Ant for TLC. *)
EXTENDS Ant

(* An ant with one renter, one without jobs, to which its owner may add    *)
(* the renter later, and one whose configuration names a job that does not *)
(* exist after one that does.                                              *)
RenterLists == {<<>>, <<"syncing">>, <<"syncing", "unknown">>}
=============================================================================
