------------------------------ MODULE StopGate ------------------------------
(***************************************************************************)
(* What a job runner promises about its goroutines, seen from outside: it  *)
(* lets goroutines in while it is open; once it is shut nobody enters any  *)
(* more; it is drained, that is its Stop has returned, only when the last  *)
(* goroutine has left, and a drained gate never changes again.             *)
(*                                                                         *)
(* ant/jobrunner.go promises this in the comment of Stop ("signals all     *)
(* running jobs to stop and blocks until the jobs have finished            *)
(* stopping").  Module Ant implements it once for every job runner.        *)
(***************************************************************************)

CONSTANT Members          \* the goroutines that may enter

VARIABLES gate,           \* "new", "open", "shut" or "drained"
          inside          \* the goroutines that are inside

vars == <<gate, inside>>

Init == gate = "new" /\ inside = {}

Open == gate = "new" /\ gate' = "open" /\ UNCHANGED inside

Enter == /\ gate = "open"
         /\ \E m \in Members \ inside : inside' = inside \cup {m}
         /\ UNCHANGED gate

Leave == /\ \E m \in inside : inside' = inside \ {m}
         /\ UNCHANGED gate

Shut == gate = "open" /\ gate' = "shut" /\ UNCHANGED inside

Drain == gate = "shut" /\ inside = {} /\ gate' = "drained" /\ UNCHANGED inside

Next == Open \/ Enter \/ Leave \/ Shut \/ Drain

Spec == Init /\ [][Next]_vars
=============================================================================
