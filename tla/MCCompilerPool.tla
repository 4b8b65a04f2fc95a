--------------------------- MODULE MCCompilerPool ---------------------------
(* The instances of CompilerPool that TLC explores. *)
EXTENDS CompilerPoolService

(* Slots, requests and close() calls are interchangeable; used by the runs *)
(* that check no liveness property.                                        *)
Symmetry == Permutations(Workers) \cup Permutations(Requests) \cup Permutations(Closers)

(* Bound of the three-request run: one caller at most is cancelled from    *)
(* outside, and one deadline at most passes.                               *)
QueueRunBound ==
  /\ Cardinality({r \in Requests : answer[r] = "cancelled" \/ "cancel" \in interrupts[r]}) <= 1
  /\ Cardinality({r \in Requests : expired[r]}) <= 1

(* Bound of the liveness run: one caller at most is cancelled from         *)
(* outside.  The requests are interchangeable, so it may be this one.      *)
ProgressRunBound ==
  \A r \in Requests : answer[r] = "cancelled" \/ "cancel" \in interrupts[r] =>
    r = CHOOSE s \in Requests : TRUE
=============================================================================
