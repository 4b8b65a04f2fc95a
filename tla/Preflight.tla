------------------------------ MODULE Preflight ------------------------------
(***************************************************************************)
(* preflight.py: run_startup_checks(), before anything is built.  A check  *)
(* reads a file or runs a command of the machine; what it finds is the     *)
(* machine's choice, made when it looks.  The first one that is not        *)
(* satisfied ends the program.                                             *)
(***************************************************************************)
EXTENDS Naturals, Sequences, SequencesExt

VARIABLES
  checked,   \* how many checks have been satisfied
  found,     \* what each check that was made has found
  report     \* of run_startup_checks(): "none" yet, "passed" or "failed"

preflightVars == <<checked, found, report>>

(* The order in which _check_configuration and run_startup_checks look. *)
Checks == <<"toolchain", "lakefile", "manifest", "lean", "lakeLean", "mathlib", "compile">>

(* _run_command: what ends in StartupCheckError there *)
NoOutput == {"missing", "timedOut", "failed"}

Outcomes(c) ==
  CASE c = "toolchain"            -> {"unreadable", "other", "pinned"}
    [] c = "lakefile"             -> {"unreadable", "noMathlib", "other", "pinned"}
    [] c = "manifest"             -> {"unreadable", "noMathlib", "other", "badRevision", "pinned"}
    [] c \in {"lean", "lakeLean"} -> NoOutput \cup {"noVersion", "other", "pinned"}
    [] c = "mathlib"              -> NoOutput \cup {"otherRevision", "manifestRevision"}
    [] c = "compile"              -> NoOutput \cup {"ran"}

Wanted_AnyCheckout(c) ==
  CASE c = "mathlib" -> {"otherRevision", "manifestRevision"}
    [] c = "compile" -> {"ran"}
    [] OTHER         -> {"pinned"}

Wanted(c) ==
  CASE c = "mathlib" -> {"manifestRevision"}
    [] c = "compile" -> {"ran"}
    [] OTHER         -> {"pinned"}

PreflightTypeOK ==
  /\ checked \in 0..Len(Checks)
  /\ found \in [ToSet(Checks) -> {"unseen"} \cup UNION {Outcomes(c) : c \in ToSet(Checks)}]
  /\ report \in {"none", "passed", "failed"}

PreflightInit ==
  /\ checked = 0 /\ report = "none"
  /\ found = [c \in ToSet(Checks) |-> "unseen"]

CheckPasses(c, outcome) ==
  /\ outcome \in Wanted(c)
  /\ checked' = checked + 1
  /\ report' = IF checked' = Len(Checks) THEN "passed" ELSE "none"

CheckFails(c, outcome) ==
  /\ outcome \notin Wanted(c)
  /\ report' = "failed"
  /\ UNCHANGED checked

RunCheck ==
  /\ report = "none"
  /\ LET c == Checks[checked + 1] IN
     \E outcome \in Outcomes(c) :
       /\ found' = [found EXCEPT ![c] = outcome]
       /\ CheckPasses(c, outcome) \/ CheckFails(c, outcome)
=============================================================================
