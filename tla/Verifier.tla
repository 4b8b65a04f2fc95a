------------------------------- MODULE Verifier -------------------------------
(***************************************************************************)
(* LeanServerWorker/Verifier.lean: verifyProof.  It elaborates the formal  *)
(* statement and the candidate, collects every declaration the statement   *)
(* depends on, and compares the two environments there.                    *)
(*                                                                         *)
(* An environment is a graph: the declarations a text adds, with what      *)
(* their types and values mention.  What is imported is the same for both  *)
(* texts, is skipped wherever it is met and is left out.  Lean's own       *)
(* judgements (equality of types and values, the axioms used) are inputs.  *)
(***************************************************************************)
EXTENDS Naturals, Sequences, FiniteSets, SequencesExt

CONSTANTS
  Names,         \* of the declarations the texts add
  Environments,  \* what the formal statement may declare
  Candidates     \* how the candidate may differ from it

(* A placeholder is a definition whose value has a sorry.  Generated and   *)
(* auxiliary declarations have no range in the source; the former have a   *)
(* value that is compared, the latter (recursors, proofs) do not.  Axioms  *)
(* and constructors are treated as theorems are, opaque constants as       *)
(* definitions.                                                            *)
Kinds == {"theorem", "definition", "placeholder", "inductive", "generated", "auxiliary"}
Declaration == [kind : Kinds, type : SUBSET Names, value : SUBSET Names]

(* "differs": in kind, metadata or type; "value": only in the value;       *)
(* "unfit": unsafe, or depends on sorry or an axiom not allowed.           *)
Faults == {"none", "missing", "differs", "value", "unfit"}

ASSUME VerifierAssumption ==
  /\ IsFiniteSet(Names)
  /\ Environments \subseteq [Names -> Declaration]
  /\ Candidates \subseteq [Names -> Faults]

VARIABLES
  formal,      \* the formal statement's declarations
  candidate,   \* for each of them, what is wrong with it in the candidate
  text,        \* "sound", has elaboration "errors", or has "banned" commands
  phase,       \* where verifyProof is
  pending, seen, required,   \* as in requiredDeclarations
  toolErrors,  \* the kinds of errors reported
  failed       \* failedDeclarations

inputVars == <<formal, candidate, text>>
loopVars == <<pending, seen, required>>
verdictVars == <<toolErrors, failed>>
verifierVars == <<inputVars, phase, loopVars, verdictVars>>

VerifierTypeOK ==
  /\ formal \in [Names -> Declaration] /\ candidate \in [Names -> Faults]
  /\ text \in {"sound", "errors", "banned"}
  /\ phase \in {"idle", "elaborating", "collecting", "done", "stopped"}
  /\ pending \in Seq(Names \X Names) /\ required \in Seq(Names \X Names)
  /\ seen \in SUBSET Names
  /\ toolErrors \subseteq {"noTargets", "openPrivate", "missing", "mismatch"}
  /\ failed \in SUBSET Names

VerifierInit ==
  /\ formal \in Environments /\ candidate \in Candidates
  /\ text \in {"sound", "errors", "banned"}
  /\ phase = "idle"
  /\ pending = <<>> /\ seen = {} /\ required = <<>>
  /\ toolErrors = {} /\ failed = {}

-----------------------------------------------------------------------------
(* newDeclarationNames, filtered by isTargetDeclaration *)
Targets == {n \in Names : formal[n].kind \notin {"generated", "auxiliary"}}

(* shouldCompareValue *)
Compared(n) == formal[n].kind \in {"definition", "generated"}

Dependencies_TypesOnly(n) == formal[n].type

(* The type, the value if it is compared, and an inductive's constructors. *)
Dependencies(n) ==
  formal[n].type \cup IF Compared(n) \/ formal[n].kind = "inductive"
                        THEN formal[n].value ELSE {}

(* The order in which an expression mentions constants is left open. *)
Orders(S) == {s \in [1..Cardinality(S) -> S] : \A n \in S : \E i \in DOMAIN s : s[i] = n}

Elaborate ==
  /\ phase = "elaborating"
  /\ \/ /\ text = "errors"
        /\ phase' = "done" /\ UNCHANGED pending
     \/ /\ text # "errors"
        /\ phase' = "collecting"
        /\ \E order \in Orders(Targets) :
             pending' = [i \in DOMAIN order |-> <<order[i], order[i]>>]
  /\ UNCHANGED <<inputVars, seen, required, verdictVars>>

-----------------------------------------------------------------------------
(* requiredDeclarations: a stack of declarations to visit, each with the   *)
(* target it is attributed to.                                             *)

Top == Last(pending)

Owner_Self == Top[1]

Owner == IF Top[1] \in Targets THEN Top[1] ELSE Top[2]

SkipVisited ==
  /\ phase = "collecting" /\ pending # <<>>
  /\ Top[1] \in seen
  /\ pending' = Front(pending)
  /\ UNCHANGED <<inputVars, phase, seen, required, verdictVars>>

Visit_NotRecorded ==
  /\ phase = "collecting" /\ pending # <<>>
  /\ Top[1] \notin seen
  /\ required' = Append(required, <<Top[1], Owner>>)
  /\ \E order \in Orders(Dependencies(Top[1])) :
       pending' = Front(pending) \o [i \in DOMAIN order |-> <<order[i], Owner>>]
  /\ UNCHANGED <<inputVars, phase, seen, verdictVars>>

Visit ==
  /\ phase = "collecting" /\ pending # <<>>
  /\ Top[1] \notin seen
  /\ seen' = seen \cup {Top[1]}
  /\ required' = Append(required, <<Top[1], Owner>>)
  /\ \E order \in Orders(Dependencies(Top[1])) :
       pending' = Front(pending) \o [i \in DOMAIN order |-> <<order[i], Owner>>]
  /\ UNCHANGED <<inputVars, phase, verdictVars>>

-----------------------------------------------------------------------------
(* The verdict.                                                            *)

Collected == phase = "collecting" /\ pending = <<>>

Missing == {r \in ToSet(required) : candidate[r[1]] = "missing"}

(* Kind, metadata, type, value, safety, axioms. *)
Bad(n) ==
  \/ candidate[n] \in {"differs", "unfit"}
  \/ candidate[n] = "value" /\ Compared(n)

Mismatched == {r \in ToSet(required) : Bad(r[1])}

NoTargets == IF Targets = {} THEN {"noTargets"} ELSE {}

RejectCommands ==
  /\ Collected /\ text = "banned"
  /\ toolErrors' = NoTargets \cup {"openPrivate"} /\ failed' = Targets
  /\ phase' = "done"
  /\ UNCHANGED <<inputVars, loopVars>>

(* Nothing else is compared then. *)
RejectMissing ==
  /\ Collected /\ text # "banned" /\ Missing # {}
  /\ toolErrors' = {"missing"} /\ failed' = {r[2] : r \in Missing}
  /\ phase' = "done"
  /\ UNCHANGED <<inputVars, loopVars>>

Compare ==
  /\ Collected /\ text # "banned" /\ Missing = {}
  /\ toolErrors' = NoTargets \cup IF Mismatched = {} THEN {} ELSE {"mismatch"}
  /\ failed' = {r[2] : r \in Mismatched}
  /\ phase' = "done"
  /\ UNCHANGED <<inputVars, loopVars>>

VerifierStep ==
  \/ Elaborate \/ SkipVisited \/ Visit
  \/ RejectCommands \/ RejectMissing \/ Compare
=============================================================================
