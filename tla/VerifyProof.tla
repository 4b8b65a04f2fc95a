----------------------------- MODULE VerifyProof -----------------------------
(***************************************************************************)
(* POST /api/v1/verify_proof from the request to the response: the handler *)
(* in http.py, the verification on a worker, and what the pool can do to   *)
(* it in between (see CompileService).                                     *)
(***************************************************************************)
EXTENDS Verifier

VARIABLES
  handler,   \* where _handle_verify_proof is
  response   \* what the client gets

vars == <<verifierVars, handler, response>>

Responses ==
  {"none", "badRequest", "overloaded", "timeout", "unavailable", "okay", "notOkay"}

TypeOK ==
  /\ VerifierTypeOK
  /\ handler \in {"reading", "waiting", "ended"}
  /\ response \in Responses

Init == VerifierInit /\ handler = "reading" /\ response = "none"

-----------------------------------------------------------------------------
Responds(r) == handler = "waiting" /\ handler' = "ended" /\ response' = r

(* The pool has closed the process, or never gave it the job. *)
WorkerGone ==
  /\ phase' = "stopped"
  /\ pending' = <<>> /\ seen' = {} /\ required' = <<>>
  /\ toolErrors' = {} /\ failed' = {}
  /\ UNCHANGED inputVars

BadRequest ==
  /\ handler = "reading"
  /\ handler' = "ended" /\ response' = "badRequest"
  /\ UNCHANGED verifierVars

(* Media type, length, JSON. *)
RejectBody == BadRequest

(* A field unknown, of another type, or outside the supported subset. *)
RejectFields == BadRequest

Submit ==
  /\ handler = "reading"
  /\ handler' = "waiting"
  /\ UNCHANGED <<verifierVars, response>>

Overloaded == phase = "idle" /\ Responds("overloaded") /\ WorkerGone

(* A slot takes the job. *)
Dispatch ==
  /\ handler = "waiting" /\ phase = "idle"
  /\ phase' = "elaborating"
  /\ UNCHANGED <<inputVars, loopVars, verdictVars, handler, response>>

(* The deadline, in the queue or during execution. *)
TimesOut == Responds("timeout") /\ WorkerGone

(* The pool was closed, the process died or broke the protocol, or         *)
(* verifyProof threw, which the pool takes for a failure of the worker.    *)
Unavailable == Responds("unavailable") /\ WorkerGone

(* _verify_result_body; the worker's status is ok if there are no errors. *)
Okay == text # "errors" /\ toolErrors = {} /\ failed = {}

ReturnVerdict ==
  /\ phase = "done"
  /\ Responds(IF Okay THEN "okay" ELSE "notOkay")
  /\ UNCHANGED verifierVars

HandlerStep ==
  \/ RejectBody \/ RejectFields \/ Submit
  \/ Overloaded \/ Dispatch \/ TimesOut \/ Unavailable \/ ReturnVerdict

Terminated == handler = "ended" /\ UNCHANGED vars

Next ==
  \/ HandlerStep
  \/ VerifierStep /\ UNCHANGED <<handler, response>>
  \/ Terminated

Spec == Init /\ [][Next]_vars

-----------------------------------------------------------------------------
(* What a statement depends on: the least set that holds its declarations  *)
(* and, with a declaration, everything its meaning mentions.  A proof and  *)
(* a value the candidate is to supply are no part of the meaning.          *)
Supplied(n) == formal[n].kind \in {"theorem", "placeholder", "auxiliary"}
Meaning(n) == IF Supplied(n) THEN formal[n].type ELSE formal[n].type \cup formal[n].value

ClosedUnder(S) == \A n \in S : Meaning(n) \subseteq S
DependsOn(T) == {n \in Names : \A S \in SUBSET Names : T \subseteq S /\ ClosedUnder(S) => n \in S}

(* An inductive type has no value that could differ. *)
Kept(n) ==
  candidate[n] \in {"none"} \cup
    IF Supplied(n) \/ formal[n].kind = "inductive" THEN {"value"} ELSE {}

Acceptable ==
  text = "sound" /\ Targets # {} /\ \A n \in DependsOn(Targets) : Kept(n)

(* The response says okay exactly for the candidates that keep everything  *)
(* the statement depends on: nothing escapes the comparison, and nothing   *)
(* outside it (a proof, its helpers) is held against a candidate.          *)
VerdictExact ==
  /\ response = "okay" => Acceptable
  /\ response = "notOkay" => ~Acceptable

(* A rejection without elaboration errors names a declaration of the       *)
(* statement, if there is one, and each one named does depend on something *)
(* the candidate lacks or changed.                                         *)
BlameIsFair ==
  response = "notOkay" /\ text # "errors" =>
    /\ failed # {} \/ Targets = {}
    /\ failed \subseteq Targets
    /\ text = "sound" => \A t \in failed : \E n \in DependsOn({t}) : ~Kept(n)

(* The loop ends, also when declarations are mutually recursive: a turn    *)
(* visits a declaration for the first time or shortens the stack.          *)
LoopShrinks ==
  [][phase = "collecting" /\ phase' = "collecting" =>
       \/ seen \subseteq seen' /\ seen # seen'
       \/ seen' = seen /\ Len(pending') < Len(pending)]_verifierVars
=============================================================================
