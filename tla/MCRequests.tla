----------------------------- MODULE MCRequests -----------------------------
(***************************************************************************)
(* The instances of VerifyProof and JobExchange that TLC explores, in one  *)
(* run: an initial state is a request of one or of the other, and what     *)
(* belongs to the other one has ended.                                     *)
(***************************************************************************)
EXTENDS VerifyProof, JobExchange, FiniteSetsExt

CONSTANT MaxEdges   \* how many times the statement's declarations mention one another

-----------------------------------------------------------------------------
(* VerifyProof. *)

(* An edge: the first mentions the second in its type or its value. *)
Edges == Names \X Names \X {"type", "value"}

SmallEnvironments ==
  {[n \in Names |-> [kind  |-> kind[n],
                     type  |-> {m \in Names : <<n, m, "type">> \in E},
                     value |-> {m \in Names : <<n, m, "value">> \in E}]] :
     kind \in [Names -> Kinds], E \in UNION {kSubset(k, Edges) : k \in 0..MaxEdges}}

(* At most one declaration is at fault. *)
SmallCandidates ==
  {c \in [Names -> Faults] : Cardinality({n \in Names : c[n] # "none"}) <= 1}

Symmetry == Permutations(Names)

-----------------------------------------------------------------------------
(* JobExchange. *)

SmallJobs ==
  {[kind |-> "compile", id |-> "id", code |-> "code", allowSorry |-> b] : b \in BOOLEAN} \cup
  {[kind |-> "verify", id |-> "id", formal |-> "formal", content |-> "content",
    useDefEq |-> b] : b \in BOOLEAN}

(* Some differ in one of the positions only, and Lean does not know every  *)
(* position.                                                               *)
At(line) == [line |-> line, column |-> 0]
Message(severity, message, line, end) ==
  [severity |-> severity, message |-> message, pos |-> At(line), end |-> end]
SmallMessages ==
  {Message("information", "text", 1, Nothing), Message("warning", Sorry, 1, Nothing),
   Message("warning", Sorry, 1, Some(At(2))), Message("warning", "text", 0, Some(At(0))),
   Message("error", "text", 1, Nothing), Message("error", "text", 2, Nothing)}

(* The diagnostics are what makes an answer long. *)
SmallBytes(line) ==
  IF Is("object", line) /\ Is("array", Get(line, "errors")) /\ Is("array", Get(line, "warnings"))
    THEN Len(Content(Get(line, "errors"))) + Len(Content(Get(line, "warnings")))
    ELSE 0

SmallVerdicts ==
  {NoVerdict, [toolErrors |-> <<"noTargets">>, failed |-> <<>>],
   [toolErrors |-> <<"mismatch", "missing">>, failed |-> <<"name">>]}

(* Not JSON, not an object, another message, an answer to someone else,    *)
(* and answers with a field missing, negative or of another type.          *)
Good(id) ==
  [protocol_version |-> Integer(1), type |-> Text("result"), request_id |-> Text(id),
   status |-> Text("ok"), compile_ms |-> Float(0), warnings |-> Array(<<>>),
   errors |-> Array(<<>>)]

ForeignLines ==
  {<<"notJson", 0>>, Array(<<>>), Object([x \in {} |-> Null]), ReadyJson, Object(Good("other"))}
    \cup {Object([Good("id") EXCEPT ![f] = Null]) : f \in DOMAIN Good("id")}
    \cup {Object([Good("id") EXCEPT !.compile_ms = Float(-1)]),
          Object([Good("id") EXCEPT !.status = Text("fine")]),
          Object([Good("id") EXCEPT !.errors = Array(<<Text("text")>>)])}

-----------------------------------------------------------------------------
(* do_POST: the path says which. *)

(* The other one is as after a rejected request.                           *)
NoVerifyProof ==
  /\ handler = "ended" /\ response = "badRequest" /\ phase = "stopped"
  /\ formal = [n \in Names |-> [kind |-> "theorem", type |-> {}, value |-> {}]]
  /\ candidate = [n \in Names |-> "none"] /\ text = "sound"
  /\ pending = <<>> /\ seen = {} /\ required = <<>> /\ toolErrors = {} /\ failed = {}

NoExchange ==
  /\ stage = "ended" /\ body = Some([http |-> 400])
  /\ job = [kind |-> "compile", id |-> "id", code |-> "code", allowSorry |-> FALSE]
  /\ stdin = <<>> /\ stdout = <<>> /\ inHand = Nothing
  /\ file = "none" /\ log = <<>> /\ formalLog = <<>>
  /\ seenKeys = {} /\ warnings = <<>> /\ errors = <<>>
  /\ unknown = FALSE /\ verdict = NoVerdict

(* The declarations are not compared unless the text is sound: with one    *)
(* that is not, no candidate differs from any other.                       *)
OneOfAKind == text = "sound" \/ candidate = [n \in Names |-> "none"]

PostInit == (Init /\ OneOfAKind /\ NoExchange) \/ (ExchangeInit /\ NoVerifyProof)

Ended == handler = "ended" /\ stage = "ended" /\ UNCHANGED <<vars, exchangeVars>>

PostNext ==
  \/ HandlerStep /\ UNCHANGED exchangeVars
  \/ VerifierStep /\ UNCHANGED <<handler, response, exchangeVars>>
  \/ ExchangeStep /\ UNCHANGED vars
  \/ Ended

PostSpec == PostInit /\ [][PostNext]_<<vars, exchangeVars>>
=============================================================================
