----------------------------- MODULE JobExchange -----------------------------
(***************************************************************************)
(* One request from a client to a worker and back, line by line: the       *)
(* handlers of http.py, the request and the answer on the worker's pipes   *)
(* (WorkerProtocol), what the worker makes of the messages Lean logs       *)
(* (Compiler.lean, Main.lean), and the body of the response.  Verifier     *)
(* models what a verification finds; here its outcome is an input.         *)
(***************************************************************************)
EXTENDS WorkerProtocol, FiniteSets

CONSTANTS
  Jobs,      \* what clients ask for
  Messages,  \* what an elaboration may log
  MaxLog,    \* bound on the messages of one text
  Verdicts,  \* what a verification may find: tool errors, failed declarations
  Foreign,   \* lines a process started by the compiled code may print
  Sorry,     \* SORRY_WARNING_MESSAGE
  Bytes(_),  \* how long a line is
  MaxBytes   \* MAX_WORKER_MESSAGE_BYTES

Ids == STRING \ {""}
CompileJobs == [kind : {"compile"}, id : Ids, code : STRING, allowSorry : BOOLEAN]
VerifyJobs ==
  [kind : {"verify"}, id : Ids, formal : STRING, content : STRING, useDefEq : BOOLEAN]

(* The id of a request is a random UUID, which nobody tells the processes  *)
(* that compiled code starts: no line of theirs is an answer that has it.  *)
ASSUME ExchangeAssumption ==
  /\ Jobs \subseteq CompileJobs \cup VerifyJobs
  /\ Messages \subseteq [severity : {"information", "warning", "error"}, message : STRING,
                         pos : [line : Nat, column : Nat],
                         end : {p \in Seq([line : Nat, column : Nat]) : Len(p) <= 1}]
  /\ Verdicts \subseteq [toolErrors : Seq(STRING), failed : Seq(STRING)]
  /\ \A line \in Foreign : IsResult(line) \/ IsVerifyResult(line) =>
       \A j \in Jobs : Get(line, "request_id") # Text(j.id)

VARIABLES
  stage,     \* where the request is
  job,       \* what the client asked for
  stdin, stdout,      \* the worker's pipes
  inHand,    \* the request the worker reads, if any
  file,      \* the text it elaborates
  log, formalLog,     \* what that text, and the formal statement, have logged
  seenKeys, warnings, errors,\* as in diagnosticsFromMessages
  unknown,   \* whether the code imports a module that is not there
  verdict,   \* of a verification
  body       \* the response, if there is one

textVars == <<file, log, formalLog, seenKeys, warnings, errors>>
workerVars == <<textVars, unknown, verdict>>
pipeVars == <<stdin, stdout, inHand>>
exchangeVars == <<stage, job, pipeVars, workerVars, body>>

NoVerdict == [toolErrors |-> <<>>, failed |-> <<>>]

ExchangeInit ==
  /\ stage = "reading" /\ job \in Jobs
  /\ stdin = <<>> /\ stdout = <<>> /\ inHand = Nothing
  /\ file = "none" /\ log = <<>> /\ formalLog = <<>>
  /\ seenKeys = {} /\ warnings = <<>> /\ errors = <<>>
  /\ unknown = FALSE /\ verdict = NoVerdict
  /\ body = Nothing

-----------------------------------------------------------------------------
(* The response.                                                           *)

NotAvailable(retryable) == [http |-> 503, retryable |-> retryable]

MessageOf(d) == d.message

IsSorry(d) == d.message = Sorry
Sorries(ds) == SelectSeq(ds, IsSorry)

RejectSorry(d) == [d EXCEPT !.severity = "error", !.message = "sorryNotAllowed"]

(* _result_body *)
ResultBody(result, allowSorry) ==
  LET rejected == Sorries(result.warnings) IN
  [http |-> 200,
   okay |-> result.status = "ok" /\ (allowSorry \/ rejected = <<>>),
   warnings |-> result.warnings,
   errors |-> result.errors \o IF allowSorry THEN <<>> ELSE MapSeq(rejected, RejectSorry)]

(* _verify_result_body *)
VerifyResultBody(result) ==
  [http |-> 200,
   okay |-> /\ result.status = "ok" /\ result.errors = <<>>
            /\ result.toolErrors = <<>> /\ result.failed = <<>>,
   errors |-> MapSeq(result.errors, MessageOf), warnings |-> MapSeq(result.warnings, MessageOf),
   toolErrors |-> result.toolErrors, failed |-> result.failed]

-----------------------------------------------------------------------------
(* The steps of the request.                                               *)

EndsWith(response) ==
  /\ stage' = "ended" /\ body' = Some(response)
  /\ UNCHANGED <<workerVars, pipeVars, job>>

(* The body, or a field, is not what the endpoint accepts. *)
RejectRequest == stage = "reading" /\ EndsWith([http |-> 400])

AcceptRequest ==
  /\ stage = "reading" /\ stage' = "queued"
  /\ UNCHANGED <<workerVars, pipeVars, job, body>>

QueueFull == stage = "queued" /\ EndsWith(NotAvailable(TRUE))

InPool == stage \in {"queued", "sent", "elaborating", "answered"}

PoolClosed == InPool /\ EndsWith(NotAvailable(TRUE))

DeadlinePasses == InPool /\ EndsWith([http |-> 200, timedOut |-> TRUE])

(* A lone surrogate cannot be encoded; the pool takes that error, too, for *)
(* a failure of the worker.                                                *)
EncodeFails == stage = "queued" /\ EndsWith(NotAvailable(TRUE))

WorkerRequest == [f \in DOMAIN job \ {"allowSorry"} |-> job[f]]

SendRequest ==
  /\ stage = "queued"
  /\ stage' = "sent" /\ stdin' = <<ToDict(WorkerRequest)>>
  /\ UNCHANGED <<workerVars, stdout, inHand, job, body>>

-----------------------------------------------------------------------------
(* The worker.                                                             *)

Elaborates(text) ==
  /\ file' = text /\ seenKeys' = {} /\ warnings' = <<>>

(* requestLoop *)
ReadLine ==
  /\ stage = "sent" /\ stdin # <<>>
  /\ stdin' = <<>>
  /\ IF Parses(Head(stdin))
       THEN /\ stage' = "elaborating" /\ inHand' = Some(ParseRequest(Head(stdin)))
            /\ Elaborates(IF inHand'[1].kind = "verify" THEN "<formal_statement>" ELSE "<stdin>")
       ELSE UNCHANGED <<stage, inHand, file, seenKeys, warnings>>
  /\ UNCHANGED <<job, stdout, log, formalLog, errors, unknown, verdict, body>>

(* A position Lean does not know has line 0. *)
ValidPosition(p) == IF p.line = 0 THEN Nothing ELSE Some(p)

MessageToDiagnostic(m, text) ==
  [severity |-> m.severity, message |-> m.message, fileName |-> Some(text),
   start |-> ValidPosition(m.pos),
   end |-> IF m.end = Nothing THEN Nothing ELSE ValidPosition(m.end[1])]

DiagnosticKey_NoEnd(d) == [d EXCEPT !.end = Nothing]

DiagnosticKey(d) == d

(* A message of the log, as diagnosticsFromMessages takes it: not if it is *)
(* information or has been seen before.                                    *)
TakeMessage(m) ==
  /\ stage = "elaborating" /\ Len(log) < MaxLog
  /\ log' = Append(log, m)
  /\ LET d == MessageToDiagnostic(m, file) IN
     IF m.severity = "information" \/ DiagnosticKey(d) \in seenKeys
       THEN UNCHANGED <<seenKeys, warnings, errors>>
       ELSE /\ seenKeys' = seenKeys \cup {DiagnosticKey(d)}
            /\ warnings' = IF m.severity = "warning" THEN Append(warnings, d) ELSE warnings
            /\ errors' = IF m.severity = "error" THEN Append(errors, d) ELSE errors
  /\ UNCHANGED <<stage, job, pipeVars, file, formalLog, unknown, verdict, body>>

ElaborateCandidate_ErrorsLost ==
  /\ stage = "elaborating" /\ file = "<formal_statement>"
  /\ Elaborates("<content>")
  /\ formalLog' = log /\ log' = <<>> /\ errors' = <<>>
  /\ UNCHANGED <<stage, job, pipeVars, unknown, verdict, body>>

(* verifyProof goes on to the candidate.  It keeps the errors only. *)
ElaborateCandidate ==
  /\ stage = "elaborating" /\ file = "<formal_statement>"
  /\ Elaborates("<content>")
  /\ formalLog' = log /\ log' = <<>>
  /\ UNCHANGED <<stage, job, pipeVars, errors, unknown, verdict, body>>

PrintForeign ==
  /\ stage = "elaborating" /\ stdout = <<>>
  /\ \E line \in Foreign : stdout' = <<line>>
  /\ UNCHANGED <<workerVars, stage, job, stdin, inHand, body>>

(* The answer to the request in hand; each time in it has its own value. *)
Writes(status, warningsOut, errorsOut) ==
  /\ stage = "elaborating" /\ stage' = "answered"
  /\ LET result == [status |-> status, compileMs |-> 4, formalMs |-> 1, candidateMs |-> 2,
                    declarationsMs |-> 3, warnings |-> warningsOut, errors |-> errorsOut,
                    toolErrors |-> verdict'.toolErrors, failed |-> verdict'.failed]
     IN  stdout' = Append(stdout, IF inHand[1].kind = "verify"
                                    THEN VerifyResultJson(inHand[1].id, result)
                                    ELSE ResultJson(inHand[1].id, result))
  /\ UNCHANGED <<job, stdin, inHand, textVars, body>>

Status(errorsOut) == IF errorsOut = <<>> THEN "ok" ELSE "compile_error"

ImportError ==
  [severity |-> "error", message |-> "unknownModule", fileName |-> Some("<stdin>"),
   start |-> Some([line |-> 1, column |-> 0]), end |-> Nothing]

(* With an unknown import the log holds the messages of the header only. *)
AnswerCompile ==
  /\ file = "<stdin>" /\ unknown' \in BOOLEAN /\ UNCHANGED verdict
  /\ LET errorsOut == IF unknown' THEN Append(errors, ImportError) ELSE errors
     IN  Writes(Status(errorsOut), warnings, errorsOut)

(* The declarations are looked at only if there are no errors. *)
AnswerVerify ==
  /\ file = "<content>" /\ UNCHANGED unknown
  /\ verdict' \in IF errors = <<>> THEN Verdicts ELSE {NoVerdict}
  /\ Writes(Status(errors), warnings, errors)

InternalErrorDiagnostic ==
  [severity |-> "error", message |-> "exception", fileName |-> Nothing,
   start |-> Nothing, end |-> Nothing]

Throw ==
  /\ UNCHANGED <<unknown, verdict>>
  /\ Writes("internal_error", <<>>, <<InternalErrorDiagnostic>>)

(* End of stdout.  Nat.pow's panic is the one exit that is not worth a     *)
(* retry: the same code would end the next worker too.                     *)
WorkerEnds(panicked) ==
  /\ stage \in {"sent", "elaborating"} /\ stdout = <<>>
  /\ EndsWith(NotAvailable(~panicked))

-----------------------------------------------------------------------------
(* WorkerProcessBackend.compile() takes the first line there is; the pool  *)
(* takes internal_error for a failure of the worker.                       *)

Line == Head(stdout)

Fits(line) == Bytes(line) <= MaxBytes

Understood ==
  /\ Fits(Line)
  /\ IF job.kind = "verify" THEN IsVerifyResult(Line) ELSE IsResult(Line)
  /\ Get(Line, "request_id") = Text(job.id)

Expected == Understood /\ Get(Line, "status") # Text("internal_error")

TakeAnswer ==
  /\ stage \in {"elaborating", "answered"} /\ stdout # <<>>
  /\ Expected
  /\ IF job.kind = "verify"
       THEN EndsWith(VerifyResultBody(DecodeVerifyResult(Line)))
       ELSE EndsWith(ResultBody(DecodeResult(Line), job.allowSorry))

(* A line too long, a ProtocolError, a wrong type or id, or                *)
(* internal_error: the worker is given up and the job has failed.          *)
RefuseAnswer ==
  /\ stage \in {"elaborating", "answered"} /\ stdout # <<>>
  /\ ~Expected
  /\ EndsWith(NotAvailable(TRUE))

ExchangeStep ==
  \/ RejectRequest \/ AcceptRequest \/ QueueFull \/ PoolClosed \/ DeadlinePasses
  \/ EncodeFails \/ SendRequest \/ ReadLine \/ PrintForeign
  \/ (\E m \in Messages : TakeMessage(m)) \/ ElaborateCandidate
  \/ AnswerCompile \/ AnswerVerify \/ Throw
  \/ \E panicked \in BOOLEAN : WorkerEnds(panicked)
  \/ TakeAnswer \/ RefuseAnswer

ExchangeSpec == ExchangeInit /\ [][ExchangeStep]_exchangeVars

-----------------------------------------------------------------------------
(* The worker takes every request this server writes, and as the request   *)
(* it is: a line it ignores would be answered by the deadline only.  The   *)
(* server takes every answer the worker writes, whatever the outcome, as   *)
(* one to this request, if it is not longer than the limit: any it refuses *)
(* costs a healthy worker, as one that is too long does.                   *)
LinesUnderstood ==
  /\ stage = "sent" => stdin # <<>>
  /\ stage \in {"elaborating", "answered"} => inHand = Some(WorkerRequest)
  /\ stage = "answered" /\ Fits(Line) => Line \in Foreign \/ Understood

(* What a log says of a severity: each diagnostic once, where it first     *)
(* occurs; and that a list is that, in the order of the log.               *)
Reported(messages, severity, text) ==
  LET d(i) == MessageToDiagnostic(messages[i], text)
  IN  [i \in {k \in DOMAIN messages : /\ messages[k].severity = severity
                                      /\ \A j \in 1..(k - 1) : d(j) # d(k)} |-> d(i)]

Place(i, S) == Cardinality({j \in S : j <= i})

Lists(s, reported) ==
  /\ Len(s) = Cardinality(DOMAIN reported)
  /\ \A i \in DOMAIN reported : s[Place(i, DOMAIN reported)] = reported[i]

Judged(kind) ==
  stage = "ended" /\ job.kind = kind /\ body[1].http = 200 /\ "okay" \in DOMAIN body[1]

(* A check is okay exactly if Lean reported no error, knew the imports and *)
(* reported no sorry that is not allowed; it comes with every warning and  *)
(* every reason to refuse, each once and in order.                         *)
CheckExact ==
  Judged("compile") =>
    LET reported == Reported(log, "error", "<stdin>")
        refused == IF job.allowSorry THEN <<>> ELSE Sorries(warnings)
    IN  /\ Lists(errors, reported) /\ Lists(warnings, Reported(log, "warning", "<stdin>"))
        /\ body[1].okay <=> DOMAIN reported = {} /\ ~unknown /\ refused = <<>>
        /\ body[1].warnings = warnings
        /\ body[1].errors = errors \o (IF unknown THEN <<ImportError>> ELSE <<>>)
                               \o MapSeq(refused, RejectSorry)

(* A verification is okay exactly if Lean reported no error in either text *)
(* and the verifier found nothing; what both found reaches the client.     *)
VerdictDelivered ==
  Judged("verify") =>
    LET stated == Reported(formalLog, "error", "<formal_statement>")
        reported == Reported(log, "error", "<content>")
        n == Cardinality(DOMAIN stated)
    IN  /\ n <= Len(errors) /\ Lists(SubSeq(errors, 1, n), stated)
        /\ Lists(SubSeq(errors, n + 1, Len(errors)), reported)
        /\ Lists(warnings, Reported(log, "warning", "<content>"))
        /\ body[1].okay <=> DOMAIN stated = {} /\ DOMAIN reported = {} /\ verdict = NoVerdict
        /\ body[1].errors = MapSeq(errors, MessageOf)
        /\ body[1].warnings = MapSeq(warnings, MessageOf)
        /\ body[1].toolErrors = verdict.toolErrors /\ body[1].failed = verdict.failed
=============================================================================
