-------------------------- MODULE JobExchangeProofs --------------------------
(***************************************************************************)
(* Safety of JobExchange for any requests, messages and verdicts, logs of  *)
(* any length and any foreign lines.                                       *)
(*                                                                         *)
(* First the lines: what either end makes of what the other one writes is  *)
(* what it wrote.  Then the lists: a message that is taken extends what    *)
(* Reported says of the log by one place.  IInv is the inductive invariant *)
(* of the exchange: LogInv says that the worker's lists agree with its     *)
(* logs at every moment, AnswerInv which line is on the pipe and which     *)
(* body can have come of it.                                               *)
(***************************************************************************)
EXTENDS JobExchange, SequenceTheorems, FiniteSetTheorems, TLAPS

(* What is there or is missing, and a diagnostic.                          *)
Maybe(S) == {s \in Seq(S) : Len(s) <= 1}

Position == [line : Nat, column : Nat]

(* Strings; the model's own are named because the provers do not know that *)
(* a literal is in STRING.                                                 *)
Words == STRING \cup {"none", "<stdin>", "<formal_statement>", "<content>",
                      "unknownModule", "exception"}

Diagnostic ==
  [severity : {"warning", "error"}, message : Words, fileName : Maybe(Words),
   start : Maybe(Position), end : Maybe(Position)]

VerdictType == [toolErrors : Seq(STRING), failed : Seq(STRING)]

(* What the worker puts into an answer.                                    *)
Outcomes ==
  [status : {"ok", "compile_error", "internal_error"},
   compileMs : Nat, formalMs : Nat, candidateMs : Nat, declarationsMs : Nat,
   warnings : Seq(Diagnostic), errors : Seq(Diagnostic),
   toolErrors : Seq(STRING), failed : Seq(STRING)]

Outcome(status, warningsOut, errorsOut) ==
  [status |-> status, compileMs |-> 4, formalMs |-> 1, candidateMs |-> 2,
   declarationsMs |-> 3, warnings |-> warningsOut, errors |-> errorsOut,
   toolErrors |-> verdict.toolErrors, failed |-> verdict.failed]

ErrorsOut == IF unknown THEN Append(errors, ImportError) ELSE errors

Judgement == Outcome(Status(ErrorsOut), warnings, ErrorsOut)

Exception == Outcome("internal_error", <<>>, <<InternalErrorDiagnostic>>)

AnswerLine(outcome) ==
  IF job.kind = "verify" THEN VerifyResultJson(job.id, outcome) ELSE ResultJson(job.id, outcome)

JudgedBody ==
  IF job.kind = "verify"
    THEN VerifyResultBody(DecodeVerifyResult(AnswerLine(Judgement)))
    ELSE ResultBody(DecodeResult(AnswerLine(Judgement)), job.allowSorry)

FinalText == IF job.kind = "verify" THEN "<content>" ELSE "<stdin>"
-----------------------------------------------------------------------------
TypeInv ==
  /\ stage \in {"reading", "queued", "sent", "elaborating", "answered", "ended"}
  /\ job \in Jobs
  /\ log \in Seq(Messages) /\ formalLog \in Seq(Messages)
  /\ warnings \in Seq(Diagnostic) /\ errors \in Seq(Diagnostic)
  /\ unknown \in BOOLEAN /\ verdict \in VerdictType
  /\ file \in {"none", "<stdin>", "<formal_statement>", "<content>"}

RequestInv ==
  /\ stage \in {"reading", "queued", "sent"} =>
       /\ log = <<>> /\ formalLog = <<>> /\ errors = <<>>
       /\ stdout = <<>> /\ ~unknown /\ file = "none"
  /\ stage = "sent" => stdin = <<ToDict(WorkerRequest)>>
  /\ stage \in {"elaborating", "answered"} => inHand = Some(WorkerRequest)

TextInv ==
  /\ stage \in {"elaborating", "answered"} =>
       file \in IF job.kind = "verify" THEN {"<formal_statement>", "<content>"} ELSE {"<stdin>"}
  /\ file # "<content>" => formalLog = <<>>
  /\ job.kind = "verify" => ~unknown

(* The keys of the diagnostics that have been seen.                        *)
Keys(messages, text) ==
  {MessageToDiagnostic(messages[i], text) :
     i \in {k \in DOMAIN messages : messages[k].severity # "information"}}

WarningsAgree(messages, text, keys, ws) ==
  keys = Keys(messages, text) /\ Lists(ws, Reported(messages, "warning", text))

(* The errors of a verification are those of both texts, one after the     *)
(* other; a check has no formal statement, and an empty log of it.         *)
ErrorsAgree(formalMessages, messages, text, es) ==
  LET stated == Reported(formalMessages, "error", "<formal_statement>")
      n == Cardinality(DOMAIN stated)
  IN  /\ n \in 0..Len(es) /\ Lists(SubSeq(es, 1, n), stated)
      /\ Lists(SubSeq(es, n + 1, Len(es)), Reported(messages, "error", text))

LogInv ==
  /\ WarningsAgree(log, file, seenKeys, warnings)
  /\ ErrorsAgree(formalLog, log, file, errors)

AnswerInv ==
  /\ stage = "elaborating" => stdout = <<>> \/ \E line \in Foreign : stdout = <<line>>
  /\ stage = "answered" =>
       /\ stdout # <<>>
       /\ \/ Line \in Foreign
          \/ Line = AnswerLine(Judgement) /\ file = FinalText
          \/ Line = AnswerLine(Exception)
  /\ stage = "ended" /\ body[1].http = 200 /\ "okay" \in DOMAIN body[1] =>
       body = Some(JudgedBody) /\ file = FinalText

IInv == TypeInv /\ RequestInv /\ TextInv /\ LogInv /\ AnswerInv
-----------------------------------------------------------------------------
(* JSON values.                                                            *)

LEMMA Tagged ==
  ASSUME NEW x
  PROVE  /\ Is("string", Text(x)) /\ Is("integer", Integer(x)) /\ Is("float", Float(x))
         /\ Is("bool", Bool(x)) /\ Is("array", Array(x)) /\ Is("object", Object(x))
BY DEF Is, Text, Integer, Float, Bool, Array, Object

LEMMA Untagged ==
  ASSUME NEW x
  PROVE  /\ Content(Text(x)) = x /\ Content(Integer(x)) = x /\ Content(Float(x)) = x
         /\ Content(Bool(x)) = x /\ Content(Array(x)) = x /\ Content(Object(x)) = x
BY DEF Content, Text, Integer, Float, Bool, Array, Object

LEMMA NotNull ==
  ASSUME NEW x
  PROVE  Text(x) # Null /\ Object(x) # Null
<1>1. ~Is("string", Null) /\ ~Is("object", Null)
  BY DEF Is, Null
<1> QED BY <1>1, Tagged

LEMMA MaybeCases ==
  ASSUME NEW S, NEW option \in Maybe(S)
  PROVE  \/ option = Nothing
         \/ option # Nothing /\ option[1] \in S /\ option = Some(option[1])
<1>1. option \in Seq(S) /\ Len(option) \in Nat /\ Len(option) <= 1
  BY LenProperties DEF Maybe
<1>2. CASE Len(option) = 0
  BY <1>1, <1>2, EmptySeq DEF Nothing
<1>3. CASE Len(option) = 1
  <2>1. option[1] \in S
    BY <1>1, <1>3, ElementOfSeq
  <2>2. option = <<option[1]>>
    BY <1>1, <1>3
  <2>3. option # <<>>
    BY <1>3, EmptySeq
  <2> QED BY <2>1, <2>2, <2>3 DEF Some, Nothing
<1>4. PICK n \in Nat : n = Len(option)
  BY <1>1
<1>5. n = 0 \/ n = 1
  BY <1>1, <1>4
<1> QED BY <1>2, <1>3, <1>4, <1>5

LEMMA NumberBack ==
  ASSUME NEW v, NEW field, NEW n \in Nat, Get(v, field) = Float(n)
  PROVE  RequiredNumber(v, field)
<1>1. Content(Get(v, field)) = n /\ n >= 0
  BY Untagged
<1> QED BY <1>1, Tagged DEF RequiredNumber

-----------------------------------------------------------------------------
(* The requests.                                                           *)

LEMMA RequestShape ==
  ASSUME job \in Jobs
  PROVE  /\ job.id \in STRING /\ job.id # ""
         /\ \/ /\ job.kind = "compile" /\ job.allowSorry \in BOOLEAN
               /\ WorkerRequest = [kind |-> "compile", id |-> job.id, code |-> job.code]
            \/ /\ job.kind = "verify" /\ job.useDefEq \in BOOLEAN
               /\ WorkerRequest = [kind |-> "verify", id |-> job.id, formal |-> job.formal,
                                   content |-> job.content, useDefEq |-> job.useDefEq]
<1>1. job \in CompileJobs \/ job \in VerifyJobs
  BY ExchangeAssumption
<1>2. CASE job \in CompileJobs
  <2>1. DOMAIN job \ {"allowSorry"} = {"kind", "id", "code"}
    BY <1>2 DEF CompileJobs
  <2>2. WorkerRequest = [kind |-> "compile", id |-> job.id, code |-> job.code]
    BY <1>2, <2>1 DEF CompileJobs, WorkerRequest
  <2> QED BY <1>2, <2>2 DEF CompileJobs, Ids
<1>3. CASE job \in VerifyJobs
  <2>1. DOMAIN job \ {"allowSorry"} = {"kind", "id", "formal", "content", "useDefEq"}
    BY <1>3 DEF VerifyJobs
  <2>2. WorkerRequest = [kind |-> "verify", id |-> job.id, formal |-> job.formal,
                         content |-> job.content, useDefEq |-> job.useDefEq]
    BY <1>3, <2>1 DEF VerifyJobs, WorkerRequest
  <2> QED BY <1>3, <2>2 DEF VerifyJobs, Ids
<1> QED BY <1>1, <1>2, <1>3

(* What the worker reads is what the server wrote.                         *)
LEMMA CompileArrives ==
  ASSUME NEW r, r.kind = "compile", r.id # ""
  PROVE  /\ Parses(ToDict(r))
         /\ ParseRequest(ToDict(r)) = [kind |-> "compile", id |-> r.id, code |-> r.code]
<1>1. PICK v : v = CompileDict(r)
  OBVIOUS
<1>2. ToDict(r) = v
  BY <1>1 DEF ToDict
<1>3. /\ Is("object", v) /\ DOMAIN Content(v) = {"protocol_version", "type", "request_id", "code"}
      /\ Content(v)["protocol_version"] = Integer(1) /\ Content(v)["type"] = Text("compile")
      /\ Content(v)["request_id"] = Text(r.id) /\ Content(v)["code"] = Text(r.code)
  BY <1>1 DEF CompileDict, Object, Is, Content
<1>4. /\ Get(v, "protocol_version") = Integer(1) /\ Get(v, "type") = Text("compile")
      /\ Get(v, "request_id") = Text(r.id) /\ Get(v, "code") = Text(r.code)
  BY <1>3 DEF Get
<1>5. /\ Has(v, "protocol_version", "integer") /\ Has(v, "type", "string")
      /\ Has(v, "request_id", "string") /\ Has(v, "code", "string")
  BY <1>3, Tagged DEF Has
<1>6. IsCompile(v)
  BY <1>4, <1>5 DEF IsCompile, Speaks
<1>7. Content(Text(r.id)) = r.id /\ Content(Text(r.code)) = r.code
  BY Untagged
<1>8. Parses(v)
  BY <1>3, <1>4, <1>5, <1>6, <1>7 DEF Parses
<1>9. ParseRequest(v) = [kind |-> "compile", id |-> r.id, code |-> r.code]
  BY <1>4, <1>6, <1>7 DEF ParseRequest
<1> QED BY <1>2, <1>8, <1>9

LEMMA VerifyArrives ==
  ASSUME NEW r, r.kind = "verify", r.id # "", r.useDefEq \in BOOLEAN
  PROVE  /\ Parses(ToDict(r))
         /\ ParseRequest(ToDict(r)) =
              [kind |-> "verify", id |-> r.id, formal |-> r.formal, content |-> r.content,
               useDefEq |-> r.useDefEq]
<1>1. PICK v : v = VerifyDict(r)
  OBVIOUS
<1>2. ToDict(r) = v
  BY <1>1 DEF ToDict
<1>3. /\ Is("object", v)
      /\ DOMAIN Content(v) = {"protocol_version", "type", "request_id", "formal_statement",
                              "content", "use_def_eq"}
      /\ Content(v)["protocol_version"] = Integer(2) /\ Content(v)["type"] = Text("verify")
      /\ Content(v)["request_id"] = Text(r.id)
      /\ Content(v)["formal_statement"] = Text(r.formal)
      /\ Content(v)["content"] = Text(r.content) /\ Content(v)["use_def_eq"] = Bool(r.useDefEq)
  BY <1>1 DEF VerifyDict, Object, Is, Content
<1>4. /\ Get(v, "protocol_version") = Integer(2) /\ Get(v, "type") = Text("verify")
      /\ Get(v, "request_id") = Text(r.id) /\ Get(v, "formal_statement") = Text(r.formal)
      /\ Get(v, "content") = Text(r.content) /\ Get(v, "use_def_eq") = Bool(r.useDefEq)
  BY <1>3 DEF Get
<1>5. /\ Has(v, "protocol_version", "integer") /\ Has(v, "type", "string")
      /\ Has(v, "request_id", "string") /\ Has(v, "formal_statement", "string")
      /\ Has(v, "content", "string") /\ Is("bool", Get(v, "use_def_eq"))
  BY <1>3, <1>4, Tagged DEF Has
<1>6. IsVerify(v) /\ ~IsCompile(v)
  <2>1. Text("compile") # Text("verify")
    BY DEF Text
  <2> QED BY <1>4, <1>5, <2>1 DEF IsVerify, IsCompile, Speaks
<1>7. /\ Content(Text(r.id)) = r.id /\ Content(Text(r.formal)) = r.formal
      /\ Content(Text(r.content)) = r.content /\ Content(Bool(r.useDefEq)) = r.useDefEq
  BY Untagged
<1>8. Parses(v)
  BY <1>3, <1>4, <1>5, <1>6, <1>7 DEF Parses
<1>9. ParseRequest(v) =
        [kind |-> "verify", id |-> r.id, formal |-> r.formal, content |-> r.content,
         useDefEq |-> r.useDefEq]
  BY <1>3, <1>4, <1>6, <1>7 DEF ParseRequest
<1> QED BY <1>2, <1>8, <1>9

LEMMA RequestArrives ==
  ASSUME job \in Jobs
  PROVE  Parses(ToDict(WorkerRequest)) /\ ParseRequest(ToDict(WorkerRequest)) = WorkerRequest
<1>1. PICK r : r = WorkerRequest
  OBVIOUS
<1>2. CASE r = [kind |-> "compile", id |-> job.id, code |-> job.code] /\ job.id # ""
  <2>1. /\ r.kind = "compile" /\ r.id # ""
        /\ r = [kind |-> "compile", id |-> r.id, code |-> r.code]
    BY <1>2
  <2> QED BY <1>1, <2>1, CompileArrives
<1>3. CASE /\ r = [kind |-> "verify", id |-> job.id, formal |-> job.formal,
                   content |-> job.content, useDefEq |-> job.useDefEq]
           /\ job.id # "" /\ job.useDefEq \in BOOLEAN
  <2>1. /\ r.kind = "verify" /\ r.id # "" /\ r.useDefEq \in BOOLEAN
        /\ r = [kind |-> "verify", id |-> r.id, formal |-> r.formal, content |-> r.content,
                useDefEq |-> r.useDefEq]
    BY <1>3
  <2> QED BY <1>1, <2>1, VerifyArrives
<1> QED BY <1>1, <1>2, <1>3, RequestShape

-----------------------------------------------------------------------------
(* The answers.                                                            *)

LEMMA PositionBack ==
  ASSUME NEW p \in Position
  PROVE  /\ PositionJson(p) # Null /\ IsPosition(PositionJson(p))
         /\ DecodePosition(PositionJson(p)) = p
<1>1. PICK v : v = PositionJson(p)
  OBVIOUS
<1>2. /\ Is("object", v) /\ v # Null /\ DOMAIN Content(v) = {"line", "column"}
      /\ Content(v)["line"] = Integer(p.line) /\ Content(v)["column"] = Integer(p.column)
  BY <1>1, Tagged, Untagged, NotNull DEF PositionJson
<1>3. Get(v, "line") = Integer(p.line) /\ Get(v, "column") = Integer(p.column)
  BY <1>2 DEF Get
<1>4. IsPosition(v)
  BY <1>2, <1>3, Tagged DEF IsPosition
<1>5. DecodePosition(v) = [line |-> p.line, column |-> p.column]
  BY <1>3, Untagged DEF DecodePosition
<1>6. p = [line |-> p.line, column |-> p.column]
  BY DEF Position
<1> QED BY <1>1, <1>2, <1>4, <1>5, <1>6

LEMMA OptionBack ==
  ASSUME NEW name \in Maybe(Words), NEW position \in Maybe(Position)
  PROVE  /\ LET v == OptionJson(name, Text)
            IN  (Is("string", v) \/ v = Null) /\ Option(v, Content) = name
         /\ LET v == OptionJson(position, PositionJson)
            IN  IsPosition(v) /\ Option(v, DecodePosition) = position
<1>1. LET v == OptionJson(name, Text)
      IN  (Is("string", v) \/ v = Null) /\ Option(v, Content) = name
  <2>1. CASE name = Nothing
    BY <2>1 DEF OptionJson, Option
  <2>2. CASE name # Nothing /\ name = Some(name[1])
    BY <2>2, Tagged, Untagged, NotNull DEF OptionJson, Option
  <2> QED BY <2>1, <2>2, MaybeCases
<1>2. LET v == OptionJson(position, PositionJson)
      IN  IsPosition(v) /\ Option(v, DecodePosition) = position
  <2>1. CASE position = Nothing
    BY <2>1 DEF OptionJson, Option, IsPosition
  <2>2. CASE position # Nothing /\ position[1] \in Position /\ position = Some(position[1])
    BY <2>2, PositionBack DEF OptionJson, Option
  <2> QED BY <2>1, <2>2, MaybeCases
<1> QED BY <1>1, <1>2

LEMMA DiagnosticBack ==
  ASSUME NEW d \in Diagnostic
  PROVE  IsDiagnostic(DiagnosticJson(d)) /\ DecodeDiagnostic(DiagnosticJson(d)) = d
<1>1. PICK v : v = DiagnosticJson(d)
  OBVIOUS
<1>2. /\ d.severity \in {"warning", "error"} /\ d.fileName \in Maybe(Words)
      /\ d.start \in Maybe(Position) /\ d.end \in Maybe(Position)
      /\ d = [severity |-> d.severity, message |-> d.message, fileName |-> d.fileName,
              start |-> d.start, end |-> d.end]
  BY DEF Diagnostic
<1>3. /\ Is("object", v)
      /\ DOMAIN Content(v) = {"severity", "message", "file_name", "start", "end"}
      /\ Content(v)["severity"] = Text(d.severity) /\ Content(v)["message"] = Text(d.message)
      /\ Content(v)["file_name"] = OptionJson(d.fileName, Text)
      /\ Content(v)["start"] = OptionJson(d.start, PositionJson)
      /\ Content(v)["end"] = OptionJson(d.end, PositionJson)
  BY <1>1, Tagged, Untagged DEF DiagnosticJson, OptionJson
<1>4. /\ Get(v, "severity") = Text(d.severity) /\ Get(v, "message") = Text(d.message)
      /\ Get(v, "file_name") = OptionJson(d.fileName, Text)
      /\ Get(v, "start") = OptionJson(d.start, PositionJson)
      /\ Get(v, "end") = OptionJson(d.end, PositionJson)
  BY <1>3 DEF Get
<1>5. IsDiagnostic(v)
  BY <1>2, <1>3, <1>4, Tagged, OptionBack DEF IsDiagnostic
<1>6. DecodeDiagnostic(v) =
        [severity |-> d.severity, message |-> d.message, fileName |-> d.fileName,
         start |-> d.start, end |-> d.end]
  BY <1>2, <1>4, Untagged, OptionBack DEF DecodeDiagnostic
<1> QED BY <1>1, <1>2, <1>5, <1>6

LEMMA DiagnosticsBack ==
  ASSUME NEW ds \in Seq(Diagnostic)
  PROVE  AreDiagnostics(DiagnosticsJson(ds)) /\ DecodeDiagnostics(DiagnosticsJson(ds)) = ds
<1>1. ds = [i \in DOMAIN ds |-> ds[i]] /\ \A i \in DOMAIN ds : ds[i] \in Diagnostic
  BY LenProperties, ElementOfSeq
<1>2. /\ Is("array", DiagnosticsJson(ds))
      /\ Content(DiagnosticsJson(ds)) = [i \in DOMAIN ds |-> DiagnosticJson(ds[i])]
  BY Tagged, Untagged DEF DiagnosticsJson, MapSeq
<1>3. AreDiagnostics(DiagnosticsJson(ds))
  BY <1>1, <1>2, DiagnosticBack DEF AreDiagnostics, ToSet
<1>4. DecodeDiagnostics(DiagnosticsJson(ds)) =
        [i \in DOMAIN ds |-> DecodeDiagnostic(DiagnosticJson(ds[i]))]
  BY <1>2 DEF DecodeDiagnostics, MapSeq
<1> QED BY <1>1, <1>3, <1>4, DiagnosticBack

LEMMA StringsBack ==
  ASSUME NEW ss \in Seq(STRING)
  PROVE  AreStrings(StringsJson(ss)) /\ DecodeStrings(StringsJson(ss)) = ss
<1>1. ss = [i \in DOMAIN ss |-> ss[i]]
  BY LenProperties
<1>2. /\ Is("array", StringsJson(ss))
      /\ Content(StringsJson(ss)) = [i \in DOMAIN ss |-> Text(ss[i])]
  BY Tagged, Untagged DEF StringsJson, MapSeq
<1>3. AreStrings(StringsJson(ss))
  BY <1>2, Tagged DEF AreStrings, IsString, ToSet
<1>4. DecodeStrings(StringsJson(ss)) = [i \in DOMAIN ss |-> Content(Text(ss[i]))]
  BY <1>2 DEF DecodeStrings, MapSeq
<1> QED BY <1>1, <1>3, <1>4, Untagged

LEMMA ResultBack ==
  ASSUME NEW id \in Ids, NEW out \in Outcomes
  PROVE  LET line == ResultJson(id, out) IN
         /\ IsResult(line)
         /\ Get(line, "request_id") = Text(id) /\ Get(line, "status") = Text(out.status)
         /\ DecodeResult(line) = [status |-> out.status, compileMs |-> out.compileMs,
                                  warnings |-> out.warnings, errors |-> out.errors]
<1>1. PICK v : v = ResultJson(id, out)
  OBVIOUS
<1>2. /\ out.status \in {"ok", "compile_error", "internal_error"} /\ out.compileMs \in Nat
      /\ out.warnings \in Seq(Diagnostic) /\ out.errors \in Seq(Diagnostic)
      /\ id \in STRING /\ id # ""
  BY DEF Outcomes, Ids
<1>3. /\ Is("object", v)
      /\ DOMAIN Content(v) = {"protocol_version", "type", "request_id", "status", "compile_ms",
                              "warnings", "errors"}
      /\ Content(v)["protocol_version"] = Integer(1) /\ Content(v)["type"] = Text("result")
      /\ Content(v)["request_id"] = Text(id) /\ Content(v)["status"] = Text(out.status)
      /\ Content(v)["compile_ms"] = Float(out.compileMs)
      /\ Content(v)["warnings"] = DiagnosticsJson(out.warnings)
      /\ Content(v)["errors"] = DiagnosticsJson(out.errors)
  BY <1>1, Tagged, Untagged DEF ResultJson
<1>4. /\ Get(v, "protocol_version") = Integer(1) /\ Get(v, "type") = Text("result")
      /\ Get(v, "request_id") = Text(id) /\ Get(v, "status") = Text(out.status)
      /\ Get(v, "compile_ms") = Float(out.compileMs)
      /\ Get(v, "warnings") = DiagnosticsJson(out.warnings)
      /\ Get(v, "errors") = DiagnosticsJson(out.errors)
  BY <1>3 DEF Get
<1>5. RequiredNumber(v, "compile_ms")
  BY <1>2, <1>4, NumberBack
<1>6. IsAnswer(v)
  BY <1>2, <1>4, <1>5, Tagged, Untagged, DiagnosticsBack DEF IsAnswer, IsString
<1>7. IsResult(v)
  BY <1>3, <1>4, <1>6 DEF IsResult, Speaks
<1>8. DecodeResult(v) = [status |-> out.status, compileMs |-> out.compileMs,
                         warnings |-> out.warnings, errors |-> out.errors]
  BY <1>2, <1>4, Untagged, DiagnosticsBack DEF DecodeResult
<1> QED BY <1>1, <1>4, <1>7, <1>8

LEMMA VerifyResultBack ==
  ASSUME NEW id \in Ids, NEW out \in Outcomes
  PROVE  LET line == VerifyResultJson(id, out) IN
         /\ IsVerifyResult(line)
         /\ Get(line, "request_id") = Text(id) /\ Get(line, "status") = Text(out.status)
         /\ DecodeVerifyResult(line) = out
<1>1. PICK v : v = VerifyResultJson(id, out)
  OBVIOUS
<1>2. /\ out.status \in {"ok", "compile_error", "internal_error"}
      /\ out.compileMs \in Nat /\ out.formalMs \in Nat
      /\ out.candidateMs \in Nat /\ out.declarationsMs \in Nat
      /\ out.warnings \in Seq(Diagnostic) /\ out.errors \in Seq(Diagnostic)
      /\ out.toolErrors \in Seq(STRING) /\ out.failed \in Seq(STRING)
      /\ id \in STRING /\ id # ""
      /\ out = [status |-> out.status, compileMs |-> out.compileMs, formalMs |-> out.formalMs,
                candidateMs |-> out.candidateMs, declarationsMs |-> out.declarationsMs,
                warnings |-> out.warnings, errors |-> out.errors,
                toolErrors |-> out.toolErrors, failed |-> out.failed]
  BY DEF Outcomes, Ids
<1>3. /\ Is("object", v)
      /\ DOMAIN Content(v) =
           {"protocol_version", "type", "request_id", "status", "compile_ms",
            "formal_statement_ms", "candidate_ms", "declarations_ms", "warnings", "errors",
            "tool_errors", "failed_declarations"}
      /\ Content(v)["protocol_version"] = Integer(2) /\ Content(v)["type"] = Text("verify_result")
      /\ Content(v)["request_id"] = Text(id) /\ Content(v)["status"] = Text(out.status)
      /\ Content(v)["compile_ms"] = Float(out.compileMs)
      /\ Content(v)["formal_statement_ms"] = Float(out.formalMs)
      /\ Content(v)["candidate_ms"] = Float(out.candidateMs)
      /\ Content(v)["declarations_ms"] = Float(out.declarationsMs)
      /\ Content(v)["warnings"] = DiagnosticsJson(out.warnings)
      /\ Content(v)["errors"] = DiagnosticsJson(out.errors)
      /\ Content(v)["tool_errors"] = StringsJson(out.toolErrors)
      /\ Content(v)["failed_declarations"] = StringsJson(out.failed)
  BY <1>1, Tagged, Untagged DEF VerifyResultJson
<1>4. /\ Get(v, "protocol_version") = Integer(2) /\ Get(v, "type") = Text("verify_result")
      /\ Get(v, "request_id") = Text(id) /\ Get(v, "status") = Text(out.status)
      /\ Get(v, "compile_ms") = Float(out.compileMs)
      /\ Get(v, "formal_statement_ms") = Float(out.formalMs)
      /\ Get(v, "candidate_ms") = Float(out.candidateMs)
      /\ Get(v, "declarations_ms") = Float(out.declarationsMs)
      /\ Get(v, "warnings") = DiagnosticsJson(out.warnings)
      /\ Get(v, "errors") = DiagnosticsJson(out.errors)
      /\ Get(v, "tool_errors") = StringsJson(out.toolErrors)
      /\ Get(v, "failed_declarations") = StringsJson(out.failed)
  BY <1>3 DEF Get
<1>5. \A f \in {"compile_ms", "formal_statement_ms", "candidate_ms", "declarations_ms"} :
        RequiredNumber(v, f)
  BY <1>2, <1>4, NumberBack
<1>6. IsAnswer(v)
  BY <1>2, <1>4, <1>5, Tagged, Untagged, DiagnosticsBack DEF IsAnswer, IsString
<1>7. IsVerifyResult(v)
  BY <1>2, <1>3, <1>4, <1>5, <1>6, StringsBack DEF IsVerifyResult, Speaks
<1>8. DecodeVerifyResult(v) = out
  BY <1>2, <1>4, Untagged, DiagnosticsBack, StringsBack DEF DecodeVerifyResult
<1> QED BY <1>1, <1>4, <1>7, <1>8

-----------------------------------------------------------------------------
(* The lists of diagnostics.                                               *)

LEMMA PlaceFacts ==
  ASSUME NEW n \in Nat, NEW S \in SUBSET (1..n)
  PROVE  /\ IsFiniteSet(S) /\ Cardinality(S) \in Nat
         /\ Cardinality(S \cup {n + 1}) = Cardinality(S) + 1
         /\ \A i \in S : Place(i, S) \in 1..Cardinality(S) /\ Place(i, S \cup {n + 1}) = Place(i, S)
         /\ Place(n + 1, S \cup {n + 1}) = Cardinality(S) + 1
<1>1. IsFiniteSet(S) /\ Cardinality(S) \in Nat
  <2>1. IsFiniteSet(1..n)
    BY FS_Interval
  <2> QED BY <2>1, FS_Subset, FS_CardinalityType
<1>2. Cardinality(S \cup {n + 1}) = Cardinality(S) + 1
  <2>1. n + 1 \notin S
    OBVIOUS
  <2> QED BY <1>1, <2>1, FS_AddElement
<1>3. ASSUME NEW i \in S
      PROVE  Place(i, S) \in 1..Cardinality(S) /\ Place(i, S \cup {n + 1}) = Place(i, S)
  <2> DEFINE T == {j \in S : j <= i}
  <2>1. IsFiniteSet(T) /\ Cardinality(T) <= Cardinality(S)
    BY <1>1, FS_Subset
  <2>2. T # {}
    <3>1. i \in T
      OBVIOUS
    <3> QED BY <3>1
  <2>3. Cardinality(T) \in Nat /\ Cardinality(T) # 0
    BY <2>1, <2>2, FS_CardinalityType, FS_EmptySet
  <2>4. {j \in S \cup {n + 1} : j <= i} = T
    OBVIOUS
  <2>5. PICK k \in Nat, c \in Nat : k = Cardinality(T) /\ c = Cardinality(S)
    BY <1>1, <2>3
  <2>6. k \in 1..c
    BY <2>1, <2>3, <2>5
  <2>7. Place(i, S) = k /\ Place(i, S \cup {n + 1}) = k
    BY <2>4, <2>5 DEF Place
  <2> QED BY <2>5, <2>6, <2>7
<1>4. Place(n + 1, S \cup {n + 1}) = Cardinality(S) + 1
  <2>1. \A j \in S \cup {n + 1} : j <= n + 1
    OBVIOUS
  <2>2. {j \in S \cup {n + 1} : j <= n + 1} = S \cup {n + 1}
    BY <2>1
  <2> QED BY <1>2, <2>2 DEF Place
<1> QED BY <1>1, <1>2, <1>3, <1>4

LEMMA ListsExtended ==
  ASSUME NEW T, NEW s \in Seq(T), NEW d \in T, NEW n \in Nat, NEW f, NEW g,
         DOMAIN f \subseteq 1..n, DOMAIN g = DOMAIN f \cup {n + 1},
         \A i \in DOMAIN f : g[i] = f[i], g[n + 1] = d,
         Lists(s, f)
  PROVE  Lists(Append(s, d), g)
<1>1. PICK k \in Nat : k = Len(s) /\ k = Cardinality(DOMAIN f)
  BY LenProperties DEF Lists
<1>2. /\ Len(Append(s, d)) = k + 1 /\ Append(s, d)[k + 1] = d
      /\ \A i \in 1..k : Append(s, d)[i] = s[i]
  <2>1. /\ Len(Append(s, d)) = Len(s) + 1 /\ Append(s, d)[Len(s) + 1] = d
        /\ \A i \in 1..Len(s) : Append(s, d)[i] = s[i]
    BY AppendProperties
  <2> QED BY <1>1, <2>1
<1>3. PICK S \in SUBSET (1..n) : S = DOMAIN f /\ S \cup {n + 1} = DOMAIN g
  OBVIOUS
<1>4. /\ Cardinality(S \cup {n + 1}) = Cardinality(S) + 1
      /\ Place(n + 1, S \cup {n + 1}) = Cardinality(S) + 1
      /\ \A i \in S : Place(i, S) \in 1..Cardinality(S) /\ Place(i, S \cup {n + 1}) = Place(i, S)
  BY PlaceFacts
<1>5. /\ Cardinality(DOMAIN g) = k + 1 /\ Place(n + 1, DOMAIN g) = k + 1
      /\ \A i \in DOMAIN f : Place(i, DOMAIN f) \in 1..k /\ Place(i, DOMAIN g) = Place(i, DOMAIN f)
  BY <1>1, <1>3, <1>4
<1>6. ASSUME NEW i \in DOMAIN f PROVE Append(s, d)[Place(i, DOMAIN g)] = g[i]
  BY <1>2, <1>5 DEF Lists
<1> QED BY <1>2, <1>5, <1>6 DEF Lists

LEMMA NothingReported ==
  ASSUME NEW severity, NEW reportedText
  PROVE  /\ DOMAIN Reported(<<>>, severity, reportedText) = {}
         /\ Lists(<<>>, Reported(<<>>, severity, reportedText))
<1>1. DOMAIN Reported(<<>>, severity, reportedText) = {}
  BY DEF Reported
<1> QED BY <1>1, FS_EmptySet DEF Lists

(* A message is one more diagnostic of its severity if none like it came   *)
(* before, and of any other severity it is none.                           *)
LEMMA ReportedStep ==
  ASSUME NEW messages \in Seq(Messages), NEW m \in Messages, NEW severity, NEW text
  PROVE  LET d == MessageToDiagnostic(m, text)
             n == Len(messages)
             f == Reported(messages, severity, text)
             g == Reported(Append(messages, m), severity, text)
         IN  /\ DOMAIN f \subseteq 1..n
             /\ IF /\ m.severity = severity
                   /\ \A j \in 1..n : MessageToDiagnostic(messages[j], text) # d
                  THEN /\ DOMAIN g = DOMAIN f \cup {n + 1} /\ g[n + 1] = d
                       /\ \A i \in DOMAIN f : g[i] = f[i]
                  ELSE g = f
<1> DEFINE d == MessageToDiagnostic(m, text)
           f == Reported(messages, severity, text)
           g == Reported(Append(messages, m), severity, text)
           First(ms, k) == /\ ms[k].severity = severity
                             /\ \A j \in 1..(k - 1) : MessageToDiagnostic(ms[j], text)
                                                      # MessageToDiagnostic(ms[k], text)
<1>1. PICK n \in Nat : n = Len(messages)
  BY LenProperties
<1>2. /\ DOMAIN messages = 1..n /\ DOMAIN Append(messages, m) = 1..(n + 1)
      /\ Append(messages, m)[n + 1] = m
      /\ \A i \in 1..n : Append(messages, m)[i] = messages[i]
  BY <1>1, AppendProperties, LenProperties
<1>3. \A k \in 1..n : First(Append(messages, m), k) <=> First(messages, k)
  BY <1>2
<1>4. First(Append(messages, m), n + 1) <=>
        m.severity = severity /\ \A j \in 1..n : MessageToDiagnostic(messages[j], text) # d
  BY <1>2
<1>5. /\ f = [i \in {k \in 1..n : First(messages, k)} |-> MessageToDiagnostic(messages[i], text)]
      /\ g = [i \in {k \in 1..(n + 1) : First(Append(messages, m), k)} |->
                MessageToDiagnostic(Append(messages, m)[i], text)]
  BY <1>2 DEF Reported
<1> HIDE DEF First
<1>6. /\ DOMAIN f = {k \in 1..n : First(messages, k)}
      /\ DOMAIN g = {k \in 1..(n + 1) : First(Append(messages, m), k)}
  BY <1>5
<1>7. DOMAIN g = DOMAIN f \cup IF First(Append(messages, m), n + 1) THEN {n + 1} ELSE {}
  BY <1>3, <1>6
<1>8. /\ \A i \in DOMAIN f : i \in DOMAIN g /\ g[i] = f[i]
      /\ n + 1 \in DOMAIN g => g[n + 1] = d
  BY <1>2, <1>5, <1>6, <1>7
<1> HIDE DEF f, g
<1>9. CASE First(Append(messages, m), n + 1)
  BY <1>1, <1>4, <1>6, <1>7, <1>8, <1>9 DEF f, g
<1>10. CASE ~First(Append(messages, m), n + 1)
  <2>1. g = f
    BY <1>5, <1>7, <1>8, <1>10 DEF f, g
  <2> QED BY <1>1, <1>4, <1>6, <1>10, <2>1 DEF f, g
<1> QED BY <1>9, <1>10

LEMMA KeysStep ==
  ASSUME NEW messages \in Seq(Messages), NEW m \in Messages, NEW text
  PROVE  LET d == MessageToDiagnostic(m, text)
             seen == \E j \in 1..Len(messages) : MessageToDiagnostic(messages[j], text) = d
         IN  IF m.severity = "information"
               THEN Keys(Append(messages, m), text) = Keys(messages, text)
               ELSE /\ Keys(Append(messages, m), text) = Keys(messages, text) \cup {d}
                    /\ d \in Keys(messages, text) <=> seen
<1> DEFINE D(x) == MessageToDiagnostic(x, text)
<1>1. PICK n \in Nat : n = Len(messages)
  BY LenProperties
<1>2. /\ DOMAIN messages = 1..n /\ DOMAIN Append(messages, m) = 1..(n + 1)
      /\ Append(messages, m)[n + 1] = m
      /\ \A i \in 1..n : Append(messages, m)[i] = messages[i]
  BY <1>1, AppendProperties, LenProperties
<1>3. \A x : D(x).severity = x.severity
  BY DEF MessageToDiagnostic
<1> HIDE DEF D
<1>4. Keys(messages, text) = {D(messages[i]) : i \in {k \in 1..n : messages[k].severity # "information"}}
  BY <1>2 DEF Keys, D
<1>5. Keys(Append(messages, m), text) =
        {D(Append(messages, m)[i]) :
           i \in {k \in 1..(n + 1) : Append(messages, m)[k].severity # "information"}}
  BY <1>2 DEF Keys, D
<1>6. Keys(Append(messages, m), text) =
        Keys(messages, text) \cup IF m.severity = "information" THEN {} ELSE {D(m)}
  BY <1>2, <1>4, <1>5
<1>7. m.severity # "information" =>
        (D(m) \in Keys(messages, text) <=> \E j \in 1..n : D(messages[j]) = D(m))
  BY <1>3, <1>4
<1> QED BY <1>1, <1>6, <1>7 DEF D

(* A list of diagnostics stays what is reported if the worker takes a      *)
(* message as TakeMessage does.                                            *)
LEMMA MessageTaken ==
  ASSUME NEW messages \in Seq(Messages), NEW m \in Messages, NEW text,
         NEW severity \in {"warning", "error"},
         NEW ds \in Seq(Diagnostic), Lists(ds, Reported(messages, severity, text)),
         MessageToDiagnostic(m, text) \in Diagnostic \/ m.severity = "information"
  PROVE  LET d == MessageToDiagnostic(m, text)
             taken == m.severity = severity /\ d \notin Keys(messages, text)
         IN  Lists(IF taken THEN Append(ds, d) ELSE ds,
                   Reported(Append(messages, m), severity, text))
<1> DEFINE d == MessageToDiagnostic(m, text)
           f == Reported(messages, severity, text)
           g == Reported(Append(messages, m), severity, text)
<1>1. PICK n \in Nat : n = Len(messages)
  BY LenProperties
<1>2. /\ DOMAIN f \subseteq 1..Len(messages)
      /\ IF /\ m.severity = severity
            /\ \A j \in 1..Len(messages) : MessageToDiagnostic(messages[j], text) # d
           THEN /\ DOMAIN g = DOMAIN f \cup {Len(messages) + 1} /\ g[Len(messages) + 1] = d
                /\ \A i \in DOMAIN f : g[i] = f[i]
           ELSE g = f
  BY ReportedStep
<1>3. CASE m.severity = severity /\ \A j \in 1..n : MessageToDiagnostic(messages[j], text) # d
  <2>1. m.severity # "information" /\ d \notin Keys(messages, text) /\ d \in Diagnostic
    BY <1>1, <1>3, KeysStep
  <2> HIDE DEF d, f, g
  <2>2. /\ DOMAIN f \subseteq 1..n /\ DOMAIN g = DOMAIN f \cup {n + 1} /\ g[n + 1] = d
        /\ \A i \in DOMAIN f : g[i] = f[i]
    BY <1>1, <1>2, <1>3 DEF d
  <2>3. Lists(Append(ds, d), g)
    BY <2>1, <2>2, ListsExtended DEF f
  <2> QED BY <1>3, <2>1, <2>3 DEF d, g
<1>4. CASE ~(m.severity = severity /\ \A j \in 1..n : MessageToDiagnostic(messages[j], text) # d)
  <2>1. g = f
    <3> HIDE DEF f, g
    <3> QED BY <1>1, <1>2, <1>4
  <2>2. ~(m.severity = severity /\ d \notin Keys(messages, text))
    BY <1>1, <1>4, KeysStep
  <2> QED BY <2>1, <2>2
<1> QED BY <1>3, <1>4

LEMMA Suffix ==
  ASSUME NEW S, NEW s \in Seq(S), NEW n \in Nat, NEW c \in Nat, Len(s) = n + c
  PROVE  LET a == SubSeq(s, n + 1, Len(s))
         IN  a \in Seq(S) /\ Len(a) = c /\ \A i \in 1..c : a[i] = s[n + i]
<1>1. \A i \in 1..Len(s) : s[i] \in S
  BY ElementOfSeq
<1>2. PICK a : a = SubSeq(s, n + 1, n + c)
  OBVIOUS
<1>3. \A i \in n + 1..n + c : s[i] \in S
  BY <1>1
<1>4. /\ a \in Seq(S)
      /\ Len(a) = IF n + 1 <= n + c THEN n + c - (n + 1) + 1 ELSE 0
      /\ \A i \in 1..n + c - (n + 1) + 1 : a[i] = s[n + 1 + i - 1]
  <2>1. n + 1 \in Int /\ n + c \in Int
    OBVIOUS
  <2> QED BY <1>2, <1>3, <2>1, SubSeqProperties
<1>5. n + c - (n + 1) + 1 = c /\ \A i \in 1..c : n + 1 + i - 1 = n + i
  OBVIOUS
<1>6. Len(a) = c /\ \A i \in 1..c : a[i] = s[n + i]
  <2>1. Len(a) = c
    BY <1>4
  <2> QED BY <1>4, <1>5, <2>1
<1> QED BY <1>2, <1>4, <1>6

LEMMA SubSeqAppend ==
  ASSUME NEW S, NEW s \in Seq(S), NEW d \in S, NEW n \in Nat, NEW c \in Nat, Len(s) = n + c
  PROVE  /\ SubSeq(s, n + 1, Len(s)) \in Seq(S)
         /\ SubSeq(Append(s, d), 1, n) = SubSeq(s, 1, n)
         /\ SubSeq(Append(s, d), n + 1, Len(Append(s, d))) =
              Append(SubSeq(s, n + 1, Len(s)), d)
<1>1. PICK a, b, t : /\ t = Append(s, d) /\ a = SubSeq(s, n + 1, Len(s))
                     /\ b = SubSeq(t, n + 1, Len(t))
  OBVIOUS
<1>2. /\ t \in Seq(S) /\ Len(t) = n + (c + 1) /\ t[n + (c + 1)] = d
      /\ \A i \in 1..(n + c) : t[i] = s[i]
  <2>1. /\ t \in Seq(S) /\ Len(t) = Len(s) + 1 /\ t[Len(s) + 1] = d
        /\ \A i \in 1..Len(s) : t[i] = s[i]
    BY <1>1, AppendProperties
  <2>2. Len(s) = n + c /\ Len(s) + 1 = n + (c + 1)
    OBVIOUS
  <2> QED BY <2>1, <2>2
<1>3. SubSeq(t, 1, n) = SubSeq(s, 1, n)
  <2>1. /\ SubSeq(s, 1, n) = [i \in 1..n |-> s[i]]
        /\ SubSeq(t, 1, n) = [i \in 1..n |-> t[i]]
    OBVIOUS
  <2> QED BY <1>2, <2>1
<1>4. a \in Seq(S) /\ Len(a) = c /\ \A i \in 1..c : a[i] = s[n + i]
  BY <1>1, Suffix
<1>5. b \in Seq(S) /\ Len(b) = c + 1 /\ \A i \in 1..(c + 1) : b[i] = t[n + i]
  <2>1. PICK k \in Nat : k = c + 1
    OBVIOUS
  <2>2. b \in Seq(S) /\ Len(b) = k /\ \A i \in 1..k : b[i] = t[n + i]
    BY <1>1, <1>2, <2>1, Suffix
  <2> QED BY <2>1, <2>2
<1>6. PICK e : e = Append(a, d)
  OBVIOUS
<1>7. e \in Seq(S) /\ Len(e) = c + 1 /\ e[c + 1] = d /\ \A i \in 1..c : e[i] = a[i]
  BY <1>4, <1>6, AppendProperties
<1>8. \A i \in 1..(c + 1) : b[i] = e[i]
  <2>1. b[c + 1] = e[c + 1]
    BY <1>2, <1>5, <1>7
  <2>2. \A i \in 1..c : n + i \in 1..(n + c) /\ i \in 1..(c + 1)
    OBVIOUS
  <2>3. \A i \in 1..c : b[i] = e[i]
    BY <1>2, <1>4, <1>5, <1>7, <2>2
  <2> QED BY <2>1, <2>3
<1>9. b = e
  BY <1>5, <1>7, <1>8, SeqEqual
<1> QED BY <1>1, <1>3, <1>4, <1>6, <1>9

-----------------------------------------------------------------------------
(* The lists of the worker and its logs.                                   *)

LEMMA SomeMaybe ==
  ASSUME NEW S
  PROVE  Nothing \in Maybe(S) /\ \A x \in S : Some(x) \in Maybe(S)
BY DEF Maybe, Some, Nothing

LEMMA DiagnosticMade ==
  ASSUME NEW m \in Messages, NEW text \in Words
  PROVE  MessageToDiagnostic(m, text) \in Diagnostic \/ m.severity = "information"
<1>1. /\ m.severity \in {"information", "warning", "error"} /\ m.message \in Words
      /\ m.pos \in Position /\ m.end \in Maybe(Position)
  BY ExchangeAssumption DEF Position, Words, Maybe
<1>2. Some(text) \in Maybe(Words) /\ Nothing \in Maybe(Position)
  BY SomeMaybe
<1>3. \A p \in Position : ValidPosition(p) \in Maybe(Position)
  BY SomeMaybe DEF ValidPosition
<1>4. PICK end : end = IF m.end = Nothing THEN Nothing ELSE ValidPosition(m.end[1])
  OBVIOUS
<1>5. end \in Maybe(Position)
  BY <1>1, <1>2, <1>3, <1>4, MaybeCases
<1> QED BY <1>1, <1>2, <1>3, <1>4, <1>5 DEF MessageToDiagnostic, Diagnostic

LEMMA WarningsTaken ==
  ASSUME NEW messages \in Seq(Messages), NEW m \in Messages, NEW text \in Words,
         NEW keys, NEW ws \in Seq(Diagnostic), WarningsAgree(messages, text, keys, ws)
  PROVE  LET d == MessageToDiagnostic(m, text)
             fresh == m.severity # "information" /\ d \notin keys
         IN  WarningsAgree(Append(messages, m), text, IF fresh THEN keys \cup {d} ELSE keys,
                           IF fresh /\ m.severity = "warning" THEN Append(ws, d) ELSE ws)
<1> DEFINE d == MessageToDiagnostic(m, text)
           fresh == m.severity # "information" /\ d \notin keys
           taken == m.severity = "warning" /\ d \notin Keys(messages, text)
           next == Reported(Append(messages, m), "warning", text)
<1>1. keys = Keys(messages, text) /\ Lists(ws, Reported(messages, "warning", text))
  BY DEF WarningsAgree
<1>2. Keys(Append(messages, m), text) = IF fresh THEN keys \cup {d} ELSE keys
  <2>1. IF m.severity = "information"
          THEN Keys(Append(messages, m), text) = Keys(messages, text)
          ELSE Keys(Append(messages, m), text) = Keys(messages, text) \cup {d}
    BY KeysStep
  <2> HIDE DEF d
  <2>2. d \in keys => keys \cup {d} = keys
    OBVIOUS
  <2> QED BY <1>1, <2>1, <2>2
<1>3. Lists(IF taken THEN Append(ws, d) ELSE ws, next)
  BY <1>1, DiagnosticMade, MessageTaken
<1>4. taken <=> fresh /\ m.severity = "warning"
  BY <1>1
<1> HIDE DEF d, fresh, taken, next
<1>5. Lists(IF fresh /\ m.severity = "warning" THEN Append(ws, d) ELSE ws, next)
  BY <1>3, <1>4
<1> QED BY <1>2, <1>5 DEF WarningsAgree, d, fresh, next

LEMMA ErrorsTaken ==
  ASSUME NEW formalMessages, NEW messages \in Seq(Messages), NEW m \in Messages,
         NEW text \in Words, NEW es \in Seq(Diagnostic),
         ErrorsAgree(formalMessages, messages, text, es)
  PROVE  LET d == MessageToDiagnostic(m, text)
             taken == m.severity = "error" /\ d \notin Keys(messages, text)
         IN  ErrorsAgree(formalMessages, Append(messages, m), text,
                         IF taken THEN Append(es, d) ELSE es)
<1> DEFINE d == MessageToDiagnostic(m, text)
           taken == m.severity = "error" /\ d \notin Keys(messages, text)
           stated == Reported(formalMessages, "error", "<formal_statement>")
           reported == Reported(messages, "error", text)
           next == Reported(Append(messages, m), "error", text)
           rest == SubSeq(es, Cardinality(DOMAIN stated) + 1, Len(es))
<1>1. /\ Cardinality(DOMAIN stated) \in 0..Len(es)
      /\ Lists(SubSeq(es, 1, Cardinality(DOMAIN stated)), stated) /\ Lists(rest, reported)
  BY DEF ErrorsAgree
<1>2. PICK n \in Nat, c \in Nat : n = Cardinality(DOMAIN stated) /\ Len(es) = n + c
  <2>1. PICK k \in Nat : k = Len(es)
    BY LenProperties
  <2>2. PICK n \in Nat : n = Cardinality(DOMAIN stated) /\ n <= k
    BY <1>1, <2>1
  <2>3. k - n \in Nat /\ k = n + (k - n)
    BY <2>2
  <2> QED BY <2>1, <2>2, <2>3
<1>3. CASE taken
  <2>1. d \in Diagnostic
    BY <1>3, DiagnosticMade
  <2> HIDE DEF d
  <2>2. /\ rest \in Seq(Diagnostic)
        /\ SubSeq(Append(es, d), 1, n) = SubSeq(es, 1, n)
        /\ SubSeq(Append(es, d), n + 1, Len(Append(es, d))) = Append(rest, d)
    <3>1. /\ SubSeq(es, n + 1, Len(es)) \in Seq(Diagnostic)
          /\ SubSeq(Append(es, d), 1, n) = SubSeq(es, 1, n)
          /\ SubSeq(Append(es, d), n + 1, Len(Append(es, d))) =
               Append(SubSeq(es, n + 1, Len(es)), d)
      <4>1. Len(es) = n + c
        BY <1>2
      <4> QED BY <2>1, <4>1, SubSeqAppend
    <3>2. rest = SubSeq(es, n + 1, Len(es))
      BY <1>2
    <3> HIDE DEF rest
    <3> QED BY <3>1, <3>2
  <2>3. Lists(Append(rest, d), next)
    BY <1>1, <1>3, <2>1, <2>2, MessageTaken DEF d
  <2>4. n \in 0..Len(Append(es, d))
    <3>1. Len(Append(es, d)) = n + c + 1
      BY <1>2, <2>1, AppendProperties
    <3> QED BY <3>1
  <2> QED BY <1>1, <1>2, <1>3, <2>2, <2>3, <2>4 DEF ErrorsAgree, d
<1>4. CASE ~taken
  <2>1. rest \in Seq(Diagnostic)
    BY <1>2, Suffix
  <2>2. Lists(rest, next)
    BY <1>1, <1>4, <2>1, DiagnosticMade, MessageTaken
  <2> QED BY <1>1, <1>4, <2>2 DEF ErrorsAgree
<1> QED BY <1>3, <1>4

(* A text that has logged nothing yet.                                     *)
LEMMA NothingLogged ==
  ASSUME NEW text
  PROVE  WarningsAgree(<<>>, text, {}, <<>>) /\ ErrorsAgree(<<>>, <<>>, text, <<>>)
<1>1. \A severity, t : /\ DOMAIN Reported(<<>>, severity, t) = {}
                       /\ Lists(<<>>, Reported(<<>>, severity, t))
  BY NothingReported
<1>2. Keys(<<>>, text) = {}
  BY DEF Keys
<1>3. PICK stated : stated = Reported(<<>>, "error", "<formal_statement>")
  OBVIOUS
<1>4. Cardinality(DOMAIN stated) = 0 /\ 0 \in 0..Len(<<>>)
  BY <1>1, <1>3, FS_EmptySet
<1>5. SubSeq(<<>>, 1, 0) = <<>> /\ SubSeq(<<>>, 0 + 1, Len(<<>>)) = <<>>
  BY SubSeqEmpty
<1>6. ErrorsAgree(<<>>, <<>>, text, <<>>)
  BY <1>1, <1>3, <1>4, <1>5 DEF ErrorsAgree
<1> QED BY <1>1, <1>2, <1>6 DEF WarningsAgree

LEMMA OneTextOnly ==
  ASSUME NEW messages, NEW es \in Seq(Diagnostic), NEW text,
         ErrorsAgree(<<>>, messages, text, es)
  PROVE  Lists(es, Reported(messages, "error", text))
<1>1. PICK none, reported : /\ none = Reported(<<>>, "error", "<formal_statement>")
                            /\ reported = Reported(messages, "error", text)
  OBVIOUS
<1>2. Cardinality(DOMAIN none) = 0
  BY <1>1, NothingReported, FS_EmptySet
<1>3. Lists(SubSeq(es, Cardinality(DOMAIN none) + 1, Len(es)), reported)
  BY <1>1 DEF ErrorsAgree
<1>4. SubSeq(es, 1, Len(es)) = es
  BY SubSeqFull
<1>5. SubSeq(es, Cardinality(DOMAIN none) + 1, Len(es)) = es
  <2>1. Cardinality(DOMAIN none) + 1 = 1
    BY <1>2
  <2> QED BY <1>4, <2>1
<1> QED BY <1>1, <1>3, <1>5

(* The candidate follows the formal statement.                             *)
LEMMA CandidateFollows ==
  ASSUME NEW messages, NEW es \in Seq(Diagnostic), NEW text,
         ErrorsAgree(<<>>, messages, "<formal_statement>", es)
  PROVE  ErrorsAgree(messages, <<>>, text, es)
<1>1. PICK k \in Nat : k = Len(es)
  BY LenProperties
<1>2. PICK stated : stated = Reported(messages, "error", "<formal_statement>")
  OBVIOUS
<1>3. SubSeq(es, 1, k) = es
  BY <1>1, SubSeqFull
<1>4. Lists(es, stated)
  BY <1>2, OneTextOnly
<1>5. Cardinality(DOMAIN stated) = k
  BY <1>1, <1>4 DEF Lists
<1>6. SubSeq(es, k + 1, k) = <<>>
  BY SubSeqEmpty
<1>7. Lists(SubSeq(es, k + 1, k), Reported(<<>>, "error", text))
  BY <1>6, NothingReported
<1>8. Cardinality(DOMAIN stated) \in 0..Len(es)
  BY <1>1, <1>5
<1>9. /\ Lists(SubSeq(es, 1, Cardinality(DOMAIN stated)), stated)
      /\ Lists(SubSeq(es, Cardinality(DOMAIN stated) + 1, Len(es)),
               Reported(<<>>, "error", text))
  BY <1>1, <1>3, <1>4, <1>5, <1>7
<1> QED BY <1>2, <1>8, <1>9 DEF ErrorsAgree

-----------------------------------------------------------------------------
(* What the worker writes.                                                 *)

LEMMA OutcomesTyped ==
  ASSUME TypeInv
  PROVE  ErrorsOut \in Seq(Diagnostic) /\ Judgement \in Outcomes /\ Exception \in Outcomes
<1>1. /\ Nothing \in Maybe(Words) /\ Nothing \in Maybe(Position)
      /\ "exception" \in Words /\ "unknownModule" \in Words /\ "<stdin>" \in Words
  BY SomeMaybe DEF Words
<1>2. ImportError \in Diagnostic
  <2>1. [line |-> 1, column |-> 0] \in Position
    BY DEF Position
  <2>2. PICK start : start = Some([line |-> 1, column |-> 0])
    OBVIOUS
  <2>3. PICK name : name = Some("<stdin>")
    OBVIOUS
  <2>4. start \in Maybe(Position)
    BY <2>1, <2>2, SomeMaybe
  <2>5. name \in Maybe(Words)
    BY <1>1, <2>3, SomeMaybe
  <2> QED BY <1>1, <2>2, <2>3, <2>4, <2>5 DEF ImportError, Diagnostic
<1>3. <<InternalErrorDiagnostic>> \in Seq(Diagnostic)
  <2>2. InternalErrorDiagnostic \in Diagnostic
    BY <1>1 DEF InternalErrorDiagnostic, Diagnostic
  <2> QED BY <2>2
<1>4. ErrorsOut \in Seq(Diagnostic)
  BY <1>2, AppendProperties DEF ErrorsOut, TypeInv
<1>5. Judgement \in Outcomes
  <2>1. Status(ErrorsOut) \in {"ok", "compile_error"}
    BY DEF Status
  <2> QED BY <1>4, <2>1 DEF TypeInv, VerdictType, Judgement, Outcome, Outcomes
<1>6. Exception \in Outcomes
  BY <1>3 DEF TypeInv, VerdictType, Exception, Outcome, Outcomes
<1> QED BY <1>4, <1>5, <1>6

(* The server takes what the worker writes, as an answer to the job.       *)
LEMMA AnswerTaken ==
  ASSUME job \in Jobs, NEW out \in Outcomes
  PROVE  LET line == AnswerLine(out) IN
         /\ IF job.kind = "verify" THEN IsVerifyResult(line) ELSE IsResult(line)
         /\ Get(line, "request_id") = Text(job.id) /\ Get(line, "status") = Text(out.status)
<1>1. job.id \in Ids
  BY RequestShape DEF Ids
<1> QED BY <1>1, ResultBack, VerifyResultBack DEF AnswerLine

(* A line that is taken is the worker's judgement of the final text.       *)
LEMMA OnlyJudgements ==
  ASSUME IInv, stage \in {"elaborating", "answered"}, stdout # <<>>, Expected
  PROVE  stage = "answered" /\ Line = AnswerLine(Judgement) /\ file = FinalText
<1>1. job \in Jobs /\ TypeInv
  BY DEF IInv, TypeInv
<1>2. Line \notin Foreign
  <2>1. (IsResult(Line) \/ IsVerifyResult(Line)) /\ Get(Line, "request_id") = Text(job.id)
    BY DEF Expected, Understood
  <2> QED BY <1>1, <2>1, ExchangeAssumption
<1>3. stage = "answered"
  <2>1. ~\E line \in Foreign : stdout = <<line>>
    BY <1>2 DEF Line
  <2> QED BY <2>1 DEF IInv, AnswerInv
<1>4. Line # AnswerLine(Exception)
  <2>1. Exception \in Outcomes
    BY <1>1, OutcomesTyped
  <2>2. Get(AnswerLine(Exception), "status") = Text(Exception.status)
    BY <1>1, <2>1, AnswerTaken
  <2>3. Exception.status = "internal_error"
    BY DEF Exception, Outcome
  <2> QED BY <2>2, <2>3 DEF Expected
<1> QED BY <1>2, <1>3, <1>4 DEF IInv, AnswerInv

LEMMA Written ==
  ASSUME IInv, NEW status, NEW warningsOut, NEW errorsOut,
         Writes(status, warningsOut, errorsOut)
  PROVE  /\ stdout' # <<>> /\ stage' = "answered" /\ stage = "elaborating"
         /\ \/ Head(stdout') \in Foreign
            \/ Head(stdout') =
                 LET out == [status |-> status, compileMs |-> 4, formalMs |-> 1,
                             candidateMs |-> 2, declarationsMs |-> 3,
                             warnings |-> warningsOut, errors |-> errorsOut,
                             toolErrors |-> verdict'.toolErrors, failed |-> verdict'.failed]
                 IN  AnswerLine(out)
         /\ UNCHANGED <<job, inHand, textVars>>
<1> DEFINE out == [status |-> status, compileMs |-> 4, formalMs |-> 1,
                   candidateMs |-> 2, declarationsMs |-> 3,
                   warnings |-> warningsOut, errors |-> errorsOut,
                   toolErrors |-> verdict'.toolErrors, failed |-> verdict'.failed]
<1>1. PICK o : o = out
  OBVIOUS
<1>2. PICK line : line = IF inHand[1].kind = "verify"
                           THEN VerifyResultJson(inHand[1].id, o)
                           ELSE ResultJson(inHand[1].id, o)
  OBVIOUS
<1>3. /\ stage = "elaborating" /\ stage' = "answered" /\ stdout' = Append(stdout, line)
      /\ UNCHANGED <<job, inHand, textVars>>
  BY <1>1, <1>2 DEF Writes
<1>4. inHand[1].kind = job.kind /\ inHand[1].id = job.id
  <2>1. inHand = Some(WorkerRequest) /\ job \in Jobs
    BY <1>3 DEF IInv, RequestInv, TypeInv
  <2>2. WorkerRequest.kind = job.kind /\ WorkerRequest.id = job.id
    <3>1. PICK r : r = WorkerRequest
      OBVIOUS
    <3>2. \/ /\ job.kind = "compile"
             /\ r = [kind |-> "compile", id |-> job.id, code |-> job.code]
          \/ /\ job.kind = "verify"
             /\ r = [kind |-> "verify", id |-> job.id, formal |-> job.formal,
                     content |-> job.content, useDefEq |-> job.useDefEq]
      BY <2>1, <3>1, RequestShape
    <3>3. r.kind = job.kind /\ r.id = job.id
      BY <3>2
    <3> QED BY <3>1, <3>3
  <2> QED BY <2>1, <2>2 DEF Some
<1>5. line = AnswerLine(o)
  BY <1>2, <1>4 DEF AnswerLine
<1>6. stdout = <<>> \/ \E l \in Foreign : stdout = <<l>>
  BY <1>3 DEF IInv, AnswerInv
<1>7. stdout' # <<>> /\ (Head(stdout') \in Foreign \/ Head(stdout') = line)
  <2>1. CASE stdout = <<>>
    BY <1>3, <2>1
  <2>2. CASE \E l \in Foreign : stdout = <<l>>
    BY <1>3, <2>2
  <2> QED BY <1>6, <2>1, <2>2
<1> QED BY <1>1, <1>3, <1>5, <1>7

-----------------------------------------------------------------------------
(* The invariant is inductive.                                             *)

LEMMA Initially == ExchangeInit => IInv
<1> SUFFICES ASSUME ExchangeInit PROVE IInv
  OBVIOUS
<1> USE DEF ExchangeInit
<1>1. TypeInv
  <2>1. \A S : <<>> \in Seq(S)
    OBVIOUS
  <2>2. NoVerdict \in VerdictType
    BY <2>1 DEF NoVerdict, VerdictType
  <2> QED BY <2>1, <2>2 DEF TypeInv
<1>2. RequestInv /\ TextInv /\ AnswerInv
  BY DEF RequestInv, TextInv, AnswerInv
<1>3. LogInv
  BY NothingLogged DEF LogInv
<1> QED BY <1>1, <1>2, <1>3 DEF IInv

(* What is true of the worker stays true while only the request moves.     *)
LEMMA WorkerKept ==
  ASSUME IInv, UNCHANGED <<job, workerVars>>
  PROVE  /\ LogInv' /\ WorkerRequest' = WorkerRequest
         /\ AnswerLine(Judgement)' = AnswerLine(Judgement)
         /\ AnswerLine(Exception)' = AnswerLine(Exception)
         /\ JudgedBody' = JudgedBody /\ FinalText' = FinalText
<1>1. UNCHANGED <<job, file, log, formalLog, seenKeys, warnings, errors, unknown, verdict>>
  BY DEF workerVars, textVars
<1>2. LogInv'
  BY <1>1 DEF IInv, LogInv
<1>3. /\ AnswerLine(Judgement)' = AnswerLine(Judgement)
      /\ AnswerLine(Exception)' = AnswerLine(Exception)
  BY <1>1 DEF AnswerLine, Judgement, Exception, Outcome, ErrorsOut
<1>4. JudgedBody' = JudgedBody
  BY <1>1 DEF JudgedBody, AnswerLine, Judgement, Outcome, ErrorsOut
<1>5. WorkerRequest' = WorkerRequest /\ FinalText' = FinalText
  BY <1>1 DEF WorkerRequest, FinalText
<1> QED BY <1>2, <1>3, <1>4, <1>5

LEMMA StutterKeeps ==
  ASSUME IInv, UNCHANGED exchangeVars
  PROVE  IInv'
<1>1. UNCHANGED <<job, workerVars>>
  BY DEF exchangeVars
<1>2. UNCHANGED <<stage, job, stdin, stdout, inHand, file, log, formalLog, warnings, errors,
                  unknown, verdict, body>>
  BY DEF exchangeVars, pipeVars, workerVars, textVars
<1>3. TypeInv' /\ TextInv'
  BY <1>2 DEF IInv, TypeInv, TextInv
<1>4. RequestInv'
  BY <1>1, <1>2, WorkerKept DEF IInv, RequestInv
<1>5. AnswerInv'
  BY <1>1, <1>2, WorkerKept DEF IInv, AnswerInv, Line
<1> QED BY <1>1, <1>3, <1>4, <1>5, WorkerKept DEF IInv

(* A request that ends, with a verdict only if that is the worker's.       *)
LEMMA EndsKeeps ==
  ASSUME IInv, NEW response, EndsWith(response),
         "okay" \in DOMAIN response => response = JudgedBody /\ file = FinalText
  PROVE  IInv'
<1>1. UNCHANGED <<job, workerVars>> /\ stage' = "ended" /\ body' = Some(response)
  BY DEF EndsWith
<1>2. UNCHANGED <<file, log, formalLog, warnings, errors, unknown, verdict>>
  BY <1>1 DEF workerVars, textVars
<1>3. TypeInv'
  BY <1>1, <1>2 DEF IInv, TypeInv
<1>4. RequestInv' /\ TextInv'
  BY <1>1, <1>2 DEF IInv, RequestInv, TextInv
<1>5. AnswerInv'
  <2>1. body'[1] = response
    BY <1>1 DEF Some
  <2>2. (JudgedBody' = JudgedBody /\ FinalText' = FinalText)
    BY <1>1, WorkerKept
  <2> QED BY <1>1, <1>2, <2>1, <2>2 DEF AnswerInv
<1> QED BY <1>1, <1>3, <1>4, <1>5, WorkerKept DEF IInv

LEMMA UnansweredKeeps ==
  ASSUME IInv,
         \/ RejectRequest \/ QueueFull \/ PoolClosed \/ DeadlinePasses \/ EncodeFails
         \/ RefuseAnswer
         \/ \E panicked \in BOOLEAN : WorkerEnds(panicked)
  PROVE  IInv'
<1>1. \A retryable : "okay" \notin DOMAIN NotAvailable(retryable)
  BY DEF NotAvailable
<1>2. "okay" \notin DOMAIN [http |-> 400] /\ "okay" \notin DOMAIN [http |-> 200, timedOut |-> TRUE]
  OBVIOUS
<1>3. PICK response : EndsWith(response) /\ "okay" \notin DOMAIN response
  BY <1>1, <1>2
     DEF RejectRequest, QueueFull, PoolClosed, DeadlinePasses, EncodeFails, RefuseAnswer,
         WorkerEnds
<1> QED BY <1>3, EndsKeeps

LEMMA TakeAnswerKeeps ==
  ASSUME IInv, TakeAnswer
  PROVE  IInv'
<1>1. Line = AnswerLine(Judgement) /\ file = FinalText
  BY OnlyJudgements DEF TakeAnswer
<1>2. EndsWith(JudgedBody)
  BY <1>1 DEF TakeAnswer, JudgedBody
<1> QED BY <1>1, <1>2, EndsKeeps

LEMMA RequestKeeps ==
  ASSUME IInv, AcceptRequest \/ SendRequest \/ PrintForeign
  PROVE  IInv'
<1>1. UNCHANGED <<job, workerVars, inHand, body>>
  BY DEF AcceptRequest, SendRequest, PrintForeign, pipeVars
<1>2. UNCHANGED <<file, log, formalLog, warnings, errors, unknown, verdict>>
  BY <1>1 DEF workerVars, textVars
<1>3. \/ stage \in {"reading", "queued"} /\ stage' = "queued" /\ UNCHANGED <<stdin, stdout>>
      \/ stage = "queued" /\ stage' = "sent" /\ stdin' = <<ToDict(WorkerRequest)>> /\ UNCHANGED stdout
      \/ /\ stage = "elaborating" /\ stage' = stage
         /\ \E line \in Foreign : stdout' = <<line>>
  BY DEF AcceptRequest, SendRequest, PrintForeign, pipeVars
<1>4. TypeInv'
  BY <1>1, <1>2, <1>3 DEF IInv, TypeInv
<1>5. RequestInv'
  BY <1>1, <1>2, <1>3, WorkerKept DEF IInv, RequestInv
<1>6. TextInv'
  BY <1>1, <1>2, <1>3 DEF IInv, TextInv
<1>7. AnswerInv'
  BY <1>1, <1>3 DEF AnswerInv
<1> QED BY <1>1, <1>4, <1>5, <1>6, <1>7, WorkerKept DEF IInv

(* The worker reads the request, and starts on an empty log.               *)
LEMMA ReadLineKeeps ==
  ASSUME IInv, ReadLine
  PROVE  IInv'
<1>1. stage = "sent" /\ UNCHANGED <<job, stdout, log, formalLog, errors, unknown, verdict, body>>
  BY DEF ReadLine
<1>2. /\ stdin = <<ToDict(WorkerRequest)>> /\ stdout = <<>> /\ job \in Jobs
      /\ log = <<>> /\ formalLog = <<>> /\ errors = <<>> /\ ~unknown
  BY <1>1 DEF IInv, RequestInv, TypeInv
<1>3. /\ stage' = "elaborating" /\ inHand' = Some(WorkerRequest)
      /\ Elaborates(IF inHand'[1].kind = "verify" THEN "<formal_statement>" ELSE "<stdin>")
  <2>1. PICK v : v = ToDict(WorkerRequest)
    OBVIOUS
  <2>2. Parses(v) /\ ParseRequest(v) = WorkerRequest /\ Head(stdin) = v
    BY <1>2, <2>1, RequestArrives
  <2> QED BY <2>2 DEF ReadLine
<1>4. inHand'[1].kind = job.kind
  <2>1. PICK r : r = WorkerRequest
    OBVIOUS
  <2>2. \/ job.kind = "compile" /\ r = [kind |-> "compile", id |-> job.id, code |-> job.code]
        \/ /\ job.kind = "verify"
           /\ r = [kind |-> "verify", id |-> job.id, formal |-> job.formal,
                   content |-> job.content, useDefEq |-> job.useDefEq]
    BY <1>2, <2>1, RequestShape
  <2>3. r.kind = job.kind
    BY <2>2
  <2> QED BY <1>3, <2>1, <2>3 DEF Some
<1>5. /\ file' = IF job.kind = "verify" THEN "<formal_statement>" ELSE "<stdin>"
      /\ seenKeys' = {} /\ warnings' = <<>>
  BY <1>3, <1>4 DEF Elaborates
<1>6. TypeInv'
  BY <1>1, <1>3, <1>5 DEF IInv, TypeInv
<1>7. RequestInv' /\ TextInv'
  <2>1. WorkerRequest' = WorkerRequest
    BY <1>1 DEF WorkerRequest
  <2> QED BY <1>1, <1>2, <1>3, <1>5, <2>1 DEF RequestInv, TextInv
<1>8. LogInv'
  BY <1>1, <1>2, <1>5, NothingLogged DEF LogInv
<1>9. AnswerInv'
  BY <1>1, <1>2, <1>3 DEF AnswerInv
<1> QED BY <1>6, <1>7, <1>8, <1>9 DEF IInv

LEMMA TakeMessageKeeps ==
  ASSUME IInv, NEW m \in Messages, TakeMessage(m)
  PROVE  IInv'
<1> DEFINE d == MessageToDiagnostic(m, file)
           fresh == m.severity # "information" /\ d \notin seenKeys
<1>1. /\ stage = "elaborating" /\ log' = Append(log, m)
      /\ seenKeys' = (IF fresh THEN seenKeys \cup {d} ELSE seenKeys)
      /\ warnings' = (IF fresh /\ m.severity = "warning" THEN Append(warnings, d) ELSE warnings)
      /\ errors' = (IF fresh /\ m.severity = "error" THEN Append(errors, d) ELSE errors)
      /\ UNCHANGED <<stage, job, stdin, stdout, inHand, file, formalLog, unknown, verdict, body>>
  BY DEF TakeMessage, DiagnosticKey, pipeVars
<1>2. /\ log \in Seq(Messages) /\ file \in Words
      /\ warnings \in Seq(Diagnostic) /\ errors \in Seq(Diagnostic)
  BY DEF IInv, TypeInv, Words
<1>3. d \in Diagnostic \/ m.severity = "information"
  BY <1>2, DiagnosticMade
<1> HIDE DEF d
<1>4. TypeInv'
  BY <1>1, <1>2, <1>3, AppendProperties DEF IInv, TypeInv
<1>5. RequestInv' /\ TextInv'
  <2>1. WorkerRequest' = WorkerRequest
    BY <1>1 DEF WorkerRequest
  <2> QED BY <1>1, <2>1 DEF IInv, RequestInv, TextInv
<1>6. WarningsAgree(log', file', seenKeys', warnings')
  <2>1. WarningsAgree(log, file, seenKeys, warnings)
    BY DEF IInv, LogInv
  <2> QED BY <1>1, <1>2, <2>1, WarningsTaken DEF d
<1>7. ErrorsAgree(formalLog', log', file', errors')
  <2>1. seenKeys = Keys(log, file) /\ ErrorsAgree(formalLog, log, file, errors)
    BY DEF IInv, LogInv, WarningsAgree
  <2>2. ErrorsAgree(formalLog, Append(log, m), file,
                    IF m.severity = "error" /\ d \notin Keys(log, file)
                      THEN Append(errors, d) ELSE errors)
    BY <1>2, <2>1, ErrorsTaken DEF d
  <2>3. errors' = IF m.severity = "error" /\ d \notin Keys(log, file)
                    THEN Append(errors, d) ELSE errors
    BY <1>1, <2>1
  <2> QED BY <1>1, <2>2, <2>3
<1>8. AnswerInv'
  BY <1>1 DEF IInv, AnswerInv
<1> QED BY <1>4, <1>5, <1>6, <1>7, <1>8 DEF IInv, LogInv

LEMMA ElaborateCandidateKeeps ==
  ASSUME IInv, ElaborateCandidate
  PROVE  IInv'
<1>1. /\ stage = "elaborating" /\ file = "<formal_statement>" /\ file' = "<content>"
      /\ seenKeys' = {} /\ warnings' = <<>> /\ formalLog' = log /\ log' = <<>>
      /\ UNCHANGED <<stage, job, stdin, stdout, inHand, errors, unknown, verdict, body>>
  BY DEF ElaborateCandidate, Elaborates, pipeVars
<1>2. formalLog = <<>> /\ job.kind = "verify"
  BY <1>1 DEF IInv, TextInv
<1>3. TypeInv'
  BY <1>1 DEF IInv, TypeInv
<1>4. RequestInv' /\ TextInv'
  <2>1. WorkerRequest' = WorkerRequest
    BY <1>1 DEF WorkerRequest
  <2> QED BY <1>1, <1>2, <2>1 DEF IInv, RequestInv, TextInv
<1>5. LogInv'
  <2>1. ErrorsAgree(<<>>, log, "<formal_statement>", errors) /\ errors \in Seq(Diagnostic)
    BY <1>1, <1>2 DEF IInv, LogInv, TypeInv
  <2>2. ErrorsAgree(log, <<>>, "<content>", errors)
    BY <2>1, CandidateFollows
  <2> QED BY <1>1, <2>2, NothingLogged DEF LogInv
<1>6. AnswerInv'
  BY <1>1 DEF IInv, AnswerInv
<1> QED BY <1>3, <1>4, <1>5, <1>6 DEF IInv

LEMMA AnswerKeeps ==
  ASSUME IInv, AnswerCompile \/ AnswerVerify \/ Throw
  PROVE  IInv'
<1>1. /\ stdout' # <<>> /\ stage' = "answered" /\ stage = "elaborating"
      /\ UNCHANGED <<job, inHand, textVars>>
  BY Written DEF AnswerCompile, AnswerVerify, Throw
<1>2. UNCHANGED <<job, inHand, file, log, formalLog, seenKeys, warnings, errors>>
  BY <1>1 DEF textVars
<1>3. /\ unknown' \in BOOLEAN /\ (job.kind = "verify" => ~unknown') /\ verdict' \in VerdictType
  <2>1. verdict \in VerdictType /\ unknown \in BOOLEAN /\ NoVerdict \in VerdictType
    <3>1. \A S : <<>> \in Seq(S)
      OBVIOUS
    <3> QED BY <3>1 DEF IInv, TypeInv, NoVerdict, VerdictType
  <2>2. CASE AnswerCompile
    <3>1. job.kind # "verify"
      BY <1>1, <2>2 DEF AnswerCompile, IInv, TextInv
    <3> QED BY <2>1, <2>2, <3>1 DEF AnswerCompile
  <2>3. CASE AnswerVerify
    <3>1. verdict' \in VerdictType
      BY <2>1, <2>3, ExchangeAssumption DEF AnswerVerify, VerdictType
    <3> QED BY <2>1, <2>3, <3>1 DEF AnswerVerify, IInv, TextInv
  <2>4. CASE Throw
    BY <2>1, <2>4 DEF Throw, IInv, TextInv
  <2> QED BY <2>2, <2>3, <2>4
<1>4. \/ Head(stdout') \in Foreign
      \/ Head(stdout') = AnswerLine(Judgement)' /\ file' = FinalText'
      \/ Head(stdout') = AnswerLine(Exception)'
  <2>1. CASE AnswerCompile
    <3>1. Writes(Status(ErrorsOut'), warnings, ErrorsOut')
      BY <1>2, <2>1 DEF AnswerCompile, ErrorsOut
    <3>2. \/ Head(stdout') \in Foreign
          \/ Head(stdout') = AnswerLine(Judgement)'
      BY <1>2, <3>1, Written DEF AnswerLine, Judgement, Outcome
    <3>3. file' = FinalText'
      BY <1>1, <1>2, <2>1 DEF AnswerCompile, FinalText, IInv, TextInv
    <3> QED BY <3>2, <3>3
  <2>2. CASE AnswerVerify
    <3>1. job.kind = "verify" /\ ~unknown' /\ file' = FinalText'
      BY <1>1, <1>2, <2>2 DEF AnswerVerify, FinalText, IInv, TextInv
    <3>2. Writes(Status(ErrorsOut'), warnings, ErrorsOut')
      BY <1>2, <2>2, <3>1 DEF AnswerVerify, ErrorsOut
    <3>3. \/ Head(stdout') \in Foreign
          \/ Head(stdout') = AnswerLine(Judgement)'
      BY <1>2, <3>2, Written DEF AnswerLine, Judgement, Outcome
    <3> QED BY <3>1, <3>3
  <2>3. CASE Throw
    <3>1. Writes("internal_error", <<>>, <<InternalErrorDiagnostic>>)
      BY <2>3 DEF Throw
    <3> QED BY <1>2, <3>1, Written DEF AnswerLine, Exception, Outcome
  <2> QED BY <2>1, <2>2, <2>3
<1>5. TypeInv'
  BY <1>1, <1>2, <1>3 DEF IInv, TypeInv
<1>6. RequestInv' /\ TextInv'
  <2>1. WorkerRequest' = WorkerRequest
    BY <1>2 DEF WorkerRequest
  <2> QED BY <1>1, <1>2, <1>3, <2>1 DEF IInv, RequestInv, TextInv
<1>7. LogInv'
  BY <1>2 DEF IInv, LogInv
<1>8. AnswerInv'
  BY <1>1, <1>4 DEF AnswerInv, Line
<1> QED BY <1>5, <1>6, <1>7, <1>8 DEF IInv

(* Every step of the exchange keeps the invariant.                         *)
LEMMA StepKeeps ==
  ASSUME IInv, ExchangeStep
  PROVE  IInv'
<1>1. CASE \/ RejectRequest \/ QueueFull \/ PoolClosed \/ DeadlinePasses \/ EncodeFails
           \/ RefuseAnswer
           \/ \E panicked \in BOOLEAN : WorkerEnds(panicked)
  BY <1>1, UnansweredKeeps
<1>2. CASE AcceptRequest \/ SendRequest \/ PrintForeign
  BY <1>2, RequestKeeps
<1>3. CASE ReadLine
  BY <1>3, ReadLineKeeps
<1>4. CASE \E m \in Messages : TakeMessage(m)
  BY <1>4, TakeMessageKeeps
<1>5. CASE ElaborateCandidate
  BY <1>5, ElaborateCandidateKeeps
<1>6. CASE AnswerCompile \/ AnswerVerify \/ Throw
  BY <1>6, AnswerKeeps
<1>7. CASE TakeAnswer
  BY <1>7, TakeAnswerKeeps
<1> QED BY <1>1, <1>2, <1>3, <1>4, <1>5, <1>6, <1>7 DEF ExchangeStep

(* The invariant holds in every state of the exchange.                     *)
THEOREM Inductive == ExchangeSpec => []IInv
<1>1. IInv /\ [ExchangeStep]_exchangeVars => IInv'
  BY StepKeeps, StutterKeeps
<1> QED BY <1>1, Initially, PTL DEF ExchangeSpec

(* Every request the server writes is taken by the worker, as the request  *)
(* it is, and every answer of the worker within the length limit by the    *)
(* server, whatever a log or a verdict says (protocol.py, Protocol.lean,   *)
(* process.py _read_message).                                              *)
THEOREM RequestsAndAnswersTaken == ExchangeSpec => []LinesUnderstood
<1>1. ASSUME IInv PROVE LinesUnderstood
  <2>1. stage = "sent" => stdin # <<>>
    BY <1>1 DEF IInv, RequestInv
  <2>2. stage \in {"elaborating", "answered"} => inHand = Some(WorkerRequest)
    BY <1>1 DEF IInv, RequestInv
  <2>3. ASSUME stage = "answered", Fits(Line), Line \notin Foreign PROVE Understood
    <3>1. PICK out \in Outcomes : Line = AnswerLine(out)
      BY <1>1, <2>3, OutcomesTyped DEF IInv, AnswerInv
    <3>2. job \in Jobs
      BY <1>1 DEF IInv, TypeInv
    <3> QED BY <2>3, <3>1, <3>2, AnswerTaken DEF Understood
  <2> QED BY <2>1, <2>2, <2>3 DEF LinesUnderstood
<1> QED BY <1>1, Inductive, PTL

-----------------------------------------------------------------------------
(* The verdicts.                                                           *)

(* A list is empty exactly if nothing is reported.                         *)
LEMMA EmptyList ==
  ASSUME NEW S, NEW s \in Seq(S), NEW messages \in Seq(Messages), NEW severity, NEW text,
         Lists(s, Reported(messages, severity, text))
  PROVE  s = <<>> <=> DOMAIN Reported(messages, severity, text) = {}
<1>1. PICK r : r = Reported(messages, severity, text)
  OBVIOUS
<1>2. Len(s) = Cardinality(DOMAIN r)
  BY <1>1 DEF Lists
<1>3. IsFiniteSet(DOMAIN r)
  <2>1. PICK n \in Nat : n = Len(messages)
    BY LenProperties
  <2>2. DOMAIN r \subseteq 1..n
    BY <1>1, <2>1 DEF Reported
  <2>3. IsFiniteSet(1..n)
    BY FS_Interval
  <2> QED BY <2>2, <2>3, FS_Subset
<1>4. Cardinality(DOMAIN r) = 0 <=> DOMAIN r = {}
  BY <1>3, FS_EmptySet
<1>5. Len(s) = 0 <=> s = <<>>
  BY EmptySeq
<1> QED BY <1>1, <1>2, <1>4, <1>5

LEMMA CheckJudged ==
  ASSUME IInv, Judged("compile")
  PROVE  LET refused == IF job.allowSorry THEN <<>> ELSE Sorries(warnings) IN
         /\ file = "<stdin>" /\ formalLog = <<>>
         /\ body[1].okay <=> errors = <<>> /\ ~unknown /\ refused = <<>>
         /\ body[1].warnings = warnings
         /\ body[1].errors = errors \o (IF unknown THEN <<ImportError>> ELSE <<>>)
                                \o MapSeq(refused, RejectSorry)
<1>1. job.kind = "compile" /\ body[1] = JudgedBody /\ file = FinalText
  BY DEF IInv, AnswerInv, Judged, Some
<1>2. file = "<stdin>" /\ formalLog = <<>> /\ errors \in Seq(Diagnostic)
  BY <1>1 DEF FinalText, IInv, TextInv, TypeInv
<1>3. PICK out \in Outcomes : out = Judgement
  BY OutcomesTyped DEF IInv
<1>4. out.status = Status(ErrorsOut) /\ out.warnings = warnings /\ out.errors = ErrorsOut
  BY <1>3 DEF Judgement, Outcome
<1>5. PICK result : result = DecodeResult(ResultJson(job.id, out))
  OBVIOUS
<1>6. /\ result.status = Status(ErrorsOut) /\ result.warnings = warnings
      /\ result.errors = ErrorsOut
  <2>1. job.id \in Ids
    BY RequestShape DEF IInv, TypeInv, Ids
  <2> QED BY <1>4, <1>5, <2>1, ResultBack
<1>7. body[1] = ResultBody(result, job.allowSorry)
  BY <1>1, <1>3, <1>5 DEF JudgedBody, AnswerLine
<1>8. PICK rejected : rejected = Sorries(warnings)
  OBVIOUS
<1>9. /\ body[1].okay <=> Status(ErrorsOut) = "ok" /\ (job.allowSorry \/ rejected = <<>>)
      /\ body[1].warnings = warnings
      /\ body[1].errors =
           ErrorsOut \o IF job.allowSorry THEN <<>> ELSE MapSeq(rejected, RejectSorry)
  <2>1. PICK okay : okay = (result.status = "ok" /\ (job.allowSorry \/ rejected = <<>>))
    OBVIOUS
  <2>2. PICK all : all = result.errors \o IF job.allowSorry THEN <<>>
                                            ELSE MapSeq(rejected, RejectSorry)
    OBVIOUS
  <2>3. body[1] = [http |-> 200, okay |-> okay, warnings |-> result.warnings, errors |-> all]
    BY <1>6, <1>7, <1>8, <2>1, <2>2 DEF ResultBody
  <2>4. body[1].okay = okay /\ body[1].warnings = result.warnings /\ body[1].errors = all
    BY <2>3
  <2> QED BY <1>6, <2>1, <2>2, <2>4
<1>10. Status(ErrorsOut) = "ok" <=> errors = <<>> /\ ~unknown
  <2>1. ErrorsOut = <<>> <=> errors = <<>> /\ ~unknown
    <3>1. Append(errors, ImportError) # <<>>
      BY <1>2
    <3> QED BY <3>1 DEF ErrorsOut
  <2> QED BY <2>1 DEF Status
<1>11. ErrorsOut = errors \o (IF unknown THEN <<ImportError>> ELSE <<>>)
  <2>1. Append(errors, ImportError) = errors \o <<ImportError>> /\ errors \o <<>> = errors
    BY <1>2
  <2> QED BY <2>1 DEF ErrorsOut
<1>12. MapSeq(<<>>, RejectSorry) = <<>>
  BY DEF MapSeq
<1> QED BY <1>2, <1>8, <1>9, <1>10, <1>11, <1>12

(* A check is okay exactly if Lean reported no error, knew the imports and *)
(* reported no sorry that is not allowed; and what the client is told is   *)
(* everything that was reported, once and in order (http.py _result_body,  *)
(* Compiler.lean diagnosticsFromMessages).                                 *)
THEOREM ChecksExact == ExchangeSpec => []CheckExact
<1>1. ASSUME IInv, Judged("compile")
      PROVE  /\ Lists(errors, Reported(log, "error", "<stdin>"))
             /\ Lists(warnings, Reported(log, "warning", "<stdin>"))
             /\ errors = <<>> <=> DOMAIN Reported(log, "error", "<stdin>") = {}
  <2>1. file = "<stdin>" /\ formalLog = <<>>
    BY <1>1, CheckJudged
  <2>2. errors \in Seq(Diagnostic) /\ log \in Seq(Messages)
    BY <1>1 DEF IInv, TypeInv
  <2>3. /\ WarningsAgree(log, "<stdin>", seenKeys, warnings)
        /\ ErrorsAgree(<<>>, log, "<stdin>", errors)
    BY <1>1, <2>1 DEF IInv, LogInv
  <2>4. Lists(errors, Reported(log, "error", "<stdin>"))
    BY <2>2, <2>3, OneTextOnly
  <2> QED BY <2>2, <2>3, <2>4, EmptyList DEF WarningsAgree
<1>2. ASSUME IInv PROVE CheckExact
  BY <1>1, <1>2, CheckJudged DEF CheckExact
<1> QED BY <1>2, Inductive, PTL

LEMMA VerificationJudged ==
  ASSUME IInv, Judged("verify")
  PROVE  /\ file = "<content>"
         /\ body[1].okay <=> errors = <<>> /\ verdict = NoVerdict
         /\ body[1].errors = MapSeq(errors, MessageOf)
         /\ body[1].warnings = MapSeq(warnings, MessageOf)
         /\ body[1].toolErrors = verdict.toolErrors /\ body[1].failed = verdict.failed
<1>1. job.kind = "verify" /\ body[1] = JudgedBody /\ file = FinalText
  BY DEF IInv, AnswerInv, Judged, Some
<1>2. file = "<content>" /\ ErrorsOut = errors /\ verdict \in VerdictType
  BY <1>1 DEF FinalText, ErrorsOut, IInv, TextInv, TypeInv
<1>3. PICK out \in Outcomes : out = Judgement
  BY OutcomesTyped DEF IInv
<1>4. /\ out.status = Status(errors) /\ out.warnings = warnings /\ out.errors = errors
      /\ out.toolErrors = verdict.toolErrors /\ out.failed = verdict.failed
  BY <1>2, <1>3 DEF Judgement, Outcome
<1>5. body[1] = VerifyResultBody(out)
  <2>1. job.id \in Ids
    BY RequestShape DEF IInv, TypeInv, Ids
  <2>2. DecodeVerifyResult(VerifyResultJson(job.id, out)) = out
    BY <2>1, VerifyResultBack
  <2> QED BY <1>1, <1>3, <2>2 DEF JudgedBody, AnswerLine
<1>6. /\ body[1].okay <=> Status(errors) = "ok" /\ errors = <<>>
                            /\ verdict.toolErrors = <<>> /\ verdict.failed = <<>>
      /\ body[1].errors = MapSeq(errors, MessageOf)
      /\ body[1].warnings = MapSeq(warnings, MessageOf)
      /\ body[1].toolErrors = verdict.toolErrors /\ body[1].failed = verdict.failed
  BY <1>4, <1>5 DEF VerifyResultBody
<1>7. Status(errors) = "ok" <=> errors = <<>>
  BY DEF Status
<1>8. verdict = NoVerdict <=> verdict.toolErrors = <<>> /\ verdict.failed = <<>>
  BY <1>2 DEF VerdictType, NoVerdict
<1> QED BY <1>2, <1>6, <1>7, <1>8

(* A verification is okay exactly if Lean reported no error in the formal  *)
(* statement or the candidate and the verifier found nothing; all of it    *)
(* reaches the client (Main.lean, http.py _verify_result_body).            *)
THEOREM VerdictsDelivered == ExchangeSpec => []VerdictDelivered
<1>1. ASSUME IInv, Judged("verify") PROVE VerdictDelivered
  <2> DEFINE n == Cardinality(DOMAIN Reported(formalLog, "error", "<formal_statement>"))
  <2>1. PICK stated, reported :
          /\ stated = Reported(formalLog, "error", "<formal_statement>")
          /\ reported = Reported(log, "error", "<content>")
    OBVIOUS
  <2>2. /\ errors \in Seq(Diagnostic) /\ log \in Seq(Messages) /\ formalLog \in Seq(Messages)
        /\ file = "<content>"
    BY <1>1, VerificationJudged DEF IInv, TypeInv
  <2>3. PICK k \in Nat : k = Len(errors)
    BY <2>2, LenProperties
  <2>4. PICK i \in Nat : i = n /\ i <= k
    BY <1>1, <2>3 DEF IInv, LogInv, ErrorsAgree
  <2>5. PICK a, b : /\ a = SubSeq(errors, 1, i) /\ b = SubSeq(errors, i + 1, k)
    OBVIOUS
  <2>6. Lists(a, stated) /\ Lists(b, reported) /\ Lists(warnings, Reported(log, "warning", "<content>"))
    BY <1>1, <2>1, <2>2, <2>3, <2>4, <2>5 DEF IInv, LogInv, ErrorsAgree, WarningsAgree
  <2>7. errors = <<>> <=> DOMAIN stated = {} /\ DOMAIN reported = {}
    <3>1. PICK c \in Nat : k = i + c
      <4>1. k - i \in Nat /\ k = i + (k - i)
        BY <2>4
      <4> QED BY <4>1
    <3>2. /\ a \in Seq(Diagnostic) /\ Len(a) = i
          /\ b \in Seq(Diagnostic) /\ Len(b) = c
      <4>1. b \in Seq(Diagnostic) /\ Len(b) = c
        BY <2>2, <2>3, <2>5, <3>1, Suffix
      <4>2. a \in Seq(Diagnostic) /\ Len(a) = i
        <5>1. \A j \in 1..i : errors[j] \in Diagnostic
          BY <2>2, <2>3, <2>4, ElementOfSeq
        <5> QED BY <2>5, <5>1
      <4> QED BY <4>1, <4>2
    <3>3. a = <<>> <=> DOMAIN stated = {}
      BY <2>1, <2>2, <2>6, <3>2, EmptyList
    <3>4. b = <<>> <=> DOMAIN reported = {}
      BY <2>1, <2>2, <2>6, <3>2, EmptyList
    <3>5. (a = <<>> <=> i = 0) /\ (b = <<>> <=> c = 0) /\ (errors = <<>> <=> k = 0)
      BY <2>2, <2>3, <3>2, EmptySeq
    <3>6. k = 0 <=> i = 0 /\ c = 0
      BY <3>1
    <3> QED BY <3>3, <3>4, <3>5, <3>6
  <2> HIDE DEF n
  <2> QED BY <1>1, <2>1, <2>3, <2>4, <2>5, <2>6, <2>7, VerificationJudged
          DEF VerdictDelivered, n
<1>2. ASSUME IInv PROVE VerdictDelivered
  BY <1>1, <1>2 DEF VerdictDelivered
<1> QED BY <1>2, Inductive, PTL
=============================================================================
