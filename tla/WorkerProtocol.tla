--------------------------- MODULE WorkerProtocol ---------------------------
(***************************************************************************)
(* The lines between the server (protocol.py) and a Lean worker            *)
(* (LeanServerWorker/Protocol.lean): how each end writes its messages and  *)
(* what it accepts from the other.  A line is the JSON value on it, a pair *)
(* of a type and a content; what a string says is a model value.           *)
(***************************************************************************)
EXTENDS Integers, Sequences, SequencesExt

Null == <<"null", 0>>
Text(s) == <<"string", s>>
Integer(n) == <<"integer", n>>
Float(x) == <<"float", x>>
Bool(b) == <<"bool", b>>
Array(s) == <<"array", s>>
Object(f) == <<"object", f>>

Is(type, v) == v[1] = type
Content(v) == v[2]

(* value.get(field); an absent field reads as null. *)
Get(v, field) == IF field \in DOMAIN Content(v) THEN Content(v)[field] ELSE Null

MapSeq(s, Op(_)) == [i \in DOMAIN s |-> Op(s[i])]

(* What may be missing (Option, None): a sequence of at most one. *)
Some(x) == <<x>>
Nothing == <<>>
OptionJson(option, Op(_)) == IF option = Nothing THEN Null ELSE Op(option[1])

-----------------------------------------------------------------------------
(* Requests: to_dict() in Python, parseRequest in Lean.                    *)

VerifyDict_V1(r) ==
  Object([protocol_version |-> Integer(1), type |-> Text("verify"), request_id |-> Text(r.id),
          formal_statement |-> Text(r.formal), content |-> Text(r.content),
          use_def_eq |-> Bool(r.useDefEq)])

CompileDict(r) ==
  Object([protocol_version |-> Integer(1), type |-> Text("compile"), request_id |-> Text(r.id),
          code |-> Text(r.code)])

VerifyDict(r) ==
  Object([protocol_version |-> Integer(2), type |-> Text("verify"), request_id |-> Text(r.id),
          formal_statement |-> Text(r.formal), content |-> Text(r.content),
          use_def_eq |-> Bool(r.useDefEq)])

ToDict(r) == IF r.kind = "compile" THEN CompileDict(r) ELSE VerifyDict(r)

(* getObjVal?, then getNat?, getStr? or getBool? *)
Has(v, field, type) == field \in DOMAIN Content(v) /\ Is(type, Content(v)[field])

Speaks(v, version, type) ==
  Get(v, "protocol_version") = Integer(version) /\ Get(v, "type") = Text(type)

IsCompile(v) == Speaks(v, 1, "compile") /\ Has(v, "code", "string")

IsVerify(v) ==
  /\ Speaks(v, 2, "verify")
  /\ Has(v, "formal_statement", "string") /\ Has(v, "content", "string")
  /\ "use_def_eq" \in DOMAIN Content(v) => Is("bool", Get(v, "use_def_eq"))

(* Any other line is reported on stderr and gets no answer. *)
Parses(v) ==
  /\ Is("object", v) /\ Has(v, "protocol_version", "integer") /\ Has(v, "type", "string")
  /\ Has(v, "request_id", "string") /\ Content(Get(v, "request_id")) # ""
  /\ IsCompile(v) \/ IsVerify(v)

ParseRequest(v) ==
  LET field(f) == Content(Get(v, f)) IN
  IF IsCompile(v)
    THEN [kind |-> "compile", id |-> field("request_id"), code |-> field("code")]
    ELSE [kind |-> "verify", id |-> field("request_id"),
          formal |-> field("formal_statement"), content |-> field("content"),
          useDefEq |-> "use_def_eq" \in DOMAIN Content(v) => field("use_def_eq")]

-----------------------------------------------------------------------------
(* Answers, as Lean writes them.                                           *)

PositionJson(p) == Object([line |-> Integer(p.line), column |-> Integer(p.column)])

DiagnosticJson(d) ==
  Object([severity |-> Text(d.severity), message |-> Text(d.message),
          file_name |-> OptionJson(d.fileName, Text),
          start |-> OptionJson(d.start, PositionJson), end |-> OptionJson(d.end, PositionJson)])

DiagnosticsJson(ds) == Array(MapSeq(ds, DiagnosticJson))
StringsJson(ss) == Array(MapSeq(ss, Text))

ResultJson(id, out) ==
  Object([protocol_version |-> Integer(1), type |-> Text("result"), request_id |-> Text(id),
          status |-> Text(out.status), compile_ms |-> Float(out.compileMs),
          warnings |-> DiagnosticsJson(out.warnings),
          errors |-> DiagnosticsJson(out.errors)])

VerifyResultJson(id, out) ==
  Object([protocol_version |-> Integer(2), type |-> Text("verify_result"), request_id |-> Text(id),
          status |-> Text(out.status), compile_ms |-> Float(out.compileMs),
          formal_statement_ms |-> Float(out.formalMs),
          candidate_ms |-> Float(out.candidateMs),
          declarations_ms |-> Float(out.declarationsMs),
          warnings |-> DiagnosticsJson(out.warnings),
          errors |-> DiagnosticsJson(out.errors),
          tool_errors |-> StringsJson(out.toolErrors),
          failed_declarations |-> StringsJson(out.failed)])

ReadyJson ==
  Object([protocol_version |-> Integer(1), type |-> Text("ready"), lean_version |-> Text("4.30.0")])

-----------------------------------------------------------------------------
(* decode_worker_message: the answers the server takes, and as what.       *)

IsPosition(v) ==
  \/ v = Null
  \/ /\ Is("object", v)
     /\ Is("integer", Get(v, "line")) /\ Is("integer", Get(v, "column"))

IsDiagnostic(v) ==
  /\ Is("object", v)
  /\ Get(v, "severity") \in {Text("warning"), Text("error")}
  /\ Is("string", Get(v, "message"))
  /\ Is("string", Get(v, "file_name")) \/ Get(v, "file_name") = Null
  /\ IsPosition(Get(v, "start")) /\ IsPosition(Get(v, "end"))

AreDiagnostics(v) == Is("array", v) /\ \A d \in ToSet(Content(v)) : IsDiagnostic(d)

IsString(v) == Is("string", v)

AreStrings(v) == Is("array", v) /\ \A s \in ToSet(Content(v)) : IsString(s)

RequiredNumber(v, field) ==
  (Is("integer", Get(v, field)) \/ Is("float", Get(v, field))) /\ Content(Get(v, field)) >= 0

IsAnswer(v) ==
  /\ IsString(Get(v, "request_id")) /\ Content(Get(v, "request_id")) # ""
  /\ Get(v, "status") \in {Text("ok"), Text("compile_error"), Text("internal_error")}
  /\ RequiredNumber(v, "compile_ms")
  /\ AreDiagnostics(Get(v, "warnings")) /\ AreDiagnostics(Get(v, "errors"))

IsReady(v) ==
  Is("object", v) /\ Speaks(v, 1, "ready") /\ IsString(Get(v, "lean_version"))

IsResult(v) == Is("object", v) /\ Speaks(v, 1, "result") /\ IsAnswer(v)

IsVerifyResult(v) ==
  /\ Is("object", v) /\ Speaks(v, 2, "verify_result") /\ IsAnswer(v)
  /\ RequiredNumber(v, "formal_statement_ms") /\ RequiredNumber(v, "candidate_ms")
  /\ RequiredNumber(v, "declarations_ms")
  /\ AreStrings(Get(v, "tool_errors")) /\ AreStrings(Get(v, "failed_declarations"))

Option(v, Op(_)) == IF v = Null THEN Nothing ELSE Some(Op(v))

DecodePosition(v) == [line |-> Content(Get(v, "line")), column |-> Content(Get(v, "column"))]

DecodeDiagnostic(v) ==
  [severity |-> Content(Get(v, "severity")), message |-> Content(Get(v, "message")),
   fileName |-> Option(Get(v, "file_name"), Content),
   start |-> Option(Get(v, "start"), DecodePosition),
   end |-> Option(Get(v, "end"), DecodePosition)]

DecodeDiagnostics(v) == MapSeq(Content(v), DecodeDiagnostic)
DecodeStrings(v) == MapSeq(Content(v), Content)

DecodeResult(v) ==
  [status |-> Content(Get(v, "status")), compileMs |-> Content(Get(v, "compile_ms")),
   warnings |-> DecodeDiagnostics(Get(v, "warnings")),
   errors |-> DecodeDiagnostics(Get(v, "errors"))]

DecodeVerifyResult(v) ==
  [status |-> Content(Get(v, "status")), compileMs |-> Content(Get(v, "compile_ms")),
   formalMs |-> Content(Get(v, "formal_statement_ms")),
   candidateMs |-> Content(Get(v, "candidate_ms")),
   declarationsMs |-> Content(Get(v, "declarations_ms")),
   warnings |-> DecodeDiagnostics(Get(v, "warnings")),
   errors |-> DecodeDiagnostics(Get(v, "errors")),
   toolErrors |-> DecodeStrings(Get(v, "tool_errors")),
   failed |-> DecodeStrings(Get(v, "failed_declarations"))]
=============================================================================
