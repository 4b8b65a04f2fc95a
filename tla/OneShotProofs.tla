---------------------------- MODULE OneShotProofs ----------------------------
(***************************************************************************)
(* Safety of the one-process-per-compilation backends for any number of    *)
(* calls and any output.                                                   *)
(*                                                                         *)
(* IInv is the inductive invariant.  GroupInv and CallInv say what the     *)
(* code has done to the process group while a call is in progress, EndInv  *)
(* what that leaves when none is, AnswerInv what an answer that has been   *)
(* returned was made of.                                                   *)
(***************************************************************************)
EXTENDS OneShot, SequenceTheorems, TLAPS

Active(c) == call[c] \notin {"idle"} \cup CallEnded

(* Lean outlives the leader only if that one failed.                       *)
GroupInv ==
  /\ child # "none" => leader # "none"
  /\ child = "live" /\ leader # "live" => code = "nonzero"

CallInv ==
  /\ \A c, d \in Calls : Active(c) /\ Active(d) => c = d
  /\ (\E k \in Closers : closer[k] # "idle") => user = "cli" /\ \A c \in Calls : ~Active(c)
  /\ user = "legacy" => ~process
  /\ \A c \in Calls :
       /\ Active(c) => leader # "none"
       /\ call[c] \in {"starting", "aborting"} => user = "cli"
       /\ user = "cli" /\ call[c] \in {"communicating", "killing"} => process
       /\ call[c] \in {"aborting", "killing"} => leader \in {"zombie", "reaped"}
       /\ call[c] = "killing" => child # "live"

EndInv ==
  /\ (\A c \in Calls : ~Active(c)) =>
       /\ leader = "live" => Unsent /\ (user = "cli" => process)
       /\ child = "live" => user = "cli" \/ Unsent
       /\ ~process /\ (\A c \in Calls : call[c] # "abandoned") =>
            leader # "zombie" \/ (user = "legacy" /\ Unsent)
  /\ (\E k \in Closers : closer[k] = "closed") => ~process

Clean == IF user = "cli" THEN {"warning", "information"}
                         ELSE {"warning", "information", "notObject"}

AnswerInv ==
  \A c \in Calls :
    call[c] = "returned" =>
      /\ result[c].status # "ok" => result[c].errors # {}
      /\ user = "cli" /\ result[c].status = "compile_error" => result[c].errors = {"error"}
      /\ (\A d \in Calls \ {c} : call[d] = "idle") /\ result[c].status = "ok" =>
           /\ leader = "reaped" /\ code = "zero" /\ ~stderr /\ child # "live"
           /\ ToSet(stdout) \subseteq Clean

IInv == TypeOK /\ GroupInv /\ CallInv /\ EndInv /\ AnswerInv
-----------------------------------------------------------------------------
(* What the output means.                                                  *)

LEMMA OutputFacts ==
  ASSUME TypeOK
  PROVE  /\ ToSet(stdout) \subseteq Lines
         /\ Parsed \subseteq ToSet(stdout)
         /\ ~Malformed => Parsed = ToSet(stdout)
<1>1. stdout \in Seq(Lines) /\ DOMAIN stdout = 1..Len(stdout) /\ Len(stdout) \in Nat
  BY LenProperties DEF TypeOK
<1>2. \A i \in DOMAIN stdout : stdout[i] \in Lines
  BY <1>1, ElementOfSeq
<1>3. ASSUME ~Malformed, NEW i \in DOMAIN stdout PROVE stdout[i] \in Parsed
  <2>1. \A k \in 1..i : k \in DOMAIN stdout
    BY <1>1
  <2>2. \A k \in 1..i : stdout[k] \notin Unparsable
    BY <1>3, <2>1 DEF Malformed, ToSet
  <2> QED BY <2>2 DEF Parsed
<1> QED BY <1>2, <1>3 DEF ToSet, Parsed

LEMMA CliHonest ==
  ASSUME TypeOK, "notUtf8" \notin ToSet(stdout)
  PROVE  /\ CliResult \in Results
         /\ CliResult.status # "ok" => CliResult.errors # {}
         /\ CliResult.status = "compile_error" => CliResult.errors = {"error"}
         /\ CliResult.status = "ok" =>
              code = "zero" /\ ~stderr /\ ToSet(stdout) \subseteq {"warning", "information"}
<1>1. stderr \in BOOLEAN /\ code \in {"zero", "nonzero"}
  BY DEF TypeOK
<1>2. CliErrors \subseteq {"error", "malformed", "stderr"}
  BY DEF CliErrors, StderrError
<1>3. /\ Malformed \/ stderr => CliErrors # {}
      /\ ~Malformed /\ ~stderr => CliErrors = ToSet(stdout) \cap {"error"}
  BY OutputFacts DEF CliErrors, StderrError
<1>4. ~Malformed /\ CliErrors = {} /\ ~stderr => ToSet(stdout) \subseteq {"warning", "information"}
  <2> SUFFICES ASSUME ~Malformed, CliErrors = {}, ~stderr, NEW line \in ToSet(stdout)
               PROVE  line \in {"warning", "information"}
    OBVIOUS
  <2>1. line \in Lines /\ line # "error" /\ line \notin Unparsable /\ line # "notUtf8"
    BY <1>3, OutputFacts DEF Malformed
  <2> QED BY <2>1 DEF Lines, Unparsable
<1>5. CASE Malformed \/ stderr \/ (code # "zero" /\ CliErrors = {})
  <2>1. CliResult = [status |-> "internal_error", errors |-> OrExit(CliErrors)]
    BY <1>5 DEF CliResult
  <2>2. OrExit(CliErrors) # {} /\ OrExit(CliErrors) \subseteq {"error", "malformed", "stderr", "exit"}
    BY <1>2, <1>3, <1>5 DEF OrExit
  <2> QED BY <2>1, <2>2 DEF Results
<1>6. CASE ~(Malformed \/ stderr \/ (code # "zero" /\ CliErrors = {})) /\ CliErrors # {}
  <2>1. CliResult = [status |-> "compile_error", errors |-> CliErrors] /\ CliErrors = {"error"}
    BY <1>3, <1>6 DEF CliResult, OrExit
  <2> QED BY <2>1 DEF Results
<1>7. CASE ~(Malformed \/ stderr \/ (code # "zero" /\ CliErrors = {})) /\ CliErrors = {}
  <2>1. CliResult = [status |-> "ok", errors |-> {}] /\ code = "zero"
    BY <1>1, <1>7 DEF CliResult, OrExit
  <2> QED BY <1>4, <1>7, <2>1 DEF Results
<1> QED BY <1>5, <1>6, <1>7

LEMMA LegacyHonest ==
  ASSUME TypeOK, "notUtf8" \notin ToSet(stdout)
  PROVE  /\ LegacyResult \in Results
         /\ LegacyResult.status # "ok" => LegacyResult.errors # {}
         /\ LegacyResult.status = "ok" =>
              /\ code = "zero" /\ ~stderr
              /\ ToSet(stdout) \subseteq {"warning", "information", "notObject"}
<1>1. LegacyErrors \subseteq {"error", "notJson", "stderr"} /\ (stderr => LegacyErrors # {})
  BY DEF LegacyErrors, StderrError
<1>2. LegacyErrors = {} => ToSet(stdout) \subseteq {"warning", "information", "notObject"}
  BY OutputFacts DEF LegacyErrors, Lines
<1>3. CASE code = "zero" /\ LegacyErrors = {}
  <2>1. LegacyResult = [status |-> "ok", errors |-> {}]
    BY <1>3 DEF LegacyResult, OrExit
  <2> QED BY <1>1, <1>2, <1>3, <2>1 DEF Results, TypeOK
<1>4. CASE ~(code = "zero" /\ LegacyErrors = {})
  <2>1. LegacyResult = [status |-> "compile_error", errors |-> OrExit(LegacyErrors)]
    BY <1>4 DEF LegacyResult
  <2>2. OrExit(LegacyErrors) # {} /\ OrExit(LegacyErrors) \subseteq {"error", "notJson", "stderr", "exit"}
    BY <1>1, <1>4 DEF OrExit
  <2> QED BY <2>1, <2>2 DEF Results
<1> QED BY <1>3, <1>4

-----------------------------------------------------------------------------
(* The process group.                                                      *)

LEMMA GroupKeeps ==
  ASSUME IInv, Fork \/ Prints \/ ChildExits \/ LeaderDies \/ LeaderReaped
  PROVE  IInv'
<1> USE DEF IInv, groupVars, outputVars
<1>0. /\ GroupOnly /\ leader # "none" /\ leader' # "none"
      /\ leader = "reaped" /\ child # "live" => FALSE
  BY DEF Fork, Prints, ChildExits, LeaderDies, LeaderReaped, GroupInv
<1>1. TypeOK'
  <2>1. CASE Prints
    <3>1. ASSUME NEW line \in Lines, Len(stdout) < MaxLines, stdout' = Append(stdout, line)
          PROVE  stdout' \in Seq(Lines) /\ Len(stdout') <= MaxLines
      BY <3>1, AppendProperties, LenProperties, OneShotAssumption DEF TypeOK
    <3> QED BY <2>1, <3>1 DEF Prints, GroupOnly, TypeOK
  <2>2. CASE Fork \/ ChildExits \/ LeaderDies \/ LeaderReaped
    BY <2>2 DEF Fork, ChildExits, LeaderDies, LeaderReaped, GroupOnly, TypeOK
  <2> QED BY <2>1, <2>2
<1>2. GroupInv'
  BY DEF Fork, Prints, ChildExits, LeaderDies, LeaderReaped, GroupInv, TypeOK
<1>3. CallInv'
  BY <1>0 DEF Fork, Prints, ChildExits, LeaderDies, LeaderReaped, GroupOnly, CallInv, Active
<1>4. EndInv'
  BY <1>0 DEF Fork, Prints, ChildExits, LeaderDies, LeaderReaped, GroupOnly, EndInv, Active,
              Unsent, GroupInv, Eof, TypeOK
<1>5. AnswerInv'
  BY <1>0 DEF GroupOnly, AnswerInv
<1> QED BY <1>1, <1>2, <1>3, <1>4, <1>5
-----------------------------------------------------------------------------
(* The calls.                                                              *)

Places == {"starting", "aborting", "communicating", "killing"} \cup CallEnded

(* A call that begins or is under way is alone, and nothing is closed.     *)
LEMMA CallMoves ==
  ASSUME IInv, NEW c \in Calls, NEW place \in Places, Usable \/ Active(c),
         call' = [call EXCEPT ![c] = place], UNCHANGED <<user, closer>>
  PROVE  /\ call' \in [Calls -> {"idle"} \cup Places]
         /\ call'[c] = place /\ \A d \in Calls \ {c} : call'[d] = call[d] /\ ~Active(d)
         /\ \A k \in Closers : closer'[k] = "idle"
<1> USE DEF IInv
<1>1. call'[c] = place /\ \A d \in Calls \ {c} : call'[d] = call[d]
  BY DEF TypeOK
<1>2. call' \in [Calls -> {"idle"} \cup Places]
  BY DEF TypeOK, Places, CallEnded
<1>3. \A d \in Calls \ {c} : ~Active(d)
  BY DEF Usable, CallInv, Active, CallEnded
<1>4. \A k \in Closers : closer'[k] = "idle"
  BY DEF Usable, CallInv, Active
<1> QED BY <1>1, <1>2, <1>3, <1>4

(* What IInv asks of such a step.                                          *)
LEMMA CallStepKeeps ==
  ASSUME IInv, NEW c \in Calls, NEW place \in Places, Usable \/ Active(c),
         call' = [call EXCEPT ![c] = place], UNCHANGED <<user, closer>>,
         NEW value \in Results,
         result' = result \/ result' = [result EXCEPT ![c] = value],
         place = "returned" => result' = [result EXCEPT ![c] = value],
         leader' \in {"none", "live", "zombie", "reaped"}, code' \in {"zero", "nonzero"},
         child' \in {"none", "live", "gone"}, stderr' \in BOOLEAN, process' \in BOOLEAN,
         stdout' \in Seq(Lines), Len(stdout') <= MaxLines, GroupInv',
         \* CallInv
         user = "legacy" => ~process',
         place \notin CallEnded => leader' # "none",
         place \in {"starting", "aborting"} => user = "cli",
         user = "cli" /\ place \in {"communicating", "killing"} => process',
         place \in {"aborting", "killing"} => leader' \in {"zombie", "reaped"},
         place = "killing" => child' # "live",
         \* EndInv
         place \in CallEnded =>
           /\ leader' = "live" => place = "unsent" /\ (user = "cli" => process')
           /\ child' = "live" => user = "cli" \/ place = "unsent"
           /\ ~process' /\ place # "abandoned" =>
                \/ leader' # "zombie" \/ (user = "legacy" /\ place = "unsent")
                \/ \E d \in Calls \ {c} : call[d] = "abandoned",
         \* AnswerInv
         place = "returned" =>
           /\ value.status # "ok" => value.errors # {}
           /\ user = "cli" /\ value.status = "compile_error" => value.errors = {"error"}
           /\ value.status = "ok" =>
                /\ leader' = "reaped" /\ code' = "zero" /\ ~stderr' /\ child' # "live"
                /\ ToSet(stdout') \subseteq Clean
  PROVE  IInv'
<1>0. /\ call' \in [Calls -> {"idle"} \cup Places]
      /\ call'[c] = place /\ \A d \in Calls \ {c} : call'[d] = call[d] /\ ~Active(d)
      /\ \A k \in Closers : closer'[k] = "idle"
  BY CallMoves
<1> USE DEF IInv
<1>1. TypeOK'
  BY <1>0 DEF TypeOK, Places
<1>2. CallInv'
  BY <1>0 DEF CallInv, Active, CallEnded
<1>3. EndInv'
  <2>1. ASSUME \A d \in Calls : ~Active(d)' PROVE place \in CallEnded
    BY <1>0, <2>1 DEF Active, Places
  <2>2. ASSUME \A d \in Calls : call'[d] # "abandoned" PROVE \A d \in Calls \ {c} : call[d] # "abandoned"
    BY <1>0, <2>2
  <2>3. place = "unsent" => Unsent'
    BY <1>0 DEF Unsent
  <2> QED BY <1>0, <2>1, <2>2, <2>3 DEF EndInv
<1>4. AnswerInv'
  <2>1. \A d \in Calls \ {c} : result'[d] = result[d]
    BY DEF TypeOK
  <2>2. place = "returned" => result'[c] = value
    BY DEF TypeOK
  <2>3. c \in Calls /\ call'[c] # "idle"
    BY <1>0 DEF Places, CallEnded
  <2>4. ASSUME NEW d \in Calls \ {c}, call'[d] = "returned"
        PROVE  /\ result'[d].status # "ok" => result'[d].errors # {}
               /\ user' = "cli" /\ result'[d].status = "compile_error" => result'[d].errors = {"error"}
               /\ ~\A e \in Calls \ {d} : call'[e] = "idle"
    BY <1>0, <2>1, <2>3, <2>4 DEF AnswerInv
  <2> QED BY <1>0, <2>2, <2>4 DEF AnswerInv, Clean
<1> QED BY <1>1, <1>2, <1>3, <1>4

LEMMA StaysTyped ==
  ASSUME TypeOK
  PROVE  /\ leader \in {"none", "live", "zombie", "reaped"} /\ code \in {"zero", "nonzero"}
         /\ child \in {"none", "live", "gone"} /\ stderr \in BOOLEAN /\ process \in BOOLEAN
         /\ stdout \in Seq(Lines) /\ Len(stdout) <= MaxLines /\ NoResult \in Results
         /\ user \in {"cli", "legacy"}
BY DEF TypeOK, NoResult, Results

(* Calls that begin.                                                       *)
LEMMA BeginKeeps ==
  ASSUME IInv, NEW c \in Calls, RefuseJob(c) \/ StartProcess(c) \/ SpawnFails(c)
  PROVE  IInv'
<1> USE DEF IInv, groupVars, outputVars, Ends, Goes
<1>0. /\ Usable /\ call[c] = "idle" /\ TypeOK
      /\ \A d \in Calls : ~Active(d) /\ call[d] # "abandoned" /\ call[d] # "unsent"
  BY DEF RefuseJob, StartProcess, SpawnFails, Usable, Active, CallEnded
<1>1. leader # "live" /\ (child = "live" => user = "cli") /\ (~process => leader # "zombie")
  BY <1>0 DEF EndInv, Unsent
<1>2. CASE RefuseJob(c)
  <2>1. "raised" \in Places /\ "raised" \in CallEnded /\ GroupInv'
    BY <1>2 DEF RefuseJob, Places, CallEnded, GroupInv
  <2>2. /\ call' = [call EXCEPT ![c] = "raised"] /\ result' = [result EXCEPT ![c] = NoResult]
        /\ UNCHANGED <<leader, code, child, stdout, stderr, user, closer, process>>
        /\ user = "legacy" => ~process
    BY <1>2 DEF RefuseJob, CallInv
  <2> QED BY <1>0, <1>1, <2>1, <2>2, StaysTyped, CallStepKeeps, ZenonT(40)
<1>3. CASE StartProcess(c)
  <2> USE DEF StartProcess
  <2>1. PICK place \in {"starting", "communicating"} :
          /\ call' = [call EXCEPT ![c] = place]
          /\ place = IF user = "cli" THEN "starting" ELSE "communicating"
    BY <1>3
  <2>2. /\ place \in Places /\ place \notin CallEnded
        /\ GroupInv' /\ stdout' \in Seq(Lines) /\ Len(stdout') <= MaxLines
    BY <1>3, <2>1, OneShotAssumption DEF Places, CallEnded, GroupInv
  <2>3. user = "legacy" => ~process
    BY DEF CallInv
  <2> QED BY <1>0, <1>3, <2>1, <2>2, <2>3, StaysTyped, CallStepKeeps
<1>4. CASE SpawnFails(c)
  <2> USE DEF SpawnFails
  <2>1. CASE user = "cli"
    <3>1. "raised" \in Places /\ "raised" \in CallEnded /\ GroupInv'
      BY <1>4 DEF Places, CallEnded, GroupInv
    <3> QED BY <1>0, <1>1, <1>4, <2>1, <3>1, StaysTyped, CallStepKeeps DEF CallInv
  <2>2. CASE user = "legacy"
    <3>1. "returned" \in Places /\ "returned" \in CallEnded /\ GroupInv'
      BY <1>4 DEF Places, CallEnded, GroupInv
    <3>2. /\ [status |-> "compile_error", errors |-> {"start"}] \in Results
          /\ user = "legacy" => ~process
      BY DEF Results, CallInv
    <3> QED BY <1>0, <1>1, <1>4, <2>2, <3>1, <3>2, StaysTyped, CallStepKeeps, ZenonT(40)
  <2> QED BY <2>1, <2>2 DEF TypeOK
<1> QED BY <1>2, <1>3, <1>4

(* Calls that go on, and the first cancellation or the timeout.            *)
LEMMA MiddleKeeps ==
  ASSUME IInv, NEW c \in Calls, Connected(c) \/ CancelSpawn(c) \/ CancelCall(c) \/ TimesOut(c)
  PROVE  IInv'
<1> USE DEF IInv, groupVars, outputVars, Goes
<1>0. Active(c) /\ TypeOK
  BY DEF Connected, CancelSpawn, CancelCall, TimesOut, Active, CallEnded
<1> leader # "none"
  BY <1>0 DEF CallInv
<1>1. CASE Connected(c)
  <2>1. "communicating" \in Places /\ "communicating" \notin CallEnded /\ GroupInv' /\ user = "cli"
    BY <1>1 DEF Connected, Places, CallEnded, GroupInv, CallInv
  <2> QED BY <1>0, <1>1, <2>1, StaysTyped, CallStepKeeps DEF Connected
<1>2. CASE CancelSpawn(c)
  <2> USE DEF CancelSpawn
  <2>1. "aborting" \in Places /\ "aborting" \notin CallEnded /\ user = "cli"
    BY <1>2 DEF Places, CallEnded, CallInv
  <2>2. /\ leader' \in {"zombie", "reaped"} /\ code' \in {"zero", "nonzero"} /\ child' = child
        /\ (leader' = "zombie" /\ code' = "nonzero") \/ UNCHANGED <<leader, code>>
    BY <1>0, <1>2 DEF TypeOK
  <2>3. GroupInv'
    BY <1>2, <2>2 DEF GroupInv
  <2> QED BY <1>0, <1>2, <2>1, <2>2, <2>3, StaysTyped, CallStepKeeps
<1>3. CASE CancelCall(c) \/ TimesOut(c)
  <2>1. (user = "cli" => process) /\ (user = "legacy" => ~process)
    BY <1>3 DEF CancelCall, TimesOut, CallInv
  <2>2. CASE KillGroup /\ call' = [call EXCEPT ![c] = "killing"] /\ UNCHANGED process
    <3>1. "killing" \in Places /\ "killing" \notin CallEnded
      BY DEF Places, CallEnded
    <3>2. /\ GroupInv' /\ leader' \in {"zombie", "reaped"} /\ code' \in {"zero", "nonzero"}
          /\ child' \in {"none", "gone"}
      BY <2>1, <2>2 DEF KillGroup, GroupInv, TypeOK
    <3> QED BY <1>0, <1>3, <2>1, <2>2, <3>1, <3>2, StaysTyped, CallStepKeeps DEF CancelCall, TimesOut
  <2>3. CASE NothingToKill /\ call' = [call EXCEPT ![c] = "cancelled"] /\ process' = FALSE
             /\ user = "cli" /\ UNCHANGED groupVars
    <3>1. "cancelled" \in Places /\ "cancelled" \in CallEnded /\ GroupInv' /\ leader = "reaped"
      BY <2>1, <2>3 DEF Places, CallEnded, NothingToKill, GroupInv
    <3> QED BY <1>0, <1>3, <2>1, <2>3, <3>1, StaysTyped, CallStepKeeps DEF CancelCall, TimesOut
  <2> QED BY <1>3, <2>2, <2>3 DEF CancelCall, TimesOut
<1> QED BY <1>1, <1>2, <1>3

(* Calls that end.                                                         *)
LEMMA EndKeeps ==
  ASSUME IInv, NEW c \in Calls,
         \/ EncodeFails(c) \/ DecodeFails(c) \/ CommunicateEnds(c) \/ CancelEnds(c) \/ CancelAgain(c)
         \/ ReportTimeout(c)
  PROVE  IInv'
<1> USE DEF IInv, groupVars, outputVars, Ends, Goes
<1>0. Active(c) /\ TypeOK /\ CallEnded \subseteq Places
  BY DEF EncodeFails, DecodeFails, CommunicateEnds, Communicated, CancelEnds, CancelAgain, ReportTimeout,
         Active, CallEnded, Places
<1>1. GroupInv' /\ UNCHANGED <<leader, code, child, stdout, stderr, user, closer>>
  BY DEF EncodeFails, DecodeFails, CommunicateEnds, CancelEnds, CancelAgain, ReportTimeout, GroupInv
<1>2. CASE DecodeFails(c)
  <2>1. leader = "reaped" /\ child # "live" /\ "raised" \in CallEnded
    BY <1>2 DEF DecodeFails, Communicated, Eof, CallEnded
  <2> QED BY <1>0, <1>1, <1>2, <2>1, StaysTyped, CallStepKeeps DEF DecodeFails
<1>3. CASE CommunicateEnds(c)
  <2> DEFINE value == IF user = "cli" THEN CliResult ELSE LegacyResult
  <2>1. /\ leader = "reaped" /\ child # "live" /\ "returned" \in CallEnded
        /\ "notUtf8" \notin ToSet(stdout) /\ process' = FALSE
        /\ call' = [call EXCEPT ![c] = "returned"] /\ result' = [result EXCEPT ![c] = value]
    BY <1>3 DEF CommunicateEnds, Communicated, Eof, CallEnded
  <2>2. /\ value \in Results
        /\ value.status # "ok" => value.errors # {}
        /\ user = "cli" /\ value.status = "compile_error" => value.errors = {"error"}
        /\ value.status = "ok" => code = "zero" /\ ~stderr /\ ToSet(stdout) \subseteq Clean
    BY <1>0, <2>1, CliHonest, LegacyHonest DEF Clean
  <2> HIDE DEF value
  <2> QED BY <1>0, <1>1, <2>1, <2>2, StaysTyped, CallStepKeeps, ZenonT(40)
<1>4. CASE CancelEnds(c)
  <2>1. leader = "reaped" /\ "cancelled" \in CallEnded /\ user = "cli"
    BY <1>4 DEF CancelEnds, CallEnded
  <2> QED BY <1>0, <1>1, <1>4, <2>1, StaysTyped, CallStepKeeps DEF CancelEnds
<1>5. CASE CancelAgain(c)
  <2>1. PICK place \in {"cancelled", "abandoned"} :
          /\ call' = [call EXCEPT ![c] = place] /\ user = "cli" /\ UNCHANGED <<process, result>>
          /\ place = "cancelled" => call[c] = "killing"
    BY <1>5 DEF CancelAgain
  <2>2. place \in CallEnded /\ leader # "live" /\ (place = "cancelled" => process)
    BY <1>5, <2>1 DEF CancelAgain, CallEnded, CallInv
  <2> QED BY <1>0, <1>1, <2>1, <2>2, StaysTyped, CallStepKeeps, ZenonT(40)
<1>6. CASE ReportTimeout(c)
  <2>1. /\ leader = "reaped" /\ child # "live" /\ "returned" \in CallEnded
        /\ user = "legacy" /\ ~process /\ call' = [call EXCEPT ![c] = "returned"]
        /\ UNCHANGED process
    BY <1>6 DEF ReportTimeout, CallEnded, CallInv
  <2>2. PICK value \in Results : /\ result' = [result EXCEPT ![c] = value]
                                 /\ value.status = "timed_out" /\ value.errors # {}
    <3>1. [status |-> "timed_out", errors |-> {"timeout"}] \in Results
      BY DEF Results
    <3> QED BY <1>6, <3>1 DEF ReportTimeout
  <2> QED BY <1>0, <1>1, <2>1, <2>2, StaysTyped, CallStepKeeps, ZenonT(40)
<1>7. CASE EncodeFails(c)
  <2>1. PICK place \in CallEnded :
          /\ place = "unsent" /\ place \notin {"returned", "killing", "abandoned"}
          /\ call' = [call EXCEPT ![c] = place] /\ result' = [result EXCEPT ![c] = NoResult]
          /\ process' = (user = "cli")
    BY <1>7 DEF EncodeFails, CallEnded
  <2>2. process' \in BOOLEAN /\ (user = "cli" => process') /\ (user = "legacy" => ~process')
    BY <2>1
  <2> QED BY <1>0, <1>1, <2>1, <2>2, StaysTyped, CallStepKeeps, ZenonT(40)
<1> QED BY <1>2, <1>3, <1>4, <1>5, <1>6, <1>7

-----------------------------------------------------------------------------
(* close().                                                                *)

LEMMA CloseKeeps ==
  ASSUME IInv, NEW k \in Closers, Close(k) \/ CloseEnds(k) \/ CancelClose(k)
  PROVE  IInv'
<1> USE DEF IInv, groupVars, outputVars, CloserGoes
<1>0. /\ user = "cli" /\ user' = user /\ call' = call /\ result' = result
      /\ UNCHANGED outputVars
      /\ \A c \in Calls : ~Active(c)
  BY DEF Close, CloseEnds, CancelClose, CallInv, Active
<1>1. /\ \/ leader' = leader /\ code' = code
         \/ leader = "live" /\ leader' = "zombie" /\ code' = "nonzero" /\ process' = process
      /\ child' = child \/ (child = "live" /\ child' = "gone")
  BY <1>0 DEF Close, CloseEnds, CancelClose, KillGroup
<1>2. TypeOK'
  BY <1>0, <1>1 DEF Close, CloseEnds, CancelClose, TypeOK
<1>3. GroupInv' /\ CallInv'
  BY <1>0, <1>1 DEF GroupInv, CallInv, Active, CallEnded
<1>4. EndInv'
  <2>1. CASE process' = FALSE
    <3>1. ~process \/ leader = "reaped"
      BY <2>1 DEF Close, CloseEnds, CancelClose, NothingToKill
    <3> QED BY <1>0, <1>1, <2>1, <3>1 DEF EndInv, Active
  <2>2. CASE process' = process
    <3>1. \A j \in Closers : closer'[j] = "closed" => closer[j] = "closed" \/ process' = FALSE
      BY <2>2 DEF Close, CloseEnds, CancelClose, TypeOK
    <3>2. leader = "live" => Unsent /\ process
      BY <1>0 DEF EndInv
    <3> QED BY <1>0, <1>1, <2>2, <3>1, <3>2 DEF EndInv, Active, Unsent
  <2> QED BY <2>1, <2>2 DEF Close, CloseEnds, CancelClose
<1>5. AnswerInv'
  BY <1>0, <1>1 DEF AnswerInv, Clean
<1> QED BY <1>2, <1>3, <1>4, <1>5

-----------------------------------------------------------------------------
(* IInv is inductive.                                                      *)

LEMMA InitInv == Init => IInv
<1> SUFFICES ASSUME Init PROVE IInv
  OBVIOUS
<1>1. TypeOK
  <2>1. <<>> \in Seq(Lines) /\ Len(<<>>) <= MaxLines
    BY EmptySeq, OneShotAssumption
  <2>2. NoResult \in Results
    BY DEF NoResult, Results
  <2> QED BY <2>1, <2>2 DEF Init, TypeOK
<1>2. GroupInv /\ CallInv /\ EndInv /\ AnswerInv
  BY DEF Init, GroupInv, CallInv, EndInv, AnswerInv, Active
<1> QED BY <1>1, <1>2 DEF IInv

LEMMA StutterKeeps ==
  ASSUME IInv, UNCHANGED vars
  PROVE  IInv'
<1> USE DEF IInv, vars, groupVars, outputVars
<1>1. TypeOK' /\ GroupInv'
  BY DEF TypeOK, GroupInv
<1>2. CallInv' /\ EndInv'
  BY DEF CallInv, EndInv, Active, Unsent
<1>3. AnswerInv'
  BY DEF AnswerInv, Clean
<1> QED BY <1>1, <1>2, <1>3

(* IInv holds in every reachable state.                                    *)
THEOREM Inductive == Spec => []IInv
<1>1. IInv /\ [Next]_vars => IInv'
  BY GroupKeeps, BeginKeeps, MiddleKeeps, EndKeeps, CloseKeeps, StutterKeeps DEF Next
<1> QED BY InitInv, <1>1, PTL DEF Spec

-----------------------------------------------------------------------------
(* The variables have their types.                                         *)
THEOREM TypeCorrect == Spec => []TypeOK
<1>1. IInv => TypeOK
  BY DEF IInv
<1> QED BY Inductive, <1>1, PTL

(* Whatever is cancelled, and however often, no process that the code knew *)
(* to be alive outlasts its call, but one whose code could not be encoded, *)
(* or the close() after it.                                                *)
THEOREM NothingOutlasts == Spec => []EndedMeansGone
<1>1. IInv => EndedMeansGone
  BY DEF IInv, TypeOK, GroupInv, CallInv, EndInv, Active, EndedMeansGone
<1> QED BY Inductive, <1>1, PTL

(* For any output, exit status and interleaving: okay means that Lean ran  *)
(* to its end without an error, and every other answer says why.           *)
THEOREM AnswersHonest == Spec => []ResultHonest
<1>1. IInv => ResultHonest
  BY DEF IInv, AnswerInv, Clean, ResultHonest
<1> QED BY Inductive, <1>1, PTL
=============================================================================
