------------------------------- MODULE OneShot -------------------------------
(***************************************************************************)
(* One Lean process per compilation: LeanCliBackend (workers/cli.py), with *)
(* cancellations and close() as the pool makes them, and its predecessor   *)
(* compile_lean (compiler.py), a plain call with a timeout.  The leader of *)
(* the process group is `elan run ... lake env`, its child is Lean; of a   *)
(* line Lean prints there remains what the parsers tell apart.             *)
(***************************************************************************)
EXTENDS Naturals, Sequences, SequencesExt

CONSTANTS
  Calls,      \* of compile(), or of compile_lean
  Closers,    \* of close()
  MaxLines    \* bound on the lines of a process

ASSUME OneShotAssumption == MaxLines \in Nat

VARIABLES
  user,       \* "cli" or "legacy"
  leader,     \* "reaped" when its returncode is set
  code,       \* the leader's exit status
  child,      \* Lean
  stdout,     \* the lines written
  stderr,     \* whether something is written there
  process,    \* _process is not None
  call,       \* [Calls -> where the call is, or how it ended]
  result,     \* [Calls -> what it returned: the status and the kinds of errors]
  closer      \* [Closers -> where the close() is]

groupVars == <<leader, code, child>>
outputVars == <<stdout, stderr>>
vars == <<user, groupVars, outputVars, process, call, result, closer>>

Lines == {"warning", "error", "information", "notJson", "notObject", "notUtf8"}
CallEnded == {"returned", "raised", "unsent", "cancelled", "abandoned"}
NoResult == [status |-> "none", errors |-> {}]
Results ==
  [status : {"none", "ok", "compile_error", "internal_error", "timed_out"},
   errors : SUBSET {"error", "malformed", "notJson", "stderr", "exit", "start", "timeout"}]

TypeOK ==
  /\ user \in {"cli", "legacy"}
  /\ leader \in {"none", "live", "zombie", "reaped"} /\ code \in {"zero", "nonzero"}
  /\ child \in {"none", "live", "gone"}
  /\ stdout \in Seq(Lines) /\ Len(stdout) <= MaxLines /\ stderr \in BOOLEAN
  /\ process \in BOOLEAN
  /\ call \in [Calls -> {"idle", "starting", "aborting", "communicating", "killing"}
                          \cup CallEnded]
  /\ result \in [Calls -> Results]
  /\ closer \in [Closers -> {"idle", "killing", "closed", "cancelled"}]

Init ==
  /\ user \in {"cli", "legacy"}
  /\ leader = "none" /\ code = "zero" /\ child = "none"
  /\ stdout = <<>> /\ stderr = FALSE /\ process = FALSE
  /\ call = [c \in Calls |-> "idle"] /\ result = [c \in Calls |-> NoResult]
  /\ closer = [k \in Closers |-> "idle"]

-----------------------------------------------------------------------------
(* The process group.                                                      *)

GroupOnly == UNCHANGED <<user, process, call, result, closer>>

Fork ==
  /\ leader = "live" /\ child = "none"
  /\ child' = "live"
  /\ UNCHANGED <<leader, code, outputVars>> /\ GroupOnly

Prints ==
  /\ child = "live"
  /\ \/ /\ Len(stdout) < MaxLines
        /\ \E line \in Lines : stdout' = Append(stdout, line)
        /\ UNCHANGED stderr
     \/ stderr' = TRUE /\ UNCHANGED stdout
  /\ UNCHANGED groupVars /\ GroupOnly

(* Lean ends, and the leader with its status. *)
ChildExits ==
  /\ child = "live"
  /\ child' = "gone"
  /\ IF leader = "live"
       THEN leader' = "zombie" /\ code' \in {"zero", "nonzero"}
       ELSE UNCHANGED <<leader, code>>
  /\ UNCHANGED outputVars /\ GroupOnly

(* The leader fails before there is a child, or is killed by the system. *)
LeaderDies ==
  /\ leader = "live"
  /\ leader' = "zombie" /\ code' = "nonzero"
  /\ UNCHANGED <<child, outputVars>> /\ GroupOnly

Eof == leader \in {"zombie", "reaped"} /\ child # "live"

(* asyncio waits for its processes; compile_lean does at the end only. *)
LeaderReaped ==
  /\ leader = "zombie"
  /\ user = "cli" \/ Eof
  /\ leader' = "reaped"
  /\ UNCHANGED <<code, child, outputVars>> /\ GroupOnly

KillGroup ==
  /\ IF leader = "live" THEN leader' = "zombie" /\ code' = "nonzero"
                        ELSE UNCHANGED <<leader, code>>
  /\ child' = IF child = "live" THEN "gone" ELSE child

-----------------------------------------------------------------------------
(* What the output means.                                                  *)

StderrError == IF stderr THEN {"stderr"} ELSE {}
OrExit(errors) == IF code # "zero" /\ errors = {} THEN {"exit"} ELSE errors

(* _parse_lean_output stops at the first line it cannot take. *)
Unparsable == {"notJson", "notObject"}
Malformed == ToSet(stdout) \cap Unparsable # {}
Parsed == {stdout[i] : i \in {j \in DOMAIN stdout : \A k \in 1..j : stdout[k] \notin Unparsable}}

CliErrors ==
  (Parsed \cap {"error"}) \cup (IF Malformed THEN {"malformed"} ELSE {}) \cup StderrError

CliResult_ExitIgnored ==
  [status |-> IF Malformed \/ stderr THEN "internal_error"
              ELSE IF CliErrors # {} THEN "compile_error" ELSE "ok",
   errors |-> CliErrors]

CliResult ==
  [status |-> IF Malformed \/ stderr \/ (code # "zero" /\ CliErrors = {}) THEN "internal_error"
              ELSE IF CliErrors # {} THEN "compile_error" ELSE "ok",
   errors |-> OrExit(CliErrors)]

(* _diagnostics makes an error of a line that is not JSON and skips one    *)
(* that is not an object.                                                  *)
LegacyErrors == (ToSet(stdout) \cap {"error", "notJson"}) \cup StderrError

LegacyResult ==
  [status |-> IF code = "zero" /\ LegacyErrors = {} THEN "ok" ELSE "compile_error",
   errors |-> OrExit(LegacyErrors)]

-----------------------------------------------------------------------------
(* A call.                                                                 *)

Ends(c, how, value) ==
  /\ call' = [call EXCEPT ![c] = how] /\ result' = [result EXCEPT ![c] = value]
  /\ UNCHANGED <<user, closer>>

Goes(c, place) == call' = [call EXCEPT ![c] = place] /\ UNCHANGED <<user, result, closer>>

(* The pool makes one call at a time, and none after one that raised. *)
Usable ==
  /\ \A c \in Calls : call[c] \in {"idle", "returned"}
  /\ \A k \in Closers : closer[k] = "idle"

(* A verification, or a timeout compile_lean does not accept. *)
RefuseJob(c) ==
  /\ call[c] = "idle" /\ Usable
  /\ Ends(c, "raised", NoResult)
  /\ UNCHANGED <<groupVars, outputVars, process>>

StartProcess(c) ==
  /\ call[c] = "idle" /\ Usable
  /\ leader' = "live" /\ code' = "zero" /\ child' = "none"
  /\ stdout' = <<>> /\ stderr' = FALSE
  /\ Goes(c, IF user = "cli" THEN "starting" ELSE "communicating")
  /\ UNCHANGED process

(* OSError: there is no elan, or no process left. *)
SpawnFails(c) ==
  /\ call[c] = "idle" /\ Usable
  /\ IF user = "cli" THEN Ends(c, "raised", NoResult)
     ELSE Ends(c, "returned", [status |-> "compile_error", errors |-> {"start"}])
  /\ UNCHANGED <<groupVars, outputVars, process>>

(* create_subprocess_exec returns: only now is the process assigned. *)
Connected(c) ==
  /\ call[c] = "starting"
  /\ Goes(c, "communicating") /\ process' = TRUE
  /\ UNCHANGED <<groupVars, outputVars>>

(* UnicodeEncodeError, of a lone surrogate in the code: the process runs    *)
(* and nothing is done about it.  asyncio's communicate() is not reached,  *)
(* subprocess's encodes first.                                             *)
EncodeFails(c) ==
  /\ call[c] = IF user = "cli" THEN "starting" ELSE "communicating"
  /\ Ends(c, "unsent", NoResult)
  /\ process' = (user = "cli")
  /\ UNCHANGED <<groupVars, outputVars>>

Communicated(c) == call[c] = "communicating" /\ Eof /\ leader = "reaped"

(* UnicodeDecodeError.  compile_lean decodes stderr as strictly. *)
DecodeFails(c) ==
  /\ Communicated(c)
  /\ "notUtf8" \in ToSet(stdout) \/ (user = "legacy" /\ stderr)
  /\ Ends(c, "raised", NoResult)
  /\ process' = FALSE
  /\ UNCHANGED <<groupVars, outputVars>>

CommunicateEnds(c) ==
  /\ Communicated(c) /\ "notUtf8" \notin ToSet(stdout)
  /\ Ends(c, "returned", IF user = "cli" THEN CliResult ELSE LegacyResult)
  /\ process' = FALSE
  /\ UNCHANGED <<groupVars, outputVars>>

(* In create_subprocess_exec asyncio kills the process, not its group, and *)
(* waits for it.                                                           *)
CancelSpawn(c) ==
  /\ call[c] = "starting"
  /\ Goes(c, "aborting")
  /\ IF leader = "live" THEN leader' = "zombie" /\ code' = "nonzero"
                        ELSE UNCHANGED <<leader, code>>
  /\ UNCHANGED <<child, outputVars, process>>

(* _process is None, or its returncode is set. *)
NothingToKill == ~process \/ leader = "reaped"

(* In communicate(): _kill_process() up to its await. *)
CancelCall(c) ==
  /\ user = "cli" /\ call[c] = "communicating"
  /\ \/ /\ NothingToKill
        /\ Goes(c, "cancelled") /\ process' = FALSE
        /\ UNCHANGED groupVars
     \/ /\ ~NothingToKill
        /\ Goes(c, "killing") /\ KillGroup
        /\ UNCHANGED process
  /\ UNCHANGED outputVars

CancelEnds_NoWait(c) ==
  /\ user = "cli" /\ call[c] \in {"aborting", "killing"}
  /\ Goes(c, "cancelled") /\ process' = FALSE
  /\ UNCHANGED <<groupVars, outputVars>>

CancelEnds(c) ==
  /\ user = "cli" /\ call[c] \in {"aborting", "killing"} /\ leader = "reaped"
  /\ Goes(c, "cancelled") /\ process' = FALSE
  /\ UNCHANGED <<groupVars, outputVars>>

(* In either wait; _process stays as it is.  "abandoned": asyncio has not  *)
(* waited for the process it killed.                                       *)
CancelAgain(c) ==
  /\ user = "cli" /\ call[c] \in {"aborting", "killing"}
  /\ Goes(c, IF call[c] = "killing" THEN "cancelled" ELSE "abandoned")
  /\ UNCHANGED <<groupVars, outputVars, process>>

(* compile_lean's own: TimeoutExpired, _stop_process. *)
TimesOut(c) ==
  /\ user = "legacy" /\ call[c] = "communicating"
  /\ Goes(c, "killing") /\ KillGroup
  /\ UNCHANGED <<outputVars, process>>

ReportTimeout(c) ==
  /\ user = "legacy" /\ call[c] = "killing" /\ leader = "reaped"
  /\ Ends(c, "returned", [status |-> "timed_out", errors |-> {"timeout"}])
  /\ UNCHANGED <<groupVars, outputVars, process>>

-----------------------------------------------------------------------------
(* close(), once no call is in progress.  Two may overlap: a slot that     *)
(* closes its backend can be interrupted by a close() of the pool.         *)

CloserGoes(k, place) == closer' = [closer EXCEPT ![k] = place] /\ UNCHANGED <<user, call, result>>

Close(k) ==
  /\ user = "cli" /\ closer[k] = "idle"
  /\ \A c \in Calls : call[c] \in {"idle"} \cup CallEnded
  /\ \/ /\ NothingToKill
        /\ CloserGoes(k, "closed") /\ process' = FALSE
        /\ UNCHANGED groupVars
     \/ /\ ~NothingToKill
        /\ CloserGoes(k, "killing") /\ KillGroup
        /\ UNCHANGED process
  /\ UNCHANGED outputVars

CloseEnds(k) ==
  /\ closer[k] = "killing" /\ leader = "reaped"
  /\ CloserGoes(k, "closed") /\ process' = FALSE
  /\ UNCHANGED <<groupVars, outputVars>>

CancelClose(k) ==
  /\ closer[k] = "killing"
  /\ CloserGoes(k, "cancelled")
  /\ UNCHANGED <<groupVars, outputVars, process>>

-----------------------------------------------------------------------------
Next ==
  \/ Fork \/ Prints \/ ChildExits \/ LeaderDies \/ LeaderReaped
  \/ \E c \in Calls :
       \/ RefuseJob(c) \/ StartProcess(c) \/ SpawnFails(c) \/ Connected(c)
       \/ EncodeFails(c) \/ DecodeFails(c) \/ CommunicateEnds(c)
       \/ CancelSpawn(c) \/ CancelCall(c) \/ CancelEnds(c) \/ CancelAgain(c)
       \/ TimesOut(c) \/ ReportTimeout(c)
  \/ \E k \in Closers : Close(k) \/ CloseEnds(k) \/ CancelClose(k)

Spec == Init /\ [][Next]_vars

-----------------------------------------------------------------------------
Unsent == \E c \in Calls : call[c] = "unsent"

(* Nothing of a process that the code knew to be alive outlasts its call,  *)
(* however often that is interrupted: Lean runs on only if the leader      *)
(* ended without it.  A code that cannot be encoded is the exception: the  *)
(* process outlasts that call, in compile_lean for good, while the backend *)
(* still knows it.  After a close() that returned, though another one or   *)
(* the call was cut off, no process is known, and the leader has been      *)
(* waited for unless asyncio was made to abandon it.                       *)
EndedMeansGone ==
  (\A c \in Calls : call[c] \in {"idle"} \cup CallEnded) =>
    /\ leader = "live" => Unsent /\ (user = "cli" => process)
    /\ child = "live" => Unsent \/ (user = "cli" /\ leader # "live" /\ code = "nonzero")
    /\ (\E k \in Closers : closer[k] = "closed") =>
         /\ ~process /\ leader # "live" /\ (child = "live" => code = "nonzero")
         /\ leader = "zombie" => \E c \in Calls : call[c] = "abandoned"

(* An answer is okay only if Lean ran to its end, with status zero and     *)
(* with no error, and printed nothing else (but JSON that is no object,    *)
(* which compile_lean skips); one that is not says why.  The backend       *)
(* blames the code only for what Lean says of it: "compile_error" comes    *)
(* with errors of Lean's and with no others.                               *)
ResultHonest ==
  \A c \in Calls :
    call[c] = "returned" =>
      LET r == result[c] IN
      /\ r.status # "ok" => r.errors # {}
      /\ user = "cli" /\ r.status = "compile_error" => r.errors = {"error"}
      /\ (\A d \in Calls \ {c} : call[d] = "idle") /\ r.status = "ok" =>
           /\ leader = "reaped" /\ code = "zero" /\ ~stderr
           /\ ToSet(stdout) \subseteq
                {"warning", "information"} \cup IF user = "cli" THEN {} ELSE {"notObject"}
=============================================================================
