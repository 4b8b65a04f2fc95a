--------------------------- MODULE CompileService ---------------------------
(***************************************************************************)
(* What the compiler pool promises to the callers of compile(): a bounded  *)
(* first-in first-out line in front of a fixed set of slots.  A request is *)
(* refused or admitted once, leaves the line from its head to be run, or   *)
(* from anywhere unrun, is run at most once by one slot at a time, and is  *)
(* answered once, with a result only after it was run.                     *)
(*                                                                         *)
(* Nothing is said of tasks, events, futures, processes or restarts.       *)
(***************************************************************************)
EXTENDS Integers, Sequences, SequencesExt

CONSTANTS Requests, Slots, Capacity, Idle

VARIABLES
  open,      \* requests are admitted
  line,      \* the requests waiting, oldest first
  slot,      \* [Slots -> the request it runs, or Idle]
  progress,  \* [Requests -> "new", "admitted" or "run"]
  reply      \* [Requests -> "none" or the answer]

Answers == {"result", "workerError", "timeout", "cancelled", "closed"}

vars == <<open, line, slot, progress, reply>>

Init ==
  /\ open = TRUE /\ line = <<>>
  /\ slot = [s \in Slots |-> Idle]
  /\ progress = [r \in Requests |-> "new"]
  /\ reply = [r \in Requests |-> "none"]

Refuse(r) ==
  /\ reply[r] = "none" /\ progress[r] = "new"
  /\ \/ ~open /\ reply' = [reply EXCEPT ![r] = "closed"]
     \/ open /\ Len(line) = Capacity /\ reply' = [reply EXCEPT ![r] = "overloaded"]
  /\ UNCHANGED <<open, line, slot, progress>>

Admit(r) ==
  /\ open /\ reply[r] = "none" /\ progress[r] = "new" /\ Len(line) < Capacity
  /\ line' = Append(line, r)
  /\ progress' = [progress EXCEPT ![r] = "admitted"]
  /\ UNCHANGED <<open, slot, reply>>

(* The oldest request in the line, not answered yet, goes to a free slot. *)
Run(s) ==
  /\ open /\ line # <<>> /\ slot[s] = Idle
  /\ reply[Head(line)] = "none" /\ progress[Head(line)] = "admitted"
  /\ line' = Tail(line)
  /\ slot' = [slot EXCEPT ![s] = Head(line)]
  /\ progress' = [progress EXCEPT ![Head(line)] = "run"]
  /\ UNCHANGED <<open, reply>>

(* It is passed over: nobody wants its result any more. *)
PassOver ==
  /\ line # <<>>
  /\ line' = Tail(line)
  /\ UNCHANGED <<open, slot, progress, reply>>

Finish(s) ==
  /\ slot[s] # Idle
  /\ slot' = [slot EXCEPT ![s] = Idle]
  /\ UNCHANGED <<open, line, progress, reply>>

(* An answer does not wait for the slot, unless it is the slot's own.      *)
Answer(r, a) ==
  /\ progress[r] # "new" /\ reply[r] = "none"
  /\ a \in {"result", "workerError"} =>
       progress[r] = "run" /\ \A s \in Slots : slot[s] # r
  /\ a = "closed" => ~open
  /\ reply' = [reply EXCEPT ![r] = a]
  /\ line' = RemoveFirst(line, r)
  /\ UNCHANGED <<open, slot, progress>>

Close ==
  /\ open' = FALSE /\ line' = <<>>
  /\ UNCHANGED <<slot, progress, reply>>

Next ==
  \/ \E r \in Requests : Refuse(r) \/ Admit(r) \/ \E a \in Answers : Answer(r, a)
  \/ \E s \in Slots : Run(s) \/ Finish(s)
  \/ PassOver \/ Close

Spec == Init /\ [][Next]_vars
=============================================================================
