-------------------------- MODULE VerifyProofProofs --------------------------
(***************************************************************************)
(* The verdict of VerifyProof for any declarations, any statement and any  *)
(* candidate.                                                              *)
(*                                                                         *)
(* IInv is the inductive invariant.  While dependencies are collected, the *)
(* declarations seen or on the stack hold the targets and are closed under *)
(* meaning but for the stack, and each is something its owner depends on;  *)
(* with an empty stack the declarations seen are what the statement        *)
(* depends on, exactly.                                                    *)
(***************************************************************************)
EXTENDS VerifyProof, TLAPS, FiniteSetTheorems, SequenceTheorems

Firsts(R) == {r[1] : r \in R}

(* Before requiredDeclarations nothing is collected or judged.             *)
IdleInv ==
  phase \in {"idle", "elaborating"} =>
    pending = <<>> /\ required = <<>> /\ seen = {} /\ toolErrors = {} /\ failed = {}

(* The loop.                                                               *)
Attributed(R) == \A p \in R : p[2] \in Targets /\ p[1] \in DependsOn({p[2]})

Reached == seen \cup Firsts(ToSet(pending))

Collecting ==
  /\ seen = Firsts(ToSet(required))
  /\ Targets \subseteq Reached
  /\ \A n \in seen : Meaning(n) \subseteq Reached
  /\ Attributed(ToSet(pending)) /\ Attributed(ToSet(required))
  /\ toolErrors = {} /\ failed = {} /\ text # "errors"

CollectInv == phase = "collecting" => Collecting

(* The verdict, whether or not the client still waits for it.              *)
Blamed ==
  /\ failed # {} \/ Targets = {}
  /\ failed \subseteq Targets
  /\ text = "sound" => \A t \in failed : \E n \in DependsOn({t}) : ~Kept(n)

DoneInv ==
  phase = "done" /\ text # "errors" => (Okay <=> Acceptable) /\ (Okay \/ Blamed)

(* What the handler has answered.                                          *)
ResponseInv ==
  /\ handler # "ended" => response = "none"
  /\ response = "okay" => phase = "done" /\ Okay
  /\ response = "notOkay" => phase = "done" /\ ~Okay

IInv == TypeOK /\ IdleInv /\ CollectInv /\ DoneInv /\ ResponseInv

-----------------------------------------------------------------------------
(* Sequences, by their elements.                                           *)

LEMMA PopFacts ==
  ASSUME NEW S, NEW s \in Seq(S), s # <<>>
  PROVE  /\ Front(s) \in Seq(S) /\ Len(Front(s)) < Len(s)
         /\ Last(s) \in S
         /\ ToSet(s) = ToSet(Front(s)) \cup {Last(s)}
<1>1. Len(s) \in Nat /\ Len(s) > 0 /\ DOMAIN s = 1..Len(s)
  BY EmptySeq, LenProperties
<1>2. /\ Front(s) \in Seq(S) /\ Len(Front(s)) = Len(s) - 1
      /\ \A i \in 1..Len(s) - 1 : Front(s)[i] = s[i]
  BY <1>1, SubSeqProperties DEF Front
<1>3. DOMAIN Front(s) = 1..Len(s) - 1
  BY <1>2, LenProperties
<1>4. Last(s) = s[Len(s)] /\ Len(s) \in DOMAIN s /\ Last(s) \in S
  BY <1>1, ElementOfSeq DEF Last
<1>5. ASSUME NEW x \in ToSet(s), x # Last(s) PROVE x \in ToSet(Front(s))
  <2>1. PICK i \in 1..Len(s) : x = s[i]
    BY <1>1 DEF ToSet
  <2>2. i \in 1..Len(s) - 1
    BY <1>1, <1>4, <1>5, <2>1
  <2> QED BY <1>2, <1>3, <2>1, <2>2 DEF ToSet
<1>6. ToSet(Front(s)) \subseteq ToSet(s)
  BY <1>1, <1>2, <1>3 DEF ToSet
<1>7. Last(s) \in ToSet(s)
  BY <1>4 DEF ToSet
<1> QED BY <1>1, <1>2, <1>4, <1>5, <1>6, <1>7

LEMMA ConcatElements ==
  ASSUME NEW S, NEW s \in Seq(S), NEW t \in Seq(S)
  PROVE  s \o t \in Seq(S) /\ ToSet(s \o t) = ToSet(s) \cup ToSet(t)
<1>1. /\ s \o t \in Seq(S) /\ Len(s \o t) = Len(s) + Len(t)
      /\ \A i \in 1..Len(s) + Len(t) : (s \o t)[i] = IF i <= Len(s) THEN s[i] ELSE t[i - Len(s)]
  BY ConcatProperties
<1>2. /\ Len(s) \in Nat /\ Len(t) \in Nat
      /\ DOMAIN s = 1..Len(s) /\ DOMAIN t = 1..Len(t) /\ DOMAIN (s \o t) = 1..Len(s) + Len(t)
  BY <1>1, LenProperties
<1>3. ASSUME NEW x \in ToSet(t) PROVE x \in ToSet(s \o t)
  <2>1. PICK i \in 1..Len(t) : x = t[i]
    BY <1>2 DEF ToSet
  <2>2. Len(s) + i \in 1..Len(s) + Len(t) /\ (s \o t)[Len(s) + i] = x
    BY <1>1, <1>2, <2>1
  <2> QED BY <1>2, <2>2 DEF ToSet
<1>4. ToSet(s) \subseteq ToSet(s \o t)
  BY <1>1, <1>2 DEF ToSet
<1>5. ASSUME NEW x \in ToSet(s \o t) PROVE x \in ToSet(s) \cup ToSet(t)
  <2>1. PICK i \in 1..Len(s) + Len(t) : x = (s \o t)[i]
    BY <1>2 DEF ToSet
  <2>2. CASE i <= Len(s)
    BY <1>1, <1>2, <2>1, <2>2 DEF ToSet
  <2>3. CASE i > Len(s)
    <3>1. i - Len(s) \in 1..Len(t) /\ x = t[i - Len(s)]
      BY <1>1, <1>2, <2>1, <2>3
    <3> QED BY <1>2, <3>1 DEF ToSet
  <2> QED BY <1>2, <2>1, <2>2, <2>3
<1> QED BY <1>1, <1>3, <1>4, <1>5

LEMMA AppendElements ==
  ASSUME NEW S, NEW s \in Seq(S), NEW x \in S
  PROVE  Append(s, x) \in Seq(S) /\ ToSet(Append(s, x)) = ToSet(s) \cup {x}
<1>1. /\ Append(s, x) \in Seq(S) /\ Len(Append(s, x)) = Len(s) + 1
      /\ \A i \in 1..Len(s) : Append(s, x)[i] = s[i]
      /\ Append(s, x)[Len(s) + 1] = x
  BY AppendProperties
<1>2. /\ Len(s) \in Nat /\ DOMAIN s = 1..Len(s)
      /\ DOMAIN Append(s, x) = 1..Len(s) + 1
  BY <1>1, LenProperties
<1>3. \A i \in 1..Len(s) + 1 : i \in 1..Len(s) \/ i = Len(s) + 1
  BY <1>2
<1>4. Len(s) + 1 \in 1..Len(s) + 1 /\ 1..Len(s) \subseteq 1..Len(s) + 1
  BY <1>2
<1> QED BY <1>1, <1>2, <1>3, <1>4 DEF ToSet

(* However an expression orders the constants it mentions, what is pushed  *)
(* stands for those constants and no others.                               *)
LEMMA PushedFacts ==
  ASSUME NEW S \in SUBSET Names, NEW order \in Orders(S),
         NEW s \in [DOMAIN order -> Names \X Names]
  PROVE  /\ s \in Seq(Names \X Names) /\ ToSet(s) = {s[i] : i \in DOMAIN order}
         /\ \A i \in DOMAIN order : order[i] \in S
         /\ \A n \in S : \E i \in DOMAIN order : order[i] = n
<1>1. Cardinality(S) \in Nat
  BY VerifierAssumption, FS_Subset, FS_CardinalityType
<1>2. /\ DOMAIN order = 1..Cardinality(S)
      /\ \A i \in DOMAIN order : order[i] \in S
      /\ \A n \in S : \E i \in DOMAIN order : order[i] = n
  BY DEF Orders
<1>3. s \in Seq(Names \X Names)
  BY <1>1, <1>2, SeqDef
<1> QED BY <1>2, <1>3 DEF ToSet

-----------------------------------------------------------------------------
(* What a statement depends on.                                            *)

(* The loop follows what the reference calls the meaning of a declaration. *)
LEMMA MeaningFollowed ==
  ASSUME formal \in [Names -> Declaration], NEW n \in Names
  PROVE  Dependencies(n) = Meaning(n) /\ Meaning(n) \subseteq Names
<1>1. /\ formal[n].kind \in Kinds
      /\ formal[n].type \subseteq Names /\ formal[n].value \subseteq Names
  BY DEF Declaration
<1> QED BY <1>1 DEF Dependencies, Meaning, Compared, Supplied, Kinds

(* The comparison of one declaration says what the reference says of it.   *)
LEMMA ComparisonExact ==
  ASSUME formal \in [Names -> Declaration], candidate \in [Names -> Faults], NEW n \in Names
  PROVE  Kept(n) <=> candidate[n] # "missing" /\ ~Bad(n)
<1>1. formal[n].kind \in Kinds /\ candidate[n] \in Faults
  BY DEF Declaration
<1> QED BY <1>1 DEF Kept, Bad, Compared, Supplied, Kinds, Faults

(* DependsOn(T) is the least closed set that holds T.                      *)
LEMMA DependsOnLeast ==
  ASSUME NEW T \in SUBSET Names, NEW S \in SUBSET Names, T \subseteq S, ClosedUnder(S)
  PROVE  DependsOn(T) \subseteq S
BY DEF DependsOn

LEMMA DependsOnClosed ==
  ASSUME formal \in [Names -> Declaration], NEW T \in SUBSET Names
  PROVE  /\ T \subseteq DependsOn(T)
         /\ \A n \in DependsOn(T) : Meaning(n) \subseteq DependsOn(T)
<1>1. T \subseteq DependsOn(T)
  BY DEF DependsOn
<1>2. ASSUME NEW n \in DependsOn(T), NEW m \in Meaning(n) PROVE m \in DependsOn(T)
  <2>1. n \in Names /\ m \in Names
    BY <1>2, MeaningFollowed DEF DependsOn
  <2>2. ASSUME NEW S \in SUBSET Names, T \subseteq S, ClosedUnder(S) PROVE m \in S
    <3>1. n \in S
      BY <2>2 DEF DependsOn
    <3> QED BY <1>2, <2>2, <3>1 DEF ClosedUnder
  <2> QED BY <2>1, <2>2 DEF DependsOn
<1> QED BY <1>1, <1>2

LEMMA DependsOnMonotone ==
  ASSUME NEW T \in SUBSET Names, NEW t \in T
  PROVE  DependsOn({t}) \subseteq DependsOn(T)
BY DEF DependsOn

(* The inputs alone decide what is depended on, kept and acceptable.       *)
LEMMA InputsDecide ==
  ASSUME UNCHANGED inputVars
  PROVE  /\ Targets' = Targets /\ (Acceptable <=> Acceptable')
         /\ \A n : Meaning(n)' = Meaning(n) /\ (Kept(n)' <=> Kept(n))
         /\ \A T : DependsOn(T)' = DependsOn(T)
<1>1. formal' = formal /\ candidate' = candidate /\ text' = text
  BY DEF inputVars
<1>2. Targets' = Targets
  BY <1>1 DEF Targets
<1>3. \A n : Meaning(n)' = Meaning(n) /\ (Kept(n)' <=> Kept(n))
  BY <1>1 DEF Meaning, Kept, Supplied
<1>4. \A T : DependsOn(T)' = DependsOn(T)
  BY <1>1 DEF DependsOn, ClosedUnder, Meaning, Supplied
<1>5. Acceptable <=> Acceptable'
  BY <1>1, <1>2 DEF Acceptable, DependsOn, ClosedUnder, Meaning, Kept, Supplied
<1> QED BY <1>2, <1>3, <1>4, <1>5

-----------------------------------------------------------------------------
(* The invariant.                                                          *)

LEMMA InitInv == Init => IInv
<1>1. SUFFICES ASSUME Init PROVE IInv
  OBVIOUS
<1>2. TypeOK
  BY <1>1, VerifierAssumption, EmptySeq DEF Init, VerifierInit, TypeOK, VerifierTypeOK, Responses
<1> QED BY <1>1, <1>2 DEF Init, VerifierInit, IInv, IdleInv, CollectInv, Collecting, DoneInv, ResponseInv

(* Until the response, the handler leaves the verifier alone or kills it.  *)
LEMMA HandlerKeepsInv == IInv /\ HandlerStep => IInv'
<1> SUFFICES ASSUME IInv, HandlerStep PROVE IInv'
  OBVIOUS
<1> USE DEF IInv
<1>1. UNCHANGED inputVars
  BY DEF HandlerStep, RejectBody, RejectFields, BadRequest, Submit, Overloaded, Dispatch, TimesOut,
         Unavailable, ReturnVerdict, WorkerGone, verifierVars
<1>2. CASE UNCHANGED verifierVars /\ (RejectBody \/ RejectFields \/ Submit \/ ReturnVerdict)
  <2> USE <1>2 DEF verifierVars, inputVars, loopVars, verdictVars
  <2>1. TypeOK'
    BY DEF TypeOK, VerifierTypeOK, RejectBody, RejectFields, BadRequest, Submit, ReturnVerdict,
           Responds, Responses
  <2>2. IdleInv'
    BY DEF IdleInv
  <2>3. CollectInv'
    BY <1>1, InputsDecide DEF CollectInv, Collecting, Reached, Attributed
  <2>4. DoneInv'
    BY <1>1, InputsDecide DEF DoneInv, Blamed, Okay
  <2>5. ResponseInv'
    BY DEF ResponseInv, Okay, RejectBody, RejectFields, BadRequest, Submit, ReturnVerdict, Responds
  <2> QED BY <2>1, <2>2, <2>3, <2>4, <2>5
<1>3. CASE WorkerGone /\ (Overloaded \/ TimesOut \/ Unavailable)
  <2> USE <1>3 DEF WorkerGone, inputVars
  <2>1. TypeOK'
    BY EmptySeq DEF TypeOK, VerifierTypeOK, Overloaded, TimesOut, Unavailable, Responds, Responses
  <2>2. IdleInv' /\ CollectInv' /\ DoneInv'
    BY DEF IdleInv, CollectInv, Collecting, DoneInv
  <2>3. ResponseInv'
    BY DEF ResponseInv, Overloaded, TimesOut, Unavailable, Responds
  <2> QED BY <2>1, <2>2, <2>3
<1>4. CASE Dispatch
  BY <1>4 DEF Dispatch, TypeOK, VerifierTypeOK, IdleInv, CollectInv, Collecting, DoneInv, ResponseInv, Responses,
              inputVars, loopVars, verdictVars
<1> QED BY <1>2, <1>3, <1>4 DEF HandlerStep, RejectBody, RejectFields, BadRequest, Submit, Overloaded,
              TimesOut, Unavailable, ReturnVerdict
(* The loop starts from the targets, each attributed to itself.            *)
LEMMA ElaborateKeepsInv ==
  ASSUME IInv, Elaborate, UNCHANGED <<handler, response>>
  PROVE  IInv'
<1> USE DEF IInv
<1>1. /\ UNCHANGED inputVars /\ seen' = seen /\ required' = required
      /\ toolErrors' = toolErrors /\ failed' = failed
      /\ seen = {} /\ required = <<>> /\ pending = <<>> /\ toolErrors = {} /\ failed = {}
      /\ formal \in [Names -> Declaration]
  BY DEF Elaborate, IdleInv, TypeOK, VerifierTypeOK, verdictVars
<1>2. ResponseInv'
  BY DEF Elaborate, ResponseInv
<1>3. CASE text = "errors" /\ phase' = "done" /\ UNCHANGED pending
  BY <1>1, <1>2, <1>3
  DEF TypeOK, VerifierTypeOK, IdleInv, CollectInv, Collecting, DoneInv, inputVars
<1>4. ASSUME text # "errors", phase' = "collecting", NEW order \in Orders(Targets),
             pending' = [i \in DOMAIN order |-> <<order[i], order[i]>>]
      PROVE  IInv'
  <2>1. Targets \in SUBSET Names
    BY DEF Targets
  <2>2. pending' \in [DOMAIN order -> Names \X Names]
    BY <1>4, <2>1 DEF Orders
  <2>3. /\ pending' \in Seq(Names \X Names)
        /\ \A p \in ToSet(pending') : p[1] \in Targets /\ p[2] = p[1]
        /\ \A n \in Targets : \E p \in ToSet(pending') : p[1] = n
    <3>1. /\ pending' \in Seq(Names \X Names) /\ ToSet(pending') = {pending'[i] : i \in DOMAIN order}
          /\ \A i \in DOMAIN order : order[i] \in Targets
          /\ \A n \in Targets : \E i \in DOMAIN order : order[i] = n
      BY <2>1, <2>2, PushedFacts
    <3>2. \A i \in DOMAIN order : pending'[i] = <<order[i], order[i]>>
      BY <1>4
    <3>3. \A i \in DOMAIN order : pending'[i][1] = order[i] /\ pending'[i][2] = order[i]
      BY <3>2
    <3> QED BY <3>1, <3>3
  <2>4. ToSet(required') = {}
    BY <1>1 DEF ToSet
  <2>5. \A n \in Targets : n \in DependsOn({n})
    BY <1>1, <2>1, DependsOnClosed
  <2>6. CollectInv'
    <3>1. Firsts(ToSet(pending')) = Targets /\ Firsts(ToSet(required')) = {}
      BY <2>3, <2>4 DEF Firsts
    <3>2. Attributed(ToSet(pending))' /\ Attributed(ToSet(required))'
      BY <1>1, <2>3, <2>4, <2>5, InputsDecide DEF Attributed
    <3> QED BY <1>1, <1>4, <3>1, <3>2, InputsDecide DEF CollectInv, Collecting, Reached, Attributed, Firsts, inputVars
  <2>7. TypeOK'
    BY <1>1, <1>4, <2>3 DEF Elaborate, TypeOK, VerifierTypeOK, inputVars
  <2> QED BY <1>2, <1>4, <2>6, <2>7 DEF IdleInv, DoneInv
<1> QED BY <1>3, <1>4 DEF Elaborate

LEMMA SkipKeepsInv ==
  ASSUME IInv, SkipVisited, UNCHANGED <<handler, response>>
  PROVE  IInv'
<1> USE DEF IInv
<1>1. /\ UNCHANGED <<inputVars, phase, seen, required, toolErrors, failed>>
      /\ phase = "collecting" /\ pending # <<>> /\ Last(pending)[1] \in seen
      /\ pending' = Front(pending) /\ pending \in Seq(Names \X Names)
  BY DEF SkipVisited, Top, verdictVars, TypeOK, VerifierTypeOK
<1>2. pending' \in Seq(Names \X Names) /\ ToSet(pending) = ToSet(pending') \cup {Last(pending)}
  BY <1>1, PopFacts
<1>3. Reached' = Reached
  BY <1>1, <1>2 DEF Reached, Firsts
<1>4. CollectInv'
  BY <1>1, <1>2, <1>3, InputsDecide DEF CollectInv, Collecting, Attributed, Firsts, inputVars
<1>5. TypeOK'
  BY <1>1, <1>2 DEF TypeOK, VerifierTypeOK, inputVars
<1> QED BY <1>1, <1>4, <1>5 DEF IdleInv, DoneInv, ResponseInv

LEMMA VisitKeepsInv ==
  ASSUME IInv, Visit, UNCHANGED <<handler, response>>
  PROVE  IInv'
<1> USE DEF IInv
<1> DEFINE n == Last(pending)[1]
<1>1. /\ UNCHANGED <<inputVars, phase, toolErrors, failed>>
      /\ phase = "collecting" /\ pending # <<>> /\ n \notin seen
      /\ seen' = seen \cup {n} /\ required' = Append(required, <<n, Owner>>)
      /\ pending \in Seq(Names \X Names) /\ required \in Seq(Names \X Names)
      /\ formal \in [Names -> Declaration]
  BY DEF Visit, Top, verdictVars, TypeOK, VerifierTypeOK
<1>2. /\ Front(pending) \in Seq(Names \X Names) /\ Last(pending) \in Names \X Names
      /\ ToSet(pending) = ToSet(Front(pending)) \cup {Last(pending)}
  BY <1>1, PopFacts
<1>3. n \in Names /\ Dependencies(n) = Meaning(n) /\ Dependencies(n) \in SUBSET Names
  BY <1>1, <1>2, MeaningFollowed
<1>4. Collecting /\ Attributed(ToSet(pending))
  BY <1>1 DEF CollectInv, Collecting
<1>5. Owner \in Targets /\ Owner \in Names /\ n \in DependsOn({Owner})
  <2>1. Last(pending)[2] \in Targets /\ n \in DependsOn({Last(pending)[2]})
    BY <1>2, <1>4 DEF Attributed
  <2>2. n \in Targets => n \in DependsOn({n})
    BY <1>1, <1>3, DependsOnClosed
  <2> QED BY <2>1, <2>2 DEF Owner, Top, Targets
<1>6. \A m \in Meaning(n) : m \in DependsOn({Owner})
  BY <1>1, <1>5, DependsOnClosed
<1>7. PICK order \in Orders(Dependencies(n)) :
        pending' = Front(pending) \o [i \in DOMAIN order |-> <<order[i], Owner>>]
  BY DEF Visit, Top
<1> DEFINE pushed == [i \in DOMAIN order |-> <<order[i], Owner>>]
<1>8. /\ pushed \in Seq(Names \X Names)
      /\ \A p \in ToSet(pushed) : p[1] \in Meaning(n) /\ p[2] = Owner
      /\ \A m \in Meaning(n) : \E p \in ToSet(pushed) : p[1] = m
  <2>1. pushed \in [DOMAIN order -> Names \X Names]
    BY <1>3, <1>5, <1>7 DEF Orders
  <2>2. \A i \in DOMAIN order : pushed[i][1] = order[i] /\ pushed[i][2] = Owner
    OBVIOUS
  <2> HIDE DEF pushed
  <2>3. /\ pushed \in Seq(Names \X Names) /\ ToSet(pushed) = {pushed[i] : i \in DOMAIN order}
        /\ \A i \in DOMAIN order : order[i] \in Dependencies(n)
        /\ \A m \in Dependencies(n) : \E i \in DOMAIN order : order[i] = m
    BY <1>3, <1>7, <2>1, PushedFacts
  <2> QED BY <1>3, <2>2, <2>3
<1>9. pending' \in Seq(Names \X Names) /\ ToSet(pending') = ToSet(Front(pending)) \cup ToSet(pushed)
  <2>1. pending' = Front(pending) \o pushed
    BY <1>7
  <2> HIDE DEF pushed
  <2> QED BY <1>2, <1>8, <2>1, ConcatElements
<1> HIDE DEF pushed, n
<1> DEFINE r == <<n, Owner>>
<1>10. /\ required' \in Seq(Names \X Names) /\ ToSet(required') = ToSet(required) \cup {r}
       /\ r[1] = n /\ r[2] = Owner
  <2>1. r \in Names \X Names
    BY <1>3, <1>5
  <2> QED BY <1>1, <2>1, AppendElements
<1> HIDE DEF r
<1>11. Reached' = Reached \cup Meaning(n)
  <2>1. Firsts(ToSet(pending)) = Firsts(ToSet(Front(pending))) \cup {n}
    BY <1>2 DEF Firsts, n
  <2>2. Firsts(ToSet(pending')) = Firsts(ToSet(Front(pending))) \cup Meaning(n)
    BY <1>8, <1>9 DEF Firsts
  <2>3. Reached' = seen' \cup Firsts(ToSet(pending'))
    BY DEF Reached, Firsts
  <2> QED BY <1>1, <2>1, <2>2, <2>3 DEF Reached
<1>12. CollectInv'
  <2>1. seen' = Firsts(ToSet(required'))
    <3>1. Firsts(ToSet(required')) = Firsts(ToSet(required)) \cup {n}
      BY <1>10 DEF Firsts
    <3> QED BY <1>1, <1>4, <3>1 DEF Collecting
  <2>2. Targets' \subseteq Reached' /\ \A m \in seen' : Meaning(m)' \subseteq Reached'
    BY <1>1, <1>4, <1>11, InputsDecide DEF Collecting
  <2>3. /\ \A p \in ToSet(pending') : p[2] \in Targets /\ p[1] \in DependsOn({p[2]})
        /\ \A p \in ToSet(required') : p[2] \in Targets /\ p[1] \in DependsOn({p[2]})
    <3>1. /\ \A p \in ToSet(pending) : p[2] \in Targets /\ p[1] \in DependsOn({p[2]})
          /\ \A p \in ToSet(required) : p[2] \in Targets /\ p[1] \in DependsOn({p[2]})
      BY <1>4 DEF Collecting, Attributed
    <3>2. \A p \in ToSet(pushed) : p[2] \in Targets /\ p[1] \in DependsOn({p[2]})
      BY <1>5, <1>6, <1>8
    <3>3. \A p \in ToSet(pending') : p[2] \in Targets /\ p[1] \in DependsOn({p[2]})
      BY <1>2, <1>9, <3>1, <3>2
    <3> QED BY <1>5, <1>10, <3>1, <3>3
  <2>4. Attributed(ToSet(pending))' /\ Attributed(ToSet(required))'
    BY <1>1, <2>3, InputsDecide DEF Attributed
  <2>5. toolErrors' = {} /\ failed' = {} /\ text' # "errors"
    BY <1>1, <1>4 DEF Collecting, inputVars
  <2> QED BY <2>1, <2>2, <2>4, <2>5 DEF CollectInv, Collecting, Firsts
<1>13. TypeOK'
  BY <1>1, <1>3, <1>9, <1>10 DEF TypeOK, VerifierTypeOK, inputVars
<1> QED BY <1>1, <1>12, <1>13 DEF IdleInv, DoneInv, ResponseInv

(* With an empty stack the loop has collected what the targets depend on.  *)
LEMMA CollectedExactly ==
  ASSUME IInv, Collected
  PROVE  /\ seen = DependsOn(Targets)
         /\ seen = Firsts(ToSet(required)) /\ Attributed(ToSet(required))
         /\ toolErrors = {} /\ failed = {} /\ text # "errors"
<1> USE DEF IInv
<1>1. phase = "collecting" /\ pending = <<>> /\ Collecting
  BY DEF Collected, CollectInv
<1>2. Reached = seen
  BY <1>1 DEF Reached, Firsts, ToSet
<1>3. Targets \in SUBSET Names /\ seen \in SUBSET Names
  BY DEF Targets, TypeOK, VerifierTypeOK
<1>4. DependsOn(Targets) \subseteq seen
  BY <1>1, <1>2, <1>3, DependsOnLeast DEF Collecting, ClosedUnder
<1>5. ASSUME NEW n \in seen PROVE n \in DependsOn(Targets)
  <2>1. PICK r \in ToSet(required) : r[1] = n
    BY <1>1 DEF Collecting, Firsts
  <2>2. r[2] \in Targets /\ n \in DependsOn({r[2]})
    BY <1>1, <2>1 DEF Collecting, Attributed
  <2> QED BY <1>3, <2>2, DependsOnMonotone
<1> QED BY <1>1, <1>4, <1>5 DEF Collecting
(* The comparison finds nothing exactly where everything is kept, and what *)
(* it finds is charged to targets that depend on it.                       *)
LEMMA FindingsExact ==
  ASSUME IInv, Collected
  PROVE  /\ Missing = {} /\ Mismatched = {} <=> \A n \in DependsOn(Targets) : Kept(n)
         /\ \A r \in Missing \cup Mismatched :
              r[2] \in Targets /\ \E n \in DependsOn({r[2]}) : ~Kept(n)
<1>1. /\ seen = DependsOn(Targets) /\ seen = Firsts(ToSet(required))
      /\ Attributed(ToSet(required))
  BY CollectedExactly
<1>2. /\ formal \in [Names -> Declaration] /\ candidate \in [Names -> Faults]
      /\ seen \in SUBSET Names
  BY DEF IInv, TypeOK, VerifierTypeOK
<1>3. \A n \in seen : Kept(n) <=> candidate[n] # "missing" /\ ~Bad(n)
  BY <1>2, ComparisonExact
<1>4. /\ \A r \in ToSet(required) : r[1] \in seen
      /\ \A n \in seen : \E r \in ToSet(required) : r[1] = n
  BY <1>1 DEF Firsts
<1>5. Missing = {} /\ Mismatched = {} <=>
        \A r \in ToSet(required) : candidate[r[1]] # "missing" /\ ~Bad(r[1])
  BY DEF Missing, Mismatched
<1>6. \A r \in Missing \cup Mismatched : r \in ToSet(required) /\ ~Kept(r[1])
  BY <1>3, <1>4 DEF Missing, Mismatched
<1> QED BY <1>1, <1>3, <1>4, <1>5, <1>6 DEF Attributed

LEMMA VerdictKeepsInv ==
  ASSUME IInv, RejectCommands \/ RejectMissing \/ Compare, UNCHANGED <<handler, response>>
  PROVE  IInv'
<1>1. /\ Collected /\ phase' = "done" /\ UNCHANGED <<inputVars, loopVars>>
      /\ handler' = handler /\ response' = response
  BY DEF RejectCommands, RejectMissing, Compare
<1>2. /\ text \in {"sound", "banned"} /\ text' = text
      /\ Targets \in SUBSET Names /\ (NoTargets = {} <=> Targets # {})
      /\ NoTargets \subseteq {"noTargets"}
  BY <1>1, CollectedExactly DEF IInv, TypeOK, VerifierTypeOK, Targets, NoTargets, inputVars
<1>3. \A r \in Missing \cup Mismatched :
        r[2] \in Targets /\ \E n \in DependsOn({r[2]}) : ~Kept(n)
  BY <1>1, FindingsExact
<1>4. /\ toolErrors' \subseteq {"noTargets", "openPrivate", "missing", "mismatch"}
      /\ failed' \subseteq Targets
  BY <1>2, <1>3 DEF RejectCommands, RejectMissing, Compare
<1>5. /\ failed' # {} \/ Targets = {} \/ (toolErrors' = {} /\ failed' = {})
      /\ text = "sound" => \A t \in failed' : \E n \in DependsOn({t}) : ~Kept(n)
  <2>1. CASE RejectCommands
    BY <2>1 DEF RejectCommands
  <2>2. CASE RejectMissing
    BY <1>3, <2>2 DEF RejectMissing
  <2>3. CASE Compare
    BY <1>2, <1>3, <2>3 DEF Compare
  <2> QED BY <2>1, <2>2, <2>3
<1>6. toolErrors' = {} /\ failed' = {} <=> Acceptable
  <2>1. CASE RejectCommands
    BY <1>2, <2>1 DEF RejectCommands, Acceptable
  <2>2. CASE RejectMissing
    BY <1>1, <1>2, <2>2, FindingsExact DEF RejectMissing, Acceptable
  <2>3. CASE Compare
    <3>1. toolErrors' = {} /\ failed' = {} <=> Targets # {} /\ Mismatched = {}
      BY <1>2, <2>3 DEF Compare
    <3> QED BY <1>1, <1>2, <2>3, <3>1, FindingsExact DEF Compare, Acceptable
  <2> QED BY <2>1, <2>2, <2>3
<1>7. TypeOK'
  BY <1>1, <1>2, <1>4 DEF IInv, TypeOK, VerifierTypeOK, inputVars, loopVars
<1>8. DoneInv'
  <2>1. Okay' <=> Acceptable'
    BY <1>1, <1>2, <1>6, InputsDecide DEF Okay
  <2>2. Okay' \/ Blamed'
    BY <1>1, <1>2, <1>4, <1>5, InputsDecide DEF Okay, Blamed
  <2> QED BY <2>1, <2>2 DEF DoneInv
<1>9. IdleInv' /\ CollectInv'
  BY <1>1 DEF IdleInv, CollectInv
<1>10. ResponseInv'
  BY <1>1 DEF IInv, ResponseInv, Collected
<1> QED BY <1>7, <1>8, <1>9, <1>10 DEF IInv

LEMMA NextKeepsInv == IInv /\ [Next]_vars => IInv'
<1> SUFFICES ASSUME IInv, [Next]_vars PROVE IInv'
  OBVIOUS
<1>1. CASE HandlerStep
  BY <1>1, HandlerKeepsInv
<1>2. CASE VerifierStep /\ UNCHANGED <<handler, response>>
  BY <1>2, ElaborateKeepsInv, SkipKeepsInv, VisitKeepsInv, VerdictKeepsInv DEF VerifierStep
<1>3. CASE UNCHANGED vars
  <2>1. /\ UNCHANGED inputVars
        /\ phase' = phase /\ pending' = pending /\ seen' = seen /\ required' = required
        /\ toolErrors' = toolErrors /\ failed' = failed /\ handler' = handler /\ response' = response
        /\ formal' = formal /\ candidate' = candidate /\ text' = text
    BY <1>3 DEF vars, verifierVars, inputVars, loopVars, verdictVars
  <2>2. TypeOK' /\ IdleInv' /\ ResponseInv'
    BY <2>1 DEF IInv, TypeOK, VerifierTypeOK, IdleInv, ResponseInv, Okay
  <2>3. CollectInv'
    BY <2>1, InputsDecide DEF IInv, CollectInv, Collecting, Reached, Attributed
  <2>4. DoneInv'
    BY <2>1, InputsDecide DEF IInv, DoneInv, Blamed, Okay
  <2> QED BY <2>2, <2>3, <2>4 DEF IInv
<1> QED BY <1>1, <1>2, <1>3 DEF Next, Terminated

-----------------------------------------------------------------------------
(* The theorems.                                                           *)

(* IInv holds in every reachable state, for any names, any declarations    *)
(* among them and any faults of the candidate.                             *)
THEOREM Invariance == Spec => []IInv
BY InitInv, NextKeepsInv, PTL DEF Spec

(* The variables keep their types: the loop pushes declarations only, and  *)
(* each with a declaration as its owner.                                   *)
THEOREM TypeCorrect == Spec => []TypeOK
<1>1. IInv => TypeOK
  BY DEF IInv
<1> QED BY <1>1, Invariance, PTL

(* The response says okay for acceptable candidates and for no others,     *)
(* whatever the statement declares and however its declarations mention    *)
(* one another.                                                            *)
THEOREM VerdictCorrect == Spec => []VerdictExact
<1>1. IInv => VerdictExact
  BY DEF IInv, ResponseInv, DoneInv, VerdictExact, Okay, Acceptable
<1> QED BY <1>1, Invariance, PTL

(* A rejection that follows elaboration names declarations of the          *)
(* statement, each of which depends on something lacking or changed.       *)
THEOREM BlameCorrect == Spec => []BlameIsFair
<1>1. IInv => BlameIsFair
  BY DEF IInv, ResponseInv, DoneInv, BlameIsFair, Blamed
<1> QED BY <1>1, Invariance, PTL

(* Each turn of the loop visits a declaration for the first time or        *)
(* shortens the stack, so that mutual recursion cannot keep it going.      *)
THEOREM LoopTerminates == Spec => LoopShrinks
<1> DEFINE Turn == phase = "collecting" /\ phase' = "collecting" =>
                     \/ seen \subseteq seen' /\ seen # seen'
                     \/ seen' = seen /\ Len(pending') < Len(pending)
<1>1. IInv /\ [Next]_vars => [Turn]_verifierVars
  <2> SUFFICES ASSUME IInv, [Next]_vars, phase = "collecting", phase' = "collecting",
                      verifierVars' # verifierVars
               PROVE  \/ seen \subseteq seen' /\ seen # seen'
                      \/ seen' = seen /\ Len(pending') < Len(pending)
    OBVIOUS
  <2>1. SkipVisited \/ Visit
    BY DEF Next, HandlerStep, VerifierStep, Terminated, vars, RejectBody, RejectFields, BadRequest,
           Submit, Overloaded, Dispatch, TimesOut, Unavailable, WorkerGone, ReturnVerdict, Elaborate,
           RejectCommands, RejectMissing, Compare
  <2>2. CASE SkipVisited
    <3>1. pending \in Seq(Names \X Names)
      BY DEF IInv, TypeOK, VerifierTypeOK
    <3> QED BY <2>2, <3>1, PopFacts DEF SkipVisited
  <2>3. CASE Visit
    BY <2>3 DEF Visit
  <2> QED BY <2>1, <2>2, <2>3
<1> QED BY <1>1, Invariance, PTL DEF Spec, LoopShrinks
=============================================================================
