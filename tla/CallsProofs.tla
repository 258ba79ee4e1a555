---------------------------- MODULE CallsProofs ----------------------------
(***************************************************************************)
(* What a caller can rely on when an operation ends: that a context which  *)
(* is done stopped it in time (Cancellation, for any number of operations  *)
(* and of fields), and that its strings were freed and its outcome arrived *)
(* (FfiCall).                                                              *)
(***************************************************************************)
EXTENDS MCCalls, TLAPS

(* Cancellation: before the context is done nothing is owed or late; after *)
(* that, what is owed are the calls left but the one that looked before.   *)
CancelInv ==
    \A o \in Ops :
        /\ at[o] = "acquire" => left[o] > 0
        /\ ~cancelled \/ at[o] = "idle" => late[o] = 0 /\ owed[o] = 0
        /\ cancelled /\ at[o] \in {"precheck", "acquire", "check"} => owed[o] = left[o]
        /\ cancelled /\ at[o] \in {"marshal", "ffi"} => owed[o] + 1 = left[o]
        /\ at[o] = "marshal" => late[o] = 0
        /\ late[o] <= 1
        /\ result[o] = "ok" => owed[o] = 0
        /\ result[o] = "cancelled" => cancelled /\ owed[o] > 0

CancelIInv == TypeOK /\ CancelInv

(* FfiCall: what the pointers of a call point to at each place: the        *)
(* options are live until the deferred free, the result is null until Wrap *)
(* and live until Go has read it ...                                       *)
InCall == {"enter", "run", "wrap", "read", "return"}

OwnersInv ==
    /\ place = "marshal" => heap["options"] = "none"
    /\ place \in InCall => heap["options"] = "c"
    /\ place = "idle" => heap["options"] \in {"none", "freed"}
    /\ place \in {"marshal", "enter", "run", "wrap"} => heap["result"] = "none"
    /\ place = "read" => heap["result"] = Ffi!Owner(libResult)
    /\ place \in {"return", "idle"} => heap["result"] \in {"none", "freed", "client"}

(* ... what the library found, and how it is wrapped ...                   *)
Wrapped ==
    IF outcome.kind = "data"
    THEN [success |-> TRUE, data |-> Ffi!Text("data", {}), error |-> Ffi!Null]
    ELSE [success |-> FALSE, data |-> Ffi!Null,
          error |-> Ffi!StringToCStr(outcome.kind, outcome.marks)]

ResultInv ==
    /\ place \in {"idle", "marshal", "enter", "run"} => outcome = Ffi!None
    /\ place \in {"wrap", "read", "return"} =>
          outcome \in [kind : {"data"} \cup Ffi!Kinds, marks : SUBSET {"nul", "bad"}]
    /\ libResult = IF place \in {"read", "return"} THEN Wrapped ELSE Ffi!NoResult
    /\ place = "return" =>
          ret = IF libResult.success THEN libResult.data ELSE libResult.error

(* ... and that both looks at a value see the same.                        *)
Encrypted == "nul" \notin raw /\ "bad" \notin raw /\ eql
Verdict == IF Encrypted THEN "yes" ELSE "no"

AnswerInv ==
    /\ place \in InCall => "nul" \notin raw /\ optText = Ffi!Text("json", raw)
    /\ place = "run" => "bad" \notin raw
    /\ answer # "none" => answer = Verdict
    /\ parsed # "none" => parsed = Verdict

FfiIInv == Ffi!TypeOK /\ OwnersInv /\ ResultInv /\ AnswerInv

IInv == CancelIInv /\ FfiIInv

-----------------------------------------------------------------------------
(* Cancellation.                                                           *)

LEMMA CancelTypes ==
    ASSUME TypeOK, CancelInv, [Next]_vars
    PROVE  TypeOK'
<1> USE FieldsAssumption DEF TypeOK, Inside, Results, Goto, End
<1>1. CASE UNCHANGED vars
  BY <1>1 DEF vars
<1>2. ASSUME NEW o \in Ops, Begin(o)
      PROVE  TypeOK'
  <2>1. 1 \in 0..MaxFields
    OBVIOUS
  <2>2. left' \in [Ops -> 0..MaxFields] /\ left'[o] \in 0..MaxFields
    BY <1>2, <2>1 DEF Begin
  <2>3. owed' \in [Ops -> 0..MaxFields]
    BY <1>2, <2>2 DEF Begin
  <2>4. /\ at' \in [Ops -> {"idle", "precheck", "acquire", "check", "marshal", "ffi", "done"}]
        /\ at'[o] \in {"acquire", "precheck"} /\ at[o] = "idle" /\ result' = result
        /\ \A q \in Ops : q # o => at'[q] = at[q] /\ left'[q] = left[q]
        /\ UNCHANGED <<cancelled, closed, late>>
    BY <1>2 DEF Begin
  <2> QED
    BY <2>2, <2>3, <2>4
<1>3. ASSUME NEW o \in Ops, Precheck(o) \/ AcquirePtr(o)
      PROVE  TypeOK'
  BY <1>3 DEF Precheck, AcquirePtr, CancelInv
<1>4. ASSUME NEW o \in Ops, Check(o)
      PROVE  TypeOK'
  BY <1>4 DEF Check
<1>5. ASSUME NEW o \in Ops, Marshal(o)
      PROVE  TypeOK'
  <2>1. late[o] = 0
    BY <1>5 DEF Marshal, CancelInv
  <2>2. 1 \in 0..MaxFields
    OBVIOUS
  <2> QED
    BY <1>5, <2>1, <2>2 DEF Marshal
<1>6. ASSUME NEW o \in Ops, Native(o)
      PROVE  TypeOK'
  <2>1. left[o] \in 1..MaxFields /\ left[o] - 1 \in 0..MaxFields
    BY <1>6 DEF Native
  <2> QED
    BY <1>6, <2>1 DEF Native
<1>7. CASE Cancel
  <2>1. \A o \in Ops : at[o] \notin {"idle", "done"} => left[o] - Looked(o) \in 0..MaxFields
    BY DEF Looked
  <2> QED
    BY <1>7, <2>1 DEF Cancel
<1>8. CASE Close
  BY <1>8 DEF Close
<1> HIDE DEF TypeOK, Inside, Results, Goto, End
<1> QED
  BY <1>1, <1>2, <1>3, <1>4, <1>5, <1>6, <1>7, <1>8 DEF Next

LEMMA CancelPreserved ==
    ASSUME TypeOK, CancelInv, [Next]_vars
    PROVE  CancelInv'
<1> USE FieldsAssumption DEF TypeOK, CancelInv, Inside, Results, Goto, End
<1>1. CASE UNCHANGED vars
  BY <1>1 DEF vars
<1>2. ASSUME NEW o \in Ops, Begin(o)
      PROVE  CancelInv'
  BY <1>2 DEF Begin
<1>3. ASSUME NEW o \in Ops, Precheck(o) \/ AcquirePtr(o)
      PROVE  CancelInv'
  BY <1>3 DEF Precheck, AcquirePtr
<1>4. ASSUME NEW o \in Ops, Check(o)
      PROVE  CancelInv'
  BY <1>4 DEF Check
<1>5. ASSUME NEW o \in Ops, Marshal(o)
      PROVE  CancelInv'
  BY <1>5 DEF Marshal
<1>6. ASSUME NEW o \in Ops, Native(o)
      PROVE  CancelInv'
  BY <1>6 DEF Native
<1>7. CASE Cancel
  BY <1>7 DEF Cancel, Looked
<1>8. CASE Close
  BY <1>8 DEF Close
<1> HIDE DEF TypeOK, CancelInv, Inside, Results, Goto, End
<1> QED
  BY <1>1, <1>2, <1>3, <1>4, <1>5, <1>6, <1>7, <1>8 DEF Next

-----------------------------------------------------------------------------
(* FfiCall.                                                                *)

LEMMA FfiTypes ==
    ASSUME FfiIInv, [Ffi!Next]_(Ffi!vars)
    PROVE  Ffi!TypeOK'
<1> USE DEF FfiIInv, Ffi!TypeOK, Ffi!Text, Ffi!None, Ffi!Null, Ffi!caller, InCall
<1>1. /\ named' = named /\ raw' = raw /\ eql' = eql
      /\ op' \in Ffi!Exports
      /\ place' \in {"idle", "marshal", "enter", "run", "wrap", "read", "return"}
  BY DEF Ffi!Next, Ffi!vars, Ffi!Call, Ffi!Marshal, Ffi!ReadOptions, Ffi!IsEncrypted, Ffi!Run,
     Ffi!Wrap, Ffi!ReadResult, Ffi!Return
<1>2. optText' = Ffi!None \/ optText'.marks \subseteq {"bad"}
  <2>1. optText' = optText \/ Ffi!Marshal \/ optText' = Ffi!None
    BY DEF Ffi!Next, Ffi!vars, Ffi!Call, Ffi!ReadOptions, Ffi!IsEncrypted, Ffi!Run,
       Ffi!Wrap, Ffi!ReadResult, Ffi!Return
  <2>2. ASSUME Ffi!Marshal, optText' # optText
        PROVE  optText'.marks \subseteq {"bad"}
    <3>1. raw \subseteq {"bad"} /\ optText' = [kind |-> "json", marks |-> raw]
      BY <2>2 DEF Ffi!Marshal
    <3> QED
      BY <3>1
  <2> QED
    BY <2>1, <2>2
<1>3. libResult'.success => libResult'.error = Ffi!Null
  <2>1. libResult' = libResult \/ Ffi!Wrap \/ libResult' = Ffi!NoResult
    BY DEF Ffi!Next, Ffi!vars, Ffi!Call, Ffi!Marshal, Ffi!ReadOptions, Ffi!IsEncrypted, Ffi!Run,
       Ffi!ReadResult, Ffi!Return
  <2>2. Ffi!Wrap => (libResult'.success => libResult'.error = Ffi!Null)
    <3>1. CASE outcome.kind = "data"
      BY <3>1 DEF Ffi!Wrap
    <3>2. CASE outcome.kind # "data"
      <4>1. Ffi!Wrap => libResult' = [success |-> FALSE, data |-> Ffi!Null,
                           error |-> Ffi!StringToCStr(outcome.kind, outcome.marks)]
        BY <3>2 DEF Ffi!Wrap
      <4>2. Ffi!Wrap => libResult'.success = FALSE
        BY <4>1
      <4> QED
        BY <4>2
    <3> QED
      BY <3>1, <3>2
  <2>3. libResult' = Ffi!NoResult => libResult'.error = Ffi!Null
    BY DEF Ffi!NoResult
  <2> QED
    BY <2>1, <2>2, <2>3
<1>4. heap' \in [{"options", "result"} -> {"none", "c", "rust", "client", "freed", "corrupt"}]
  <2>1. \A r : Ffi!Owner(r) \in {"none", "rust", "client"}
    BY DEF Ffi!Owner
  <2>2. CASE Ffi!IsEncrypted \/ Ffi!ReadResult \/ Ffi!Return
    BY <2>2 DEF Ffi!IsEncrypted, Ffi!ReadResult, Ffi!Return, Ffi!Freed
  <2>3. CASE Ffi!Marshal
    BY <2>3 DEF Ffi!Marshal
  <2>4. CASE Ffi!Wrap
    BY <2>1, <2>4 DEF Ffi!Wrap
  <2>5. CASE heap' = heap \/ heap' = [s \in {"options", "result"} |-> "none"]
    BY <2>5
  <2> QED
    BY <2>2, <2>3, <2>4, <2>5 DEF Ffi!Next, Ffi!vars, Ffi!Call, Ffi!ReadOptions, Ffi!Run
<1>5. answer' \in {"none", "yes", "no"} /\ parsed' \in {"none", "yes", "no"}
  BY DEF Ffi!Next, Ffi!vars, Ffi!Call, Ffi!Marshal, Ffi!ReadOptions, Ffi!IsEncrypted, Ffi!Run,
     Ffi!Wrap, Ffi!ReadResult, Ffi!Return
<1> QED
  BY <1>1, <1>2, <1>3, <1>4, <1>5

(* Every free meets a live string of its side, or a null pointer.          *)
LEMMA OwnersPreserved ==
    ASSUME FfiIInv, [Ffi!Next]_(Ffi!vars)
    PROVE  OwnersInv'
<1> USE DEF FfiIInv, Ffi!TypeOK, OwnersInv, Ffi!Freed, InCall
<1>1. CASE UNCHANGED Ffi!vars
  BY <1>1 DEF Ffi!vars, Ffi!Owner
<1>2. ASSUME NEW o \in Ffi!Exports, Ffi!Call(o)
      PROVE  OwnersInv'
  BY <1>2 DEF Ffi!Call
<1>3. CASE Ffi!Marshal
  BY <1>3 DEF Ffi!Marshal
<1>4. CASE Ffi!ReadOptions
  BY <1>4 DEF Ffi!ReadOptions
<1>5. CASE Ffi!IsEncrypted
  BY <1>5 DEF Ffi!IsEncrypted
<1>6. CASE Ffi!Run
  BY <1>6 DEF Ffi!Run
<1>7. CASE Ffi!Wrap
  <2>1. Ffi!Owner(libResult)' = Ffi!Owner(libResult')
    BY <1>7 DEF Ffi!Wrap, Ffi!Owner
  <2> QED
    BY <1>7, <2>1 DEF Ffi!Wrap
<1>8. CASE Ffi!ReadResult
  <2>1. IF libResult.success /\ op = "NewClient" THEN Ffi!Owner(libResult) = "client"
        ELSE Ffi!Owner(libResult) \in {"none", "rust"}
    BY DEF Ffi!Owner
  <2> QED
    BY <1>8, <2>1 DEF Ffi!ReadResult
<1>9. CASE Ffi!Return
  BY <1>9 DEF Ffi!Return
<1> HIDE DEF FfiIInv, Ffi!TypeOK, OwnersInv, Ffi!Freed, InCall
<1> QED
  BY <1>1, <1>2, <1>3, <1>4, <1>5, <1>6, <1>7, <1>8, <1>9 DEF Ffi!Next

(* What the library finds is what the result wraps.                        *)
LEMMA ResultPreserved ==
    ASSUME FfiIInv, [Ffi!Next]_(Ffi!vars)
    PROVE  ResultInv'
<1> USE DEF FfiIInv, Ffi!TypeOK, ResultInv
<1>1. CASE UNCHANGED Ffi!vars
  BY <1>1 DEF Ffi!vars, Wrapped
<1>2. ASSUME NEW o \in Ffi!Exports, Ffi!Call(o)
      PROVE  ResultInv'
  BY <1>2 DEF Ffi!Call
<1>3. CASE Ffi!Marshal
  BY <1>3 DEF Ffi!Marshal
<1>4. CASE Ffi!ReadOptions
  BY <1>4 DEF Ffi!ReadOptions, Ffi!Text, Ffi!Kinds
<1>5. CASE Ffi!IsEncrypted
  BY <1>5 DEF Ffi!IsEncrypted
<1>6. CASE Ffi!Run
  <2>1. outcome' \in [kind : {"data"} \cup Ffi!Kinds, marks : SUBSET {"nul", "bad"}]
    <3>1. /\ {} \in SUBSET {"nul", "bad"} /\ named \ {"bad"} \in SUBSET {"nul", "bad"}
          /\ "other" \in Ffi!Kinds
      BY DEF Ffi!Kinds
    <3>2. \A k \in {"data"} \cup Ffi!Kinds : \A marks \in {{}, named \ {"bad"}} :
             Ffi!Text(k, marks) \in [kind : {"data"} \cup Ffi!Kinds, marks : SUBSET {"nul", "bad"}]
      BY <3>1 DEF Ffi!Text
    <3>3. \E k \in {"data"} \cup Ffi!Kinds : \E marks \in {{}, named \ {"bad"}} :
             outcome' = Ffi!Text(k, marks)
      BY <1>6, <3>1 DEF Ffi!Run
    <3> QED
      BY <3>2, <3>3
  <2> QED
    BY <1>6, <2>1 DEF Ffi!Run
<1>7. CASE Ffi!Wrap
  <2>1. libResult' = Wrapped'
    BY <1>7 DEF Ffi!Wrap, Wrapped, Ffi!StringToCStr
  <2> QED
    BY <1>7, <2>1 DEF Ffi!Wrap
<1>8. CASE Ffi!ReadResult
  <2>1. Wrapped' = Wrapped
    BY <1>8 DEF Ffi!ReadResult, Wrapped
  <2> QED
    BY <1>8, <2>1 DEF Ffi!ReadResult
<1>9. CASE Ffi!Return
  BY <1>9 DEF Ffi!Return
<1> HIDE DEF FfiIInv, Ffi!TypeOK, ResultInv
<1> QED
  BY <1>1, <1>2, <1>3, <1>4, <1>5, <1>6, <1>7, <1>8, <1>9 DEF Ffi!Next

(* IsEncrypted and Decrypt come to the same verdict about the same value.  *)
LEMMA AnswerPreserved ==
    ASSUME FfiIInv, [Ffi!Next]_(Ffi!vars)
    PROVE  AnswerInv'
<1> USE DEF FfiIInv, Ffi!TypeOK, AnswerInv, Verdict, Encrypted, InCall, Ffi!caller
<1>1. CASE UNCHANGED Ffi!vars
  BY <1>1 DEF Ffi!vars
<1>2. ASSUME NEW o \in Ffi!Exports, Ffi!Call(o)
      PROVE  AnswerInv'
  BY <1>2 DEF Ffi!Call
<1>3. CASE Ffi!Marshal
  BY <1>3 DEF Ffi!Marshal
<1>4. CASE Ffi!ReadOptions
  BY <1>4 DEF Ffi!ReadOptions, Ffi!Text
<1>5. CASE Ffi!IsEncrypted
  BY <1>5 DEF Ffi!IsEncrypted, Ffi!Text
<1>6. CASE Ffi!Run
  BY <1>6 DEF Ffi!Run
<1>7. CASE Ffi!Wrap \/ Ffi!ReadResult \/ Ffi!Return
  BY <1>7 DEF Ffi!Wrap, Ffi!ReadResult, Ffi!Return
<1> HIDE DEF FfiIInv, Ffi!TypeOK, AnswerInv, Verdict, Encrypted, InCall, Ffi!caller
<1> QED
  BY <1>1, <1>2, <1>3, <1>4, <1>5, <1>6, <1>7 DEF Ffi!Next

-----------------------------------------------------------------------------
LEMMA InitIInv ==
    ASSUME CallsInit
    PROVE  IInv
<1>1. CancelIInv
  <2>1. cancelled \in BOOLEAN /\ closed \in BOOLEAN
    BY DEF CallsInit, Init
  <2>3. 0 \in 0..MaxFields
    BY FieldsAssumption
  <2>4. /\ at \in [Ops -> {"idle", "precheck", "acquire", "check", "marshal", "ffi", "done"}]
        /\ left \in [Ops -> 0..MaxFields] /\ late \in [Ops -> 0..MaxFields]
        /\ owed \in [Ops -> 0..MaxFields] /\ result \in [Ops -> Results]
        /\ \A o \in Ops : at[o] = "idle" /\ result[o] = "none" /\ late[o] = 0 /\ owed[o] = 0
    BY <2>3 DEF CallsInit, Init, Results
  <2>2. CancelInv
    <3> SUFFICES ASSUME NEW o \in Ops
                 PROVE  /\ at[o] = "idle" /\ late[o] = 0 /\ owed[o] = 0
                        /\ late[o] <= 1 /\ result[o] \notin {"ok", "cancelled"}
      BY Zenon DEF CancelInv
    <3> QED
      BY <2>4
  <2>5. /\ \A o \in Ops : at[o] = "done" <=> result[o] # "none"
        /\ \A o \in Ops : Inside(o) => left[o] > 0 /\ ~closed
    BY <2>4 DEF Inside
  <2> QED
    BY <2>1, <2>2, <2>4, <2>5, Zenon DEF CancelIInv, TypeOK
<1>2. Ffi!TypeOK
  BY DEF CallsInit, Ffi!Init, Ffi!TypeOK, Ffi!None, Ffi!Null, Ffi!NoResult, Ffi!Exports
<1>3. OwnersInv /\ ResultInv /\ AnswerInv
  BY DEF CallsInit, Ffi!Init, OwnersInv, ResultInv, AnswerInv, InCall
<1> QED
  BY <1>1, <1>2, <1>3 DEF IInv, FfiIInv

LEMMA CancelIInvPreserved == CancelIInv /\ [Next]_vars => CancelIInv'
BY CancelTypes, CancelPreserved DEF CancelIInv

LEMMA FfiIInvPreserved == FfiIInv /\ [Ffi!Next]_(Ffi!vars) => FfiIInv'
BY FfiTypes, OwnersPreserved, ResultPreserved, AnswerPreserved DEF FfiIInv

LEMMA IInvPreserved ==
    ASSUME IInv, [CallsNext]_allVars
    PROVE  IInv'
<1>1. [Next]_vars /\ [Ffi!Next]_(Ffi!vars)
  BY DEF CallsNext, Texts, Context, allVars, ffiVars, Ffi!vars
<1> QED
  BY <1>1, CancelIInvPreserved, FfiIInvPreserved DEF IInv

LEMMA DecidesByIInv ==
    ASSUME CancelIInv
    PROVE  CancelDecides
BY DEF CancelIInv, CancelInv, CancelDecides

LEMMA FreedByIInv ==
    ASSUME FfiIInv
    PROVE  StringsFreed
<1>1. /\ DOMAIN heap = {"options", "result"}
      /\ place \in InCall \cup {"idle", "marshal"}
  BY DEF FfiIInv, Ffi!TypeOK, InCall
<1>2. /\ heap["options"] \in {"none", "c", "freed"}
      /\ heap["result"] \in {"none", "rust", "client", "freed"}
      /\ place = "idle" => heap["options"] # "c" /\ heap["result"] # "rust"
  BY <1>1 DEF FfiIInv, OwnersInv, InCall, Ffi!Owner
<1> QED
  BY <1>1, <1>2 DEF FfiIInv, StringsFreed, Ffi!StringsFreed

LEMMA ArrivesByIInv ==
    ASSUME FfiIInv
    PROVE  OutcomeArrives
<1>1. Ffi!SuccessHasData
  BY DEF FfiIInv, ResultInv, Wrapped, Ffi!SuccessHasData, Ffi!Text
<1>2. Ffi!ErrorsArrive
  <2> SUFFICES ASSUME place = "return", outcome.kind \in Ffi!Kinds
               PROVE  ret = IF "nul" \in outcome.marks THEN Ffi!Null ELSE outcome
    BY DEF Ffi!ErrorsArrive
  <2>1. /\ outcome \in [kind : {"data"} \cup Ffi!Kinds, marks : SUBSET {"nul", "bad"}]
        /\ outcome.kind # "data"
        /\ libResult = Wrapped
        /\ ret = IF libResult.success THEN libResult.data ELSE libResult.error
    BY DEF FfiIInv, ResultInv, Ffi!Kinds
  <2>2. ret = Ffi!StringToCStr(outcome.kind, outcome.marks)
    BY <2>1 DEF Wrapped
  <2>3. outcome = [kind |-> outcome.kind, marks |-> outcome.marks]
    BY <2>1
  <2> QED
    BY <2>2, <2>3 DEF Ffi!StringToCStr, Ffi!Text
<1>3. Ffi!IsEncryptedAgrees
  BY DEF FfiIInv, AnswerInv, Ffi!IsEncryptedAgrees
<1> QED
  BY <1>1, <1>2, <1>3 DEF OutcomeArrives, Ffi!OutcomeArrives

-----------------------------------------------------------------------------
(* The inductive invariants hold throughout.                               *)
THEOREM Invariance == CallsSpec => []IInv
<1>1. CallsInit => IInv
  BY InitIInv
<1>2. IInv /\ [CallsNext]_allVars => IInv'
  BY IInvPreserved
<1> QED
  BY <1>1, <1>2, PTL DEF CallsSpec

(* A context that is done stops every operation under it within one native *)
(* call, and an operation reports it exactly if it still owed one          *)
(* (protect.go's ctx.Err checks, model.go's loops).                        *)
THEOREM CancellationDecides == CallsSpec => []CancelDecides
<1>1. IInv => CancelDecides
  BY DecidesByIInv DEF IInv
<1> QED
  BY <1>1, Invariance, PTL

(* Each C string is freed exactly once, by the side that made it, on every *)
(* path through a call: no free meets a dangling pointer (protect.go,      *)
(* lib.rs: protect_free_string).                                           *)
THEOREM Ownership == CallsSpec => []StringsFreed
<1>1. IInv => StringsFreed
  BY FreedByIInv DEF IInv
<1> QED
  BY <1>1, Invariance, PTL

(* Data and errors of the library reach the caller, except a message that  *)
(* quotes U+0000, and IsEncrypted accepts what Decrypt can parse.          *)
THEOREM Arrival == CallsSpec => []OutcomeArrives
<1>1. IInv => OutcomeArrives
  BY ArrivesByIInv DEF IInv
<1> QED
  BY <1>1, Invariance, PTL
=============================================================================
