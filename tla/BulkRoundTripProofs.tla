------------------------- MODULE BulkRoundTripProofs -------------------------
(***************************************************************************)
(* The safety of bulk decryption and of the round trip, for requests of    *)
(* any length under any number of lock contexts.  The inductive invariant  *)
(* has one part per phase of a decryption: what its loops have established *)
(* of the items they passed, and that the results so far are what a single *)
(* Decrypt of each item would return.  The round trip adds what ties the   *)
(* ciphertexts that were picked to those EncryptBulk answered, about which *)
(* BulkEncryptProofs is instantiated.                                      *)
(***************************************************************************)
EXTENDS BulkRoundTrip, TLAPS

EncP == INSTANCE BulkEncryptProofs WITH
    items <- eitems, callCtx <- ectx, phase <- ephase, next <- enext,
    results <- slots, outcome <- eoutcome

(* What a fallible decryption should report of item i.                     *)
Expected(i) ==
    [data |-> IF DecryptOne(i) = "ok" THEN GoValue(i) ELSE 0,
     err |-> IF DecryptOne(i) = "ok" THEN NoError ELSE DecryptOne(i)]

(* The results are those of the items before m.                            *)
DecodedBefore(op, m) ==
    /\ Len(results[op]) + 1 = m
    /\ \A i \in 1..N : i < m =>
          results[op][i] = Expected(i) /\ (op = Strict => DecryptOne(i) = "ok")

LoopsInv(op) ==
    /\ phase[op] \in {"start", "records", "decrypt"} => results[op] = << >>
    /\ phase[op] = "start" => next[op] = 1
    /\ phase[op] = "records" =>
          \A i \in 1..N : /\ items[i].kind # "nil"
                          /\ i < next[op] => items[i].kind # "noCiphertext"
    /\ phase[op] \in {"decrypt", "decode"} => \A i \in 1..N : items[i].kind \in Stored
    /\ phase[op] = "decode" =>
          /\ next[op] <= N + 1
          /\ failed[op] = WrongContext
          /\ op = Strict => WrongContext = {}
          /\ DecodedBefore(op, next[op])

EndInv(op) ==
    /\ phase[op] = "done" <=> outcome[op] # "none"
    /\ outcome[op] = "ok" =>
          /\ \A i \in 1..N : items[i].kind \in Stored
          /\ DecodedBefore(op, N + 1)
    /\ outcome[op] \in {"malformed", "invariant"} => \E i \in 1..N : DecryptOne(i) # "ok"
    /\ outcome[op] = "item" => op = Strict /\ \E i \in 1..N : DecryptOne(i) # "ok"

DecryptInv == \A op \in Ops : LoopsInv(op) /\ EndInv(op)

(* Nothing is picked but from a complete answer, and nothing is decrypted  *)
(* before that.                                                            *)
PickedInv ==
    /\ source = "storage" => eoutcome = "none" /\ picked = << >>
    /\ eoutcome = "ok" => \A i \in 1..Len(eitems) : slots[i] # Enc!NoResult
    /\ picked = << >> /\ source = "answer" => \A op \in Ops : phase[op] = "start"
    /\ picked # << >> =>
          /\ eoutcome = "ok"
          /\ \A k \in 1..Len(picked) :
                items[k] = [kind |-> "value", ctx |-> slots[picked[k]].ctx]

IInv ==
    /\ RoundTripTypeOK
    /\ EncP!IInv
    /\ DecryptInv
    /\ PickedInv

-----------------------------------------------------------------------------
(* A decryption.                                                           *)

(* What a single Decrypt returns, by what the item is.                     *)
LEMMA Singles ==
    ASSUME TypeOK, NEW i \in 1..N
    PROVE  /\ items[i] \in Item
           /\ DecryptOne(i) = "ok" <=>
                 items[i].kind \in {"value", "null"} /\ items[i].ctx = callCtx
           /\ items[i].kind \in Stored /\ items[i].ctx # callCtx =>
                 DecryptOne(i) = "wrongContext"
           /\ items[i].kind = "undecodable" /\ items[i].ctx = callCtx =>
                 DecryptOne(i) = "undecodable"
<1>1. items[i] \in Item
  BY DEF TypeOK, N
<1>2. items[i].kind \in {"nil", "noCiphertext", "value", "null", "undecodable"}
  BY <1>1 DEF Item, Stored
<1> QED
  BY <1>1, <1>2 DEF DecryptOne, Stored

LEMMA ExpectedIsResult ==
    ASSUME TypeOK, NEW i \in 1..N, items[i].kind \in Stored
    PROVE  Expected(i) \in Result
<1>1. DecryptOne(i) \in {"ok", "wrongContext", "undecodable"}
  BY Singles DEF Stored
<1>2. GoValue(i) \in 0..MaxItems
  BY DecryptAssumption DEF GoValue, TypeOK, N
<1> QED
  BY <1>1, <1>2, DecryptAssumption DEF Expected, Result, ItemErrors, NoError

DecryptStep(op) ==
    \/ Reject(op) \/ ParseRequest(op) \/ BuildRecord(op) \/ RecordsBuilt(op)
    \/ AskKms(op) \/ DecodeItem(op) \/ Decoded(op)

(* A step of one call is a step of that call alone, on the same request.   *)
LEMMA StepsApart ==
    ASSUME TypeOK, NEW p \in Ops, DecryptStep(p)
    PROVE  /\ items' = items /\ callCtx' = callCtx
           /\ N' = N /\ WrongContext' = WrongContext
           /\ \A i : DecryptOne(i)' = DecryptOne(i) /\ Expected(i)' = Expected(i)
           /\ \A q \in Ops : q # p =>
                 /\ phase'[q] = phase[q] /\ next'[q] = next[q] /\ failed'[q] = failed[q]
                 /\ results'[q] = results[q] /\ outcome'[q] = outcome[q]
<1> USE DEF DecryptStep, request, Reject, ParseRequest, BuildRecord, RecordsBuilt, AskKms,
            DecodeItem, Decoded
<1>1. items' = items /\ callCtx' = callCtx
  OBVIOUS
<1>2. \A q \in Ops : q # p =>
         /\ phase'[q] = phase[q] /\ next'[q] = next[q] /\ failed'[q] = failed[q]
         /\ results'[q] = results[q] /\ outcome'[q] = outcome[q]
  BY DEF TypeOK, End, Goto, Yield
<1> HIDE DEF DecryptStep, request, Reject, ParseRequest, BuildRecord, RecordsBuilt, AskKms,
             DecodeItem, Decoded
<1>3. N' = N /\ WrongContext' = WrongContext
  BY <1>1 DEF N, WrongContext
<1>4. \A i : DecryptOne(i)' = DecryptOne(i) /\ Expected(i)' = Expected(i)
  BY <1>1 DEF DecryptOne, Expected, GoValue
<1> QED
  BY <1>1, <1>2, <1>3, <1>4

(* Decoding an item appends what a single Decrypt would return, or ends    *)
(* DecryptBulk because such a Decrypt would fail.                          *)
LEMMA DecodesExpected ==
    ASSUME TypeOK, NEW p \in Ops, LoopsInv(p), DecodeItem(p)
    PROVE  /\ next[p] \in 1..N /\ phase[p] = "decode"
           /\ \/ /\ results' = [results EXCEPT ![p] = Append(@, Expected(next[p]))]
                 /\ next' = [next EXCEPT ![p] = @ + 1]
                 /\ p = Strict => DecryptOne(next[p]) = "ok"
                 /\ UNCHANGED <<phase, outcome>>
              \/ /\ p = Strict /\ DecryptOne(next[p]) # "ok"
                 /\ End(p, "item")
                 /\ UNCHANGED <<next, results>>
           /\ UNCHANGED failed
<1> DEFINE i == next[p]
<1>1. i \in 1..N /\ phase[p] = "decode" /\ N \in Nat
  BY DEF DecodeItem, TypeOK, N
<1>2. /\ items[i].kind \in Stored /\ failed[p] = WrongContext
      /\ p = Strict => WrongContext = {}
  BY <1>1 DEF LoopsInv
<1>3. i \in failed[p] <=> items[i].ctx # callCtx
  BY <1>1, <1>2 DEF WrongContext
<1>4. CASE i \in failed[p]
  <2>1. Yield(p, 0, "wrongContext") /\ UNCHANGED failed
    BY <1>4 DEF DecodeItem
  <2>2. DecryptOne(i) = "wrongContext" /\ p # Strict
    BY <1>1, <1>2, <1>3, <1>4, Singles
  <2>3. Expected(i) = [data |-> 0, err |-> "wrongContext"]
    BY <2>2 DEF Expected
  <2> QED
    BY <1>1, <2>1, <2>2, <2>3 DEF Yield
<1>5. CASE i \notin failed[p] /\ items[i].kind = "undecodable"
  <2>1. DecryptOne(i) = "undecodable"
    BY <1>1, <1>3, <1>5, Singles
  <2>2. Expected(i) = [data |-> 0, err |-> "undecodable"]
    BY <2>1 DEF Expected
  <2>3. \/ p = "DecryptBulk" /\ End(p, "item") /\ UNCHANGED <<next, results>>
        \/ p = "DecryptBulkFallible" /\ Yield(p, 0, "undecodable")
    BY <1>5 DEF DecodeItem
  <2>4. UNCHANGED failed
    BY DEF DecodeItem
  <2> QED
    BY <1>1, <2>1, <2>2, <2>3, <2>4 DEF Yield, Strict
<1>6. CASE i \notin failed[p] /\ items[i].kind # "undecodable"
  <2>1. Yield(p, GoValue(i), NoError) /\ UNCHANGED failed
    BY <1>6 DEF DecodeItem
  <2>2. DecryptOne(i) = "ok"
    BY <1>1, <1>2, <1>3, <1>6, Singles DEF Stored
  <2>3. Expected(i) = [data |-> GoValue(i), err |-> NoError]
    BY <2>2 DEF Expected
  <2> QED
    BY <1>1, <2>1, <2>2, <2>3 DEF Yield
<1> QED
  BY <1>4, <1>5, <1>6

(* Every step keeps every variable in its type.                            *)
LEMMA TypePreserved ==
    ASSUME TypeOK, NEW p \in Ops, LoopsInv(p), DecryptStep(p)
    PROVE  TypeOK'
<1>0. items' = items /\ callCtx' = callCtx /\ N' = N
  BY StepsApart
<1> USE <1>0
<1>1. /\ phase' \in [Ops -> {"start", "records", "decrypt", "decode", "done"}]
      /\ outcome' \in [Ops -> {"none", "ok"} \cup CallErrors]
  BY DEF TypeOK, CallErrors, DecryptStep, Reject, ParseRequest, BuildRecord, RecordsBuilt,
     AskKms, DecodeItem, Decoded, End, Goto, Yield
<1>2. next' \in [Ops -> Nat \ {0}]
  BY DEF TypeOK, DecryptStep, Reject, ParseRequest, BuildRecord, RecordsBuilt,
     AskKms, DecodeItem, Decoded, Yield
<1>3. failed' \in [Ops -> SUBSET (1..N')]
  <2>1. WrongContext \in SUBSET (1..N)
    BY DEF WrongContext
  <2> QED
    BY <2>1 DEF TypeOK, DecryptStep, Reject, ParseRequest, BuildRecord, RecordsBuilt,
       AskKms, DecodeItem, Decoded
<1>4. results' \in [Ops -> Seq(Result)]
  <2>1. CASE DecodeItem(p)
    <3>1. next[p] \in 1..N /\ items[next[p]].kind \in Stored
      BY <2>1, DecodesExpected DEF LoopsInv
    <3>2. Append(results[p], Expected(next[p])) \in Seq(Result)
      BY <3>1, ExpectedIsResult DEF TypeOK
    <3> QED
      BY <2>1, <3>2, DecodesExpected DEF TypeOK
  <2>2. CASE ~DecodeItem(p)
    BY <2>2 DEF TypeOK, DecryptStep, Reject, ParseRequest, BuildRecord, RecordsBuilt,
       AskKms, Decoded
  <2> QED
    BY <2>1, <2>2
<1> QED
  BY <1>1, <1>2, <1>3, <1>4 DEF TypeOK

(* What the loops have established stays so for the call that steps.       *)
LEMMA LoopsPreserved ==
    ASSUME TypeOK, NEW p \in Ops, LoopsInv(p), DecryptStep(p)
    PROVE  LoopsInv(p)'
<1>0. /\ items' = items /\ callCtx' = callCtx /\ N' = N /\ WrongContext' = WrongContext
      /\ \A i : DecryptOne(i)' = DecryptOne(i) /\ Expected(i)' = Expected(i)
  BY StepsApart
<1>1. N \in Nat /\ next[p] \in Nat \ {0} /\ results[p] \in Seq(Result)
  BY DEF TypeOK, N
<1>2. CASE Reject(p) \/ Decoded(p)
  BY <1>2 DEF Reject, Decoded, End, Goto, LoopsInv, TypeOK
<1>3. CASE ParseRequest(p)
  <2>1. /\ phase[p] = "start" /\ next' = next /\ results' = results
        /\ \/ phase'[p] = "done"
           \/ phase'[p] = "records" /\ \A i \in 1..N : items[i].kind # "nil"
    BY <1>3 DEF ParseRequest, End, Goto, TypeOK
  <2>2. results[p] = << >> /\ next[p] = 1
    BY <2>1 DEF LoopsInv
  <2>3. \A i \in 1..N : ~(i < next[p])
    BY <2>2
  <2> QED
    BY <1>0, <2>1, <2>2, <2>3 DEF LoopsInv
<1>4. CASE BuildRecord(p)
  <2>1. /\ phase[p] = "records" /\ results' = results
        /\ \/ phase'[p] = "done"
           \/ /\ phase'[p] = "records" /\ next'[p] = next[p] + 1
              /\ items[next[p]].kind # "noCiphertext"
    BY <1>4 DEF BuildRecord, End, Goto, TypeOK
  <2>2. /\ results[p] = << >>
        /\ \A i \in 1..N : items[i].kind # "nil"
        /\ \A i \in 1..N : i < next[p] => items[i].kind # "noCiphertext"
    BY <2>1 DEF LoopsInv
  <2>3. \A i \in 1..N : i < next[p] + 1 => i < next[p] \/ i = next[p]
    BY <1>1
  <2> QED
    BY <1>0, <2>1, <2>2, <2>3 DEF LoopsInv
<1>5. CASE RecordsBuilt(p)
  <2>1. /\ phase[p] = "records" /\ phase'[p] = "decrypt" /\ results' = results
        /\ next[p] > N
    BY <1>5 DEF RecordsBuilt, Goto, TypeOK
  <2>2. \A i \in 1..N : items[i].kind \notin {"nil", "noCiphertext"}
    BY <1>1, <2>1 DEF LoopsInv
  <2>3. \A i \in 1..N : items[i].kind \in Stored
    BY <2>2, Singles DEF Item
  <2> QED
    BY <1>0, <2>1, <2>3 DEF LoopsInv
<1>6. CASE AskKms(p)
  <2>1. /\ phase[p] = "decrypt" /\ results' = results
        /\ \/ phase'[p] = "done"
           \/ /\ phase'[p] = "decode" /\ next'[p] = 1 /\ failed'[p] = WrongContext
              /\ p = Strict => WrongContext = {}
    BY <1>6 DEF AskKms, End, Goto, TypeOK, Strict
  <2>2. results[p] = << >> /\ \A i \in 1..N : items[i].kind \in Stored
    BY <2>1 DEF LoopsInv
  <2>3. phase'[p] = "decode" => next'[p] <= N + 1 /\ DecodedBefore(p, next[p])'
    BY <1>0, <1>1, <2>1, <2>2 DEF DecodedBefore
  <2> QED
    BY <1>0, <2>1, <2>2, <2>3 DEF LoopsInv
<1>7. CASE DecodeItem(p)
  <2>1. next[p] \in 1..N /\ phase[p] = "decode" /\ failed'[p] = failed[p]
    BY <1>7, DecodesExpected
  <2>2. /\ failed[p] = WrongContext
        /\ p = Strict => WrongContext = {}
        /\ DecodedBefore(p, next[p]) /\ \A i \in 1..N : items[i].kind \in Stored
    BY <2>1 DEF LoopsInv
  <2>3. CASE phase'[p] = "done"
    BY <2>3 DEF LoopsInv
  <2>4. CASE phase' = phase
    <3>1. /\ results'[p] = Append(results[p], Expected(next[p]))
          /\ next'[p] = next[p] + 1
          /\ p = Strict => DecryptOne(next[p]) = "ok"
      <4>1. ~End(p, "item")
        BY <2>1, <2>4 DEF End, Goto, TypeOK
      <4> QED
        BY <1>7, <4>1, DecodesExpected DEF TypeOK
    <3>2. Len(results[p]) + 1 = next[p]
      BY <2>2 DEF DecodedBefore
    <3>3. /\ Len(results'[p]) + 1 = next'[p]
          /\ results'[p][next[p]] = Expected(next[p])
          /\ \A i \in 1..N : i < next[p] => results'[p][i] = results[p][i]
      BY <1>1, <3>1, <3>2
    <3>4. ASSUME NEW i \in 1..N, i < next'[p]
          PROVE  results'[p][i] = Expected(i) /\ (p = Strict => DecryptOne(i) = "ok")
      <4>1. i < next[p] \/ i = next[p]
        BY <1>1, <3>1, <3>4
      <4> QED
        BY <2>2, <3>1, <3>3, <4>1 DEF DecodedBefore
    <3>5. DecodedBefore(p, next[p])'
      BY <1>0, <3>3, <3>4 DEF DecodedBefore
    <3>6. next'[p] <= N + 1
      BY <1>1, <2>1, <3>1
    <3> QED
      BY <1>0, <2>1, <2>2, <2>4, <3>5, <3>6 DEF LoopsInv
  <2>5. phase' = phase \/ phase'[p] = "done"
    BY <1>7, DecodesExpected DEF End, Goto, TypeOK
  <2> QED
    BY <2>3, <2>4, <2>5
<1> QED
  BY <1>2, <1>3, <1>4, <1>5, <1>6, <1>7 DEF DecryptStep

(* A call ends as its items deserve.                                       *)
LEMMA EndPreserved ==
    ASSUME TypeOK, NEW p \in Ops, LoopsInv(p), EndInv(p), DecryptStep(p)
    PROVE  EndInv(p)'
<1>0. /\ items' = items /\ callCtx' = callCtx /\ N' = N
      /\ \A i : DecryptOne(i)' = DecryptOne(i) /\ Expected(i)' = Expected(i)
  BY StepsApart
<1>1. phase[p] # "done" /\ outcome[p] = "none"
  BY DEF DecryptStep, Reject, ParseRequest, BuildRecord, RecordsBuilt, AskKms,
     DecodeItem, Decoded, EndInv
<1>2. CASE phase'[p] # "done" /\ outcome' = outcome
  BY <1>1, <1>2 DEF EndInv
<1>3. CASE Decoded(p)
  <2>1. /\ phase[p] = "decode" /\ next[p] > N /\ results' = results
        /\ phase'[p] = "done" /\ outcome'[p] = "ok"
    BY <1>3 DEF Decoded, End, Goto, TypeOK
  <2>2. /\ \A i \in 1..N : items[i].kind \in Stored
        /\ next[p] <= N + 1 /\ DecodedBefore(p, next[p])
    BY <2>1 DEF LoopsInv
  <2>3. next[p] = N + 1
    BY <2>1, <2>2 DEF TypeOK, N
  <2>4. DecodedBefore(p, N + 1)'
    BY <1>0, <2>1, <2>2, <2>3 DEF DecodedBefore
  <2> QED
    BY <1>0, <2>1, <2>2, <2>4 DEF EndInv
<1>4. CASE \E e \in CallErrors : End(p, e)
  <2>1. PICK e \in CallErrors : End(p, e)
    BY <1>4
  <2>2. phase'[p] = "done" /\ outcome'[p] = e /\ e \notin {"ok", "none"}
    BY <2>1 DEF End, Goto, TypeOK, CallErrors
  <2>3. ~Decoded(p) /\ ~RecordsBuilt(p)
    BY <2>2 DEF Decoded, RecordsBuilt, End, Goto, TypeOK
  <2>4. ASSUME e = "malformed"
        PROVE  \E i \in 1..N : DecryptOne(i) # "ok"
    <3>1. \E i \in 1..N : items[i].kind = "nil"
      BY <2>2, <2>3, <2>4, <1>1, DecodesExpected DEF DecryptStep, Reject, ParseRequest,
         BuildRecord, AskKms, End, Goto, TypeOK
    <3> QED
      BY <3>1, Singles
  <2>5. ASSUME e = "invariant"
        PROVE  \E i \in 1..N : DecryptOne(i) # "ok"
    <3>1. next[p] \in 1..N /\ items[next[p]].kind = "noCiphertext"
      BY <2>2, <2>3, <2>5, <1>1, DecodesExpected DEF DecryptStep, Reject, ParseRequest,
         BuildRecord, AskKms, End, Goto, TypeOK, N
    <3> QED
      BY <3>1, Singles
  <2>6. ASSUME e = "item"
        PROVE  p = Strict /\ \E i \in 1..N : DecryptOne(i) # "ok"
    <3>1. CASE AskKms(p)
      <4>1. p = Strict /\ WrongContext # {}
        BY <2>2, <2>6, <1>1, <3>1 DEF AskKms, End, Goto, TypeOK, Strict
      <4> QED
        BY <4>1, Singles DEF WrongContext
    <3>2. CASE DecodeItem(p)
      <4>1. next[p] \in 1..N
        BY <3>2, DecodesExpected
      <4>2. p = Strict /\ DecryptOne(next[p]) # "ok"
        BY <1>1, <2>2, <3>2, DecodesExpected
      <4> QED
        BY <4>1, <4>2
    <3> QED
      BY <2>2, <2>3, <2>6, <1>1, <3>1, <3>2 DEF DecryptStep, Reject, ParseRequest,
         BuildRecord, End, Goto, TypeOK
  <2> QED
    BY <1>0, <2>2, <2>4, <2>5, <2>6 DEF EndInv
<1>5. (phase'[p] # "done" /\ outcome' = outcome) \/ Decoded(p)
      \/ \E e \in CallErrors : End(p, e)
  BY <1>1, DecodesExpected DEF DecryptStep, Reject, ParseRequest, BuildRecord, RecordsBuilt,
     AskKms, CallErrors, Goto, TypeOK
<1> QED
  BY <1>2, <1>3, <1>4, <1>5

(* A step of one decryption keeps what is known of both.                   *)
LEMMA DecryptInvPreserved ==
    ASSUME TypeOK, DecryptInv, NEW p \in Ops, DecryptStep(p)
    PROVE  TypeOK' /\ DecryptInv'
<1>1. TypeOK'
  BY TypePreserved DEF DecryptInv
<1>2. LoopsInv(p)' /\ EndInv(p)'
  BY LoopsPreserved, EndPreserved DEF DecryptInv
<1>3. ASSUME NEW q \in Ops, q # p
      PROVE  LoopsInv(q)' /\ EndInv(q)'
  <2>1. /\ items' = items /\ N' = N /\ WrongContext' = WrongContext
        /\ \A i : DecryptOne(i)' = DecryptOne(i) /\ Expected(i)' = Expected(i)
        /\ phase'[q] = phase[q] /\ next'[q] = next[q] /\ failed'[q] = failed[q]
        /\ results'[q] = results[q] /\ outcome'[q] = outcome[q]
    BY <1>3, StepsApart
  <2>2. LoopsInv(q) /\ EndInv(q)
    BY DEF DecryptInv
  <2>3. \A m : DecodedBefore(q, m)' <=> DecodedBefore(q, m)
    BY <2>1 DEF DecodedBefore
  <2> QED
    BY <2>1, <2>2, <2>3 DEF LoopsInv, EndInv
<1> QED
  BY <1>1, <1>2, <1>3 DEF DecryptInv

-----------------------------------------------------------------------------
(* The encryption before it.                                               *)

LEMMA Constants == EncP!BulkAssumption
BY DecryptAssumption, NoCtxAssumption DEF EncP!BulkAssumption

(* BulkRoundTrip's encryption is the one BulkEncryptProofs is about.       *)
LEMMA SameEncryption ==
    ASSUME Enc!Next
    PROVE  EncP!Next /\ [EncP!Next]_(EncP!vars)
<1> USE DEF Enc!End, EncP!End, Enc!request, EncP!request, Enc!N, EncP!N
<1>1. Enc!Reject => EncP!Reject
  BY DEF Enc!Reject, EncP!Reject
<1>2. Enc!PushPayload => EncP!PushPayload
  BY DEF Enc!PushPayload, EncP!PushPayload, Enc!GroupKey, EncP!GroupKey,
     Enc!PayloadCtx, EncP!PayloadCtx
<1>3. Enc!Grouped => EncP!Grouped
  BY DEF Enc!Grouped, EncP!Grouped, Enc!Ctx, EncP!Ctx
<1>4. Enc!PickGroup => EncP!PickGroup
  BY DEF Enc!PickGroup, EncP!PickGroup
<1>5. Enc!NoGroupLeft => EncP!NoGroupLeft
  BY DEF Enc!NoGroupLeft, EncP!NoGroupLeft
<1>6. Enc!PreparePayload => EncP!PreparePayload
  BY DEF Enc!PreparePayload, EncP!PreparePayload
<1>7. Enc!GroupPrepared => EncP!GroupPrepared
  BY DEF Enc!GroupPrepared, EncP!GroupPrepared
<1>8. Enc!EncryptGroup => EncP!EncryptGroup
  BY DEF Enc!EncryptGroup, EncP!EncryptGroup
<1>9. Enc!PlaceGroup => EncP!PlaceGroup
  BY DEF Enc!PlaceGroup, EncP!PlaceGroup
<1>10. Enc!Unwrap => EncP!Unwrap
  BY DEF Enc!Unwrap, EncP!Unwrap, Enc!NoResult, EncP!NoResult
<1> HIDE DEF Enc!End, EncP!End, Enc!request, EncP!request, Enc!N, EncP!N
<1> QED
  BY <1>1, <1>2, <1>3, <1>4, <1>5, <1>6, <1>7, <1>8, <1>9, <1>10 DEF Enc!Next, EncP!Next

LEMMA SameTypes == Enc!TypeOK <=> EncP!TypeOK
BY DEF Enc!TypeOK, EncP!TypeOK, Enc!Item, EncP!Item, Enc!N, EncP!N, Enc!Ctx, EncP!Ctx,
   Enc!Ciphertext, EncP!Ciphertext, Enc!NoResult, EncP!NoResult

(* A filled slot holds its item under the context it was given.            *)
LEMMA SlotsAsGiven ==
    ASSUME EncP!IInv, NEW i \in 1..Len(eitems), slots[i] # Enc!NoResult
    PROVE  slots[i].item = i /\ slots[i].ctx = Given(i) /\ Given(i) \in Ctx
<1>1. EncP!SlotInv /\ EncP!TypeOK
  BY DEF EncP!IInv
<1>2. slots[i] = [item |-> i, ctx |-> EncP!Promised(i)]
  BY <1>1 DEF EncP!SlotInv, Enc!NoResult, EncP!NoResult, EncP!N
<1>3. EncP!Promised(i) = Given(i)
  BY DEF EncP!Promised, EncP!Bulk!PromisedCtx, Given
<1>4. EncP!Promised(i) \in EncP!Ctx
  BY <1>1, Constants, EncP!KeyIsPromise DEF EncP!N
<1> QED
  BY <1>2, <1>3, <1>4 DEF EncP!Ctx, Ctx

(* A step of EncryptBulk leaves the request alone, and ends a call that    *)
(* had not ended; it succeeds with every slot filled.                      *)
LEMMA EncryptStep ==
    ASSUME EncP!IInv, Enc!Next
    PROVE  /\ EncP!IInv'
           /\ eitems' = eitems /\ ectx' = ectx
           /\ eoutcome = "none"
           /\ eoutcome' = "ok" => \A i \in 1..Len(eitems') : slots'[i] # Enc!NoResult
<1>1. EncP!IInv'
  BY SameEncryption, Constants, EncP!NextIInv
<1>2. eitems' = eitems /\ ectx' = ectx
  BY SameEncryption, Constants, EncP!RequestFixed
<1>3. eoutcome = "none"
  <2>1. ephase # "done" /\ eoutcome \in {"none", "ok", "rejected", "unknownColumn", "badInput",
                    "kms", "invariant"}
    BY DEF Enc!Next, Enc!Reject, Enc!PushPayload, Enc!Grouped, Enc!PickGroup,
       Enc!NoGroupLeft, Enc!PreparePayload, Enc!GroupPrepared, Enc!EncryptGroup,
       Enc!PlaceGroup, Enc!Unwrap, EncP!IInv, EncP!TypeOK
  <2> QED
    BY <2>1 DEF EncP!IInv, EncP!OutcomeInv
<1>4. ASSUME eoutcome' = "ok"
      PROVE  \A i \in 1..Len(eitems') : slots'[i] # Enc!NoResult
  <2>1. Enc!PreparePayload => eoutcome' # "ok"
    <3> SUFFICES ASSUME Enc!PreparePayload PROVE eoutcome' # "ok"
      OBVIOUS
    <3>1. EncP!PreparePayload
      BY DEF Enc!PreparePayload, EncP!PreparePayload, Enc!End, EncP!End, Enc!request,
         EncP!request
    <3>2. eitems[groups[cur][enext]].kind \in {"good", "unknownColumn", "badInput"}
      BY <3>1, Constants, EncP!PayloadIsItem DEF EncP!IInv
    <3> QED
      BY <1>3, <3>2 DEF Enc!PreparePayload, Enc!End
  <2>2. Enc!Unwrap
    BY <1>3, <1>4, <2>1 DEF Enc!Next, Enc!Reject, Enc!PushPayload, Enc!Grouped,
       Enc!PickGroup, Enc!NoGroupLeft, Enc!GroupPrepared, Enc!EncryptGroup,
       Enc!PlaceGroup, Enc!End
  <2> QED
    BY <1>2, <1>4, <2>2 DEF Enc!Unwrap, Enc!End, Enc!N
<1> QED
  BY <1>1, <1>2, <1>3, <1>4

-----------------------------------------------------------------------------
(* The round trip.                                                         *)

LEMMA InitIInv ==
    ASSUME RoundTripInit
    PROVE  IInv
<1>1. EncP!IInv
  <2>1. EncP!Init
    BY DEF RoundTripInit, Enc!Init, EncP!Init, Enc!Requests, EncP!Requests, Enc!Item,
       EncP!Item, Enc!Ctx, EncP!Ctx, Enc!N, EncP!N, Enc!NoResult, EncP!NoResult
  <2> QED
    BY <2>1, Constants, EncP!InitIInv
<1>2. TypeOK
  <2>1. PICK n \in 0..MaxItems : items \in [1..n -> Item]
    BY DEF RoundTripInit, Init, Requests
  <2>2. items \in Seq(Item) /\ N <= MaxItems
    BY <2>1, DecryptAssumption DEF N
  <2> QED
    BY <2>2 DEF RoundTripInit, Init, TypeOK
<1>3. RoundTripTypeOK
  <2>1. Enc!TypeOK
    BY <1>1, SameTypes DEF EncP!IInv
  <2>2. picked = << >> /\ source \in {"answer", "storage"} /\ (source = "answer" => items = << >>)
    BY DEF RoundTripInit
  <2> QED
    BY <1>2, <2>1, <2>2 DEF RoundTripTypeOK
<1>4. DecryptInv
  BY DEF RoundTripInit, Init, DecryptInv, LoopsInv, EndInv
<1>5. PickedInv
  BY DEF RoundTripInit, Init, Enc!Init, PickedInv
<1> QED
  BY <1>1, <1>3, <1>4, <1>5 DEF IInv

LEMMA EncryptingPreserves ==
    ASSUME IInv, Encrypting
    PROVE  IInv'
<1>1. /\ EncP!IInv' /\ eitems' = eitems /\ eoutcome = "none"
      /\ eoutcome' = "ok" => \A i \in 1..Len(eitems') : slots'[i] # Enc!NoResult
  BY EncryptStep DEF IInv, Encrypting
<1>2. /\ UNCHANGED <<source, picked, items, callCtx, phase, next, failed, results, outcome>>
      /\ source = "answer"
  BY DEF Encrypting, vars
<1>3. RoundTripTypeOK'
  <2>1. Enc!TypeOK'
    BY <1>1, SameTypes, PTL DEF EncP!IInv
  <2>2. TypeOK'
    BY <1>2 DEF IInv, RoundTripTypeOK, TypeOK, N
  <2> QED
    BY <1>1, <1>2, <2>1, <2>2 DEF IInv, RoundTripTypeOK
<1>4. DecryptInv'
  BY <1>2 DEF IInv, DecryptInv, LoopsInv, EndInv, DecodedBefore, Expected, DecryptOne,
     GoValue, WrongContext, N
<1>5. PickedInv'
  BY <1>1, <1>2 DEF IInv, PickedInv
<1> QED
  BY <1>1, <1>3, <1>4, <1>5 DEF IInv

LEMMA PickPreserves ==
    ASSUME IInv, Pick
    PROVE  IInv'
<1>0. /\ eoutcome = "ok" /\ picked = << >> /\ source = "answer"
      /\ UNCHANGED <<eitems, ectx, ephase, enext, groups, pending, cur, reply, kms, slots,
                     eoutcome>>
      /\ UNCHANGED <<source, phase, next, failed, results, outcome>>
      /\ callCtx' \in Ctx
  BY DEF Pick, evars, IInv, PickedInv, RoundTripTypeOK
<1>1. PICK n \in 1..MaxItems : picked' \in [1..n -> 1..Len(eitems)]
  BY DEF Pick
<1>2. /\ items' = [k \in 1..n |-> [kind |-> "value", ctx |-> slots[picked'[k]].ctx]]
      /\ picked' \in Seq(1..Len(eitems)) /\ Len(picked') = n /\ n \in Nat /\ n > 0
      /\ n <= MaxItems
  BY <1>1, DecryptAssumption DEF Pick
<1>3. \A k \in 1..n : picked'[k] \in 1..Len(eitems) /\ slots[picked'[k]].ctx \in Ctx
  <2> TAKE k \in 1..n
  <2>1. picked'[k] \in 1..Len(eitems)
    BY <1>1
  <2>2. slots[picked'[k]] # Enc!NoResult
    BY <1>0, <2>1 DEF IInv, PickedInv
  <2> QED
    BY <2>1, <2>2, SlotsAsGiven DEF IInv
<1>4. items' \in Seq(Item) /\ Len(items') = n
  <2>1. \A k \in 1..n : [kind |-> "value", ctx |-> slots[picked'[k]].ctx] \in Item
    BY <1>3 DEF Item, Stored
  <2>2. items' \in [1..n -> Item]
    BY <1>2, <2>1
  <2> QED
    BY <1>2, <2>2
<1>5. \A op \in Ops : phase[op] = "start" /\ results[op] = << >> /\ next[op] = 1
                      /\ outcome[op] = "none"
  <2>1. \A op \in Ops : phase[op] = "start"
    BY <1>0 DEF IInv, PickedInv
  <2>2. outcome \in [Ops -> {"none", "ok"} \cup CallErrors]
    BY DEF IInv, RoundTripTypeOK, TypeOK
  <2>3. \A op \in Ops : outcome[op] = "none"
    BY <2>1 DEF IInv, DecryptInv, EndInv
  <2>4. \A op \in Ops : LoopsInv(op)
    BY DEF IInv, DecryptInv
  <2>5. \A op \in Ops : results[op] = << >> /\ next[op] = 1
    BY <2>1, <2>4 DEF LoopsInv
  <2> QED
    BY <2>1, <2>3, <2>5
<1>6. TypeOK'
  <2>1. failed \in [Ops -> SUBSET (1..N)] /\ N = 0
    BY <1>0 DEF IInv, RoundTripTypeOK, TypeOK, N
  <2>2. failed' \in [Ops -> SUBSET (1..N')]
    BY <1>0, <2>1
  <2>3. items' \in Seq(Item) /\ N' <= MaxItems /\ callCtx' \in Ctx
    BY <1>0, <1>2, <1>4 DEF N
  <2> QED
    BY <1>0, <2>2, <2>3 DEF IInv, RoundTripTypeOK, TypeOK
<1>7. RoundTripTypeOK'
  <2>1. Enc!TypeOK'
    BY <1>0 DEF IInv, RoundTripTypeOK, Enc!TypeOK, Enc!N
  <2> QED
    BY <1>0, <1>2, <1>4, <1>6, <2>1 DEF IInv, RoundTripTypeOK
<1>8. EncP!IInv'
  <2>1. [EncP!Next]_(EncP!vars)
    BY <1>0 DEF EncP!vars
  <2> QED
    BY <2>1, Constants, EncP!NextIInv DEF IInv
<1>9. DecryptInv'
  <2> SUFFICES ASSUME NEW op \in Ops PROVE LoopsInv(op)' /\ EndInv(op)'
    BY DEF DecryptInv
  <2>1. phase'[op] = "start" /\ results'[op] = << >> /\ next'[op] = 1 /\ outcome'[op] = "none"
    BY <1>0, <1>5
  <2> QED
    BY <2>1 DEF LoopsInv, EndInv
<1>10. PickedInv'
  BY <1>0, <1>2 DEF IInv, PickedInv
<1> QED
  BY <1>7, <1>8, <1>9, <1>10 DEF IInv

LEMMA DecryptingPreserves ==
    ASSUME IInv, Decrypting
    PROVE  IInv'
<1>1. PICK p \in Ops : DecryptStep(p)
  BY DEF Decrypting, Next, DecryptStep
<1>2. UNCHANGED <<source, picked, eitems, ectx, ephase, enext, groups, pending, cur, reply,
                  kms, slots, eoutcome>>
      /\ (source = "answer" => picked # << >>)
  BY DEF Decrypting, evars
<1>3. TypeOK' /\ DecryptInv' /\ items' = items
  BY <1>1, DecryptInvPreserved, StepsApart DEF IInv, RoundTripTypeOK
<1>4. RoundTripTypeOK'
  <2>1. Enc!TypeOK'
    BY <1>2 DEF IInv, RoundTripTypeOK, Enc!TypeOK, Enc!N
  <2> QED
    BY <1>2, <1>3, <2>1 DEF IInv, RoundTripTypeOK
<1>5. EncP!IInv'
  <2>1. [EncP!Next]_(EncP!vars)
    BY <1>2 DEF EncP!vars
  <2> QED
    BY <2>1, Constants, EncP!NextIInv DEF IInv
<1>6. PickedInv'
  BY <1>2, <1>3 DEF IInv, PickedInv
<1> QED
  BY <1>3, <1>4, <1>5, <1>6 DEF IInv

LEMMA StutterPreserves ==
    ASSUME IInv, UNCHANGED allVars
    PROVE  IInv'
<1> USE DEF allVars, evars, vars
<1>1. EncP!IInv'
  <2>1. [EncP!Next]_(EncP!vars)
    BY DEF EncP!vars
  <2> QED
    BY <2>1, Constants, EncP!NextIInv DEF IInv
<1>2. RoundTripTypeOK'
  BY DEF IInv, RoundTripTypeOK, TypeOK, N, Enc!TypeOK, Enc!N
<1>3. DecryptInv'
  BY DEF IInv, DecryptInv, LoopsInv, EndInv, DecodedBefore, Expected, DecryptOne,
     GoValue, WrongContext, N
<1>4. PickedInv'
  BY DEF IInv, PickedInv
<1> QED
  BY <1>1, <1>2, <1>3, <1>4 DEF IInv

-----------------------------------------------------------------------------
(* What the invariant says to a caller.                                    *)

LEMMA StrictByIInv ==
    ASSUME IInv
    PROVE  StrictMatchesSingles
<1> SUFFICES ASSUME Answered(Strict)
             PROVE  /\ outcome[Strict] = "ok" <=> \A i \in 1..N : DecryptOne(i) = "ok"
                    /\ outcome[Strict] = "ok" =>
                          results[Strict] = [i \in 1..N |-> [data |-> GoValue(i), err |-> NoError]]
  BY DEF StrictMatchesSingles
<1>1. Strict \in Ops /\ N \in Nat /\ TypeOK
  BY DEF Ops, Strict, N, IInv, RoundTripTypeOK, TypeOK
<1>2. EndInv(Strict) /\ outcome[Strict] \in {"ok", "malformed", "invariant", "item"}
  BY <1>1 DEF IInv, DecryptInv, EndInv, Answered, TypeOK, CallErrors
<1>3. CASE outcome[Strict] = "ok"
  <2>1. DecodedBefore(Strict, N + 1) /\ results[Strict] \in Seq(Result)
    BY <1>1, <1>2, <1>3 DEF EndInv, TypeOK
  <2>2. Len(results[Strict]) = N
    BY <1>1, <2>1 DEF DecodedBefore
  <2>3. \A i \in 1..N : DecryptOne(i) = "ok" /\ results[Strict][i] = Expected(i)
    BY <1>1, <2>1 DEF DecodedBefore
  <2>4. \A i \in 1..N : results[Strict][i] = [data |-> GoValue(i), err |-> NoError]
    BY <2>3 DEF Expected
  <2>5. results[Strict] = [i \in 1..N |-> results[Strict][i]]
    BY <2>1, <2>2
  <2> QED
    BY <1>3, <2>3, <2>4, <2>5
<1>4. CASE outcome[Strict] # "ok"
  BY <1>2, <1>4 DEF EndInv
<1> QED
  BY <1>3, <1>4

LEMMA FallibleByIInv ==
    ASSUME IInv, outcome[Fallible] = "ok"
    PROVE  /\ Len(results[Fallible]) = N
           /\ \A i \in 1..N : results[Fallible][i] = Expected(i) /\ items[i].kind \in Stored
<1>1. Fallible \in Ops /\ N \in Nat
  BY DEF Ops, Fallible, N, IInv, RoundTripTypeOK, TypeOK
<1>2. DecodedBefore(Fallible, N + 1) /\ results[Fallible] \in Seq(Result)
      /\ \A i \in 1..N : items[i].kind \in Stored
  BY <1>1 DEF IInv, DecryptInv, EndInv, RoundTripTypeOK, TypeOK
<1> QED
  BY <1>1, <1>2 DEF DecodedBefore

LEMMA IndependentByIInv ==
    ASSUME IInv
    PROVE  ItemsIndependent
<1> SUFFICES ASSUME outcome[Fallible] = "ok"
             PROVE  /\ Len(results[Fallible]) = N
                    /\ \A i \in 1..N :
                          /\ results[Fallible][i].err =
                                (IF DecryptOne(i) = "ok" THEN NoError ELSE DecryptOne(i))
                          /\ results[Fallible][i].err = NoError =>
                                results[Fallible][i].data = GoValue(i)
  BY DEF ItemsIndependent
<1>1. \A i \in 1..N : results[Fallible][i] = Expected(i)
  BY FallibleByIInv
<1>2. ASSUME NEW i \in 1..N
      PROVE  DecryptOne(i) # NoError
  <2>1. items[i].kind \in Stored /\ TypeOK
    BY FallibleByIInv DEF IInv, RoundTripTypeOK
  <2> QED
    BY <2>1, Singles DEF Stored, NoError
<1>3. ASSUME NEW i \in 1..N
      PROVE  /\ results[Fallible][i].err =
                   (IF DecryptOne(i) = "ok" THEN NoError ELSE DecryptOne(i))
             /\ results[Fallible][i].err = NoError => results[Fallible][i].data = GoValue(i)
  <2>1. /\ results[Fallible][i].err = (IF DecryptOne(i) = "ok" THEN NoError ELSE DecryptOne(i))
        /\ results[Fallible][i].data = (IF DecryptOne(i) = "ok" THEN GoValue(i) ELSE 0)
    <3>1. results[Fallible][i] = Expected(i)
      BY <1>1
    <3>2. DecryptOne(i) = "ok" => Expected(i) = [data |-> GoValue(i), err |-> NoError]
      BY DEF Expected
    <3>3. DecryptOne(i) # "ok" => Expected(i) = [data |-> 0, err |-> DecryptOne(i)]
      BY DEF Expected
    <3> QED
      BY <3>1, <3>2, <3>3
  <2> QED
    BY <1>2, <2>1
<1> QED
  BY <1>3, FallibleByIInv

LEMMA OpensByIInv ==
    ASSUME IInv
    PROVE  OpensGivenContext
<1>1. ASSUME source = "answer", picked # << >>, NEW k \in 1..Len(picked)
      PROVE  /\ k \in 1..N /\ items[k].kind = "value"
             /\ items[k].ctx = Given(picked[k])
             /\ slots[picked[k]].item = picked[k]
             /\ DecryptOne(k) = (IF Given(picked[k]) = callCtx THEN "ok" ELSE "wrongContext")
  <2>1. N = Len(picked) /\ picked[k] \in 1..Len(eitems) /\ TypeOK
    BY <1>1 DEF IInv, RoundTripTypeOK, N
  <2>2. items[k] = [kind |-> "value", ctx |-> slots[picked[k]].ctx]
        /\ slots[picked[k]] # Enc!NoResult
    BY <1>1, <2>1 DEF IInv, PickedInv
  <2>3. slots[picked[k]].item = picked[k] /\ slots[picked[k]].ctx = Given(picked[k])
    BY <2>1, <2>2, SlotsAsGiven DEF IInv
  <2>4. k \in 1..N
    BY <1>1, <2>1
  <2> QED
    BY <2>1, <2>2, <2>3, <2>4, Singles DEF Stored
<1>2. source = "answer" /\ (outcome[Fallible] = "ok" \/ outcome[Strict] = "ok") =>
          picked # << >>
  BY DEF IInv, PickedInv, DecryptInv, EndInv, Ops, Strict, Fallible
<1>3. ASSUME source = "answer", outcome[Fallible] = "ok", NEW k \in 1..Len(picked)
      PROVE  /\ results[Fallible][k].err = NoError <=> Given(picked[k]) = callCtx
             /\ results[Fallible][k].err = NoError => ValueAt(Fallible, k) = picked[k]
  <2>1. /\ k \in 1..N /\ items[k].kind = "value" /\ slots[picked[k]].item = picked[k]
        /\ DecryptOne(k) = (IF Given(picked[k]) = callCtx THEN "ok" ELSE "wrongContext")
    BY <1>1, <1>2, <1>3
  <2>2. results[Fallible][k] = Expected(k)
    BY <1>3, <2>1, FallibleByIInv
  <2>3. Given(picked[k]) = callCtx => results[Fallible][k] = [data |-> k, err |-> NoError]
    BY <2>1, <2>2 DEF Expected, GoValue
  <2>4. Given(picked[k]) # callCtx => results[Fallible][k] = [data |-> 0, err |-> "wrongContext"]
    BY <2>1, <2>2 DEF Expected
  <2> QED
    BY <2>1, <2>3, <2>4 DEF ValueAt, NoError
<1>4. ASSUME source = "answer", outcome[Strict] = "ok", NEW k \in 1..Len(picked)
      PROVE  Given(picked[k]) = callCtx /\ ValueAt(Strict, k) = picked[k]
  <2>1. /\ k \in 1..N /\ items[k].kind = "value" /\ slots[picked[k]].item = picked[k]
        /\ DecryptOne(k) = (IF Given(picked[k]) = callCtx THEN "ok" ELSE "wrongContext")
    BY <1>1, <1>2, <1>4
  <2>2. Answered(Strict)
    <3>1. outcome[Strict] # "none" => phase[Strict] = "done"
      BY DEF IInv, DecryptInv, EndInv, Ops, Strict
    <3> QED
      BY <1>4, <3>1 DEF Answered
  <2>3. /\ DecryptOne(k) = "ok"
        /\ results[Strict] = [i \in 1..N |-> [data |-> GoValue(i), err |-> NoError]]
    BY <1>4, <2>1, <2>2, StrictByIInv DEF StrictMatchesSingles
  <2>4. results[Strict][k].data = k
    BY <2>1, <2>3 DEF GoValue
  <2> QED
    BY <2>1, <2>3, <2>4 DEF ValueAt
<1>5. RoundTripTypeOK
  BY DEF IInv
<1>6. (source = "answer" /\ outcome[Fallible] = "ok") =>
          \A k \in 1..Len(picked) :
             /\ results[Fallible][k].err = NoError <=> Given(picked[k]) = callCtx
             /\ results[Fallible][k].err = NoError => ValueAt(Fallible, k) = picked[k]
  BY <1>3
<1>7. (source = "answer" /\ outcome[Strict] = "ok") =>
          \A k \in 1..Len(picked) :
             Given(picked[k]) = callCtx /\ ValueAt(Strict, k) = picked[k]
  BY <1>4
<1> QED
  BY <1>5, <1>6, <1>7, Zenon DEF OpensGivenContext

-----------------------------------------------------------------------------
(* The inductive invariant holds throughout.                               *)
THEOREM Invariance == RoundTripSpec => []IInv
<1>1. RoundTripInit => IInv
  BY InitIInv
<1>2. IInv /\ [RoundTripNext]_allVars => IInv'
  BY EncryptingPreserves, PickPreserves, DecryptingPreserves, StutterPreserves
     DEF RoundTripNext
<1> QED
  BY <1>1, <1>2, PTL DEF RoundTripSpec

(* DecryptBulk succeeds exactly when a Decrypt of each item would, with    *)
(* those values in those places (lib.rs, decrypt_bulk_impl).               *)
THEOREM StrictAgreement == RoundTripSpec => []StrictMatchesSingles
<1>1. IInv => StrictMatchesSingles
  BY StrictByIInv
<1> QED
  BY <1>1, Invariance, PTL

(* A successful DecryptBulkFallible reports of every item, in its place,   *)
(* what a Decrypt of it alone would (lib.rs, decrypt_bulk_fallible_impl).  *)
THEOREM Independence == RoundTripSpec => []ItemsIndependent
<1>1. IInv => ItemsIndependent
  BY IndependentByIInv
<1> QED
  BY <1>1, Invariance, PTL

(* Whatever is picked from the answer of EncryptBulk, in whatever order,   *)
(* opens exactly under the lock context its item was given, with the value *)
(* that was encrypted in its place (README.md, lock contexts).             *)
THEOREM ContextBinding == RoundTripSpec => []OpensGivenContext
<1>1. IInv => OpensGivenContext
  BY OpensByIInv
<1> QED
  BY <1>1, Invariance, PTL
=============================================================================
