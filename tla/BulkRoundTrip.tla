--------------------------- MODULE BulkRoundTrip ---------------------------
(***************************************************************************)
(* EncryptBulk, a caller that keeps the ciphertexts, and DecryptBulk and   *)
(* DecryptBulkFallible of some of them, in any order and with repetitions, *)
(* under a lock context of the caller's choice.  An encryption has a lock  *)
(* context per item, a decryption one for all.  The caller may also        *)
(* decrypt what storage holds from other times, intact or not.             *)
(***************************************************************************)
EXTENDS BulkDecrypt

CONSTANT NoCtx   \* no lock context given

ASSUME NoCtxAssumption == NoCtx \notin Nat

VARIABLES
    eitems, ectx, ephase, enext, groups, pending, cur, reply, kms, slots, eoutcome,
    source,    \* what is decrypted: ciphertexts of the "answer" or of "storage"
    picked     \* those of the answer: their items, in order

evars == <<eitems, ectx, ephase, enext, groups, pending, cur, reply, kms, slots, eoutcome>>
allVars == <<evars, source, picked, vars>>

Enc == INSTANCE BulkEncrypt WITH
    items <- eitems, callCtx <- ectx, phase <- ephase, next <- enext,
    results <- slots, outcome <- eoutcome

RoundTripTypeOK ==
    /\ Enc!TypeOK /\ TypeOK
    /\ source \in {"answer", "storage"}
    /\ picked \in Seq(1..Len(eitems))
    /\ source = "answer" => Len(items) = Len(picked)

(* Items that cannot be encrypted end the call and are left to             *)
(* BulkEncrypt's own runs.                                                 *)
RoundTripInit ==
    /\ Enc!Init
    /\ \A i \in 1..Len(eitems) : eitems[i].kind = "good"
    /\ Init
    /\ picked = << >>
    /\ \/ source = "answer" /\ items = << >> /\ callCtx = 0
       \/ source = "storage" /\ eitems = << >> /\ ectx = NoCtx

Encrypting ==
    /\ source = "answer"
    /\ Enc!Next
    /\ UNCHANGED <<source, picked, vars>>

(* The caller takes ciphertexts from the answer, and a context.            *)
Pick ==
    /\ eoutcome = "ok"
    /\ picked = << >>
    /\ \E n \in 1..MaxItems : picked' \in [1..n -> 1..Len(eitems)]
    /\ items' = [k \in 1..Len(picked') |->
                     [kind |-> "value", ctx |-> slots[picked'[k]].ctx]]
    /\ callCtx' \in Ctx
    /\ UNCHANGED <<evars, source, phase, next, failed, results, outcome>>

Decrypting ==
    /\ source = "answer" => picked # << >>
    /\ Next
    /\ UNCHANGED <<evars, source, picked>>

RoundTripNext ==
    \/ Encrypting
    \/ Pick
    \/ Decrypting

RoundTripSpec == RoundTripInit /\ [][RoundTripNext]_allVars

-----------------------------------------------------------------------------
(* Properties.                                                             *)

(* The context an item was given: its own, or else the call's, or else     *)
(* none, which is the same as an empty one.                                *)
Given(i) ==
    LET c == IF eitems[i].ctx = NoCtx THEN ectx ELSE eitems[i].ctx
    IN  IF c = NoCtx THEN 0 ELSE c

(* The item whose value is at place k of a decryption's results.           *)
ValueAt(op, k) == slots[picked[results[op][k].data]].item

(* README.md: "Data encrypted with a lock context can only be decrypted    *)
(* with the same context".  Of the items of one encryption, a fallible     *)
(* decryption opens exactly those that were given its context, and gives   *)
(* for each the value that was encrypted in its place.  DecryptBulk opens  *)
(* all or nothing: what was encrypted under several contexts in one call   *)
(* cannot be decrypted in one call, however it is put together.  And every *)
(* variable keeps its type.                                                *)
OpensGivenContext ==
    /\ RoundTripTypeOK
    /\ (source = "answer" /\ outcome[Fallible] = "ok") =>
          \A k \in 1..Len(picked) :
              LET r == results[Fallible][k] IN
                  /\ r.err = NoError <=> Given(picked[k]) = callCtx
                  /\ r.err = NoError => ValueAt(Fallible, k) = picked[k]
    /\ (source = "answer" /\ outcome[Strict] = "ok") =>
          \A k \in 1..Len(picked) :
              /\ Given(picked[k]) = callCtx
              /\ ValueAt(Strict, k) = picked[k]
=============================================================================
