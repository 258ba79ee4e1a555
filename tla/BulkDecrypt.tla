---------------------------- MODULE BulkDecrypt ----------------------------
(***************************************************************************)
(* DecryptBulk and DecryptBulkFallible on the same request, from           *)
(* protect.go's payloads through decrypt_bulk_impl and                     *)
(* decrypt_bulk_fallible_impl of crates/protect-ffi-c/src/lib.rs and back. *)
(* The two share their first half, request parsing and record building,    *)
(* which can only fail as a whole, and differ in what they ask the key     *)
(* server and in what they do with an item that fails after that.          *)
(*                                                                         *)
(* An item is known by its index and described by what the code can find:  *)
(* a nil *Encrypted, a payload without a ciphertext (a query term), or a   *)
(* ciphertext that was bound to a lock context and holds a value, a JSON   *)
(* null or bytes that are no Go plaintext.  Lock contexts are numbers, 0   *)
(* the empty one.  A Go value is the index of the item it came from, and 0 *)
(* is nil.  That Go can decode the library's own answer is taken for       *)
(* granted.                                                                *)
(***************************************************************************)
EXTENDS Naturals, Sequences

CONSTANTS MaxItems,   \* longest request
          MaxCtx      \* lock contexts are 0..MaxCtx

ASSUME DecryptAssumption == MaxItems \in Nat /\ MaxCtx \in Nat

Ctx == 0..MaxCtx
Ops == {"DecryptBulk", "DecryptBulkFallible"}

Stored == {"value", "null", "undecodable"}
Item == [kind : {"nil", "noCiphertext"}, ctx : {0}] \cup [kind : Stored, ctx : Ctx]
Requests == UNION {[1..n -> Item] : n \in 0..MaxItems}

(* Errors of a whole call, and of an item.                                 *)
CallErrors == {"rejected", "malformed", "invariant", "kms", "item"}
ItemErrors == {"wrongContext", "undecodable"}

(* DecryptResult: what Data and Err hold.  DecryptBulk fills Data alone.   *)
NoError == "none"
Result == [data : 0..MaxItems, err : ItemErrors \cup {NoError}]

VARIABLES
    items, callCtx,   \* the arguments, the same for both calls
    phase,            \* per call: "start", "records", "decrypt", "decode", "done"
    next,             \* per call: the next item of the loop of this phase
    failed,           \* per call: the items the key server did not decrypt
    results,          \* per call: the results so far
    outcome           \* per call: "none", "ok" or the error of the whole call

vars == <<items, callCtx, phase, next, failed, results, outcome>>
request == <<items, callCtx>>

N == Len(items)

TypeOK ==
    /\ items \in Seq(Item) /\ N <= MaxItems
    /\ callCtx \in Ctx
    /\ phase \in [Ops -> {"start", "records", "decrypt", "decode", "done"}]
    /\ next \in [Ops -> Nat \ {0}]
    /\ failed \in [Ops -> SUBSET (1..N)]
    /\ results \in [Ops -> Seq(Result)]
    /\ outcome \in [Ops -> {"none", "ok"} \cup CallErrors]

Init ==
    /\ items \in Requests
    /\ callCtx \in Ctx
    /\ phase = [op \in Ops |-> "start"]
    /\ next = [op \in Ops |-> 1]
    /\ failed = [op \in Ops |-> {}]
    /\ results = [op \in Ops |-> << >>]
    /\ outcome = [op \in Ops |-> "none"]

-----------------------------------------------------------------------------
Goto(op, at) == phase' = [phase EXCEPT ![op] = at]

End(op, how) ==
    /\ Goto(op, "done")
    /\ outcome' = [outcome EXCEPT ![op] = how]

(* A cancelled context or a marshalling error.                             *)
Reject(op) ==
    /\ phase[op] = "start"
    /\ End(op, "rejected")
    /\ UNCHANGED <<request, next, failed, results>>

(* A nil item is the JSON null, and the library cannot parse the request.  *)
ParseRequest(op) ==
    /\ phase[op] = "start"
    /\ \/ /\ \E i \in 1..N : items[i].kind = "nil"
          /\ End(op, "malformed")
       \/ /\ \A i \in 1..N : items[i].kind # "nil"
          /\ Goto(op, "records")
          /\ UNCHANGED outcome
    /\ UNCHANGED <<request, next, failed, results>>

(* Mutant: a payload without a ciphertext is left out of the request.      *)
BuildRecordSkipping(op) ==
    /\ phase[op] = "records"
    /\ next[op] <= N
    /\ next' = [next EXCEPT ![op] = @ + 1]
    /\ UNCHANGED <<request, phase, failed, results, outcome>>

(* encrypted_record_from_mp_base85 and the ? of both loops: one payload    *)
(* without a ciphertext fails the call, the fallible one too.              *)
BuildRecord(op) ==
    /\ phase[op] = "records"
    /\ next[op] <= N
    /\ \/ /\ items[next[op]].kind = "noCiphertext"
          /\ End(op, "invariant")
          /\ UNCHANGED next
       \/ /\ items[next[op]].kind # "noCiphertext"
          /\ next' = [next EXCEPT ![op] = @ + 1]
          /\ UNCHANGED <<phase, outcome>>
    /\ UNCHANGED <<request, failed, results>>

RecordsBuilt(op) ==
    /\ phase[op] = "records"
    /\ next[op] > N
    /\ Goto(op, "decrypt")
    /\ UNCHANGED <<request, next, failed, results, outcome>>

(* The key server opens the records bound to the call's lock context.      *)
WrongContext == {i \in 1..N : items[i].ctx # callCtx}

(* ZeroKMS's decrypt and decrypt_fallible, outside the repository: decrypt *)
(* fails when any record does, decrypt_fallible tells which; either may    *)
(* fail as a whole.                                                        *)
AskKms(op) ==
    /\ phase[op] = "decrypt"
    /\ \/ /\ End(op, "kms")
          /\ UNCHANGED <<next, failed>>
       \/ /\ op = "DecryptBulk" /\ WrongContext # {}
          /\ End(op, "item")
          /\ UNCHANGED <<next, failed>>
       \/ /\ op = "DecryptBulk" => WrongContext = {}
          /\ failed' = [failed EXCEPT ![op] = WrongContext]
          /\ next' = [next EXCEPT ![op] = 1]
          /\ Goto(op, "decode")
          /\ UNCHANGED outcome
    /\ UNCHANGED <<request, results>>

(* The Go value of item i: a JSON null decodes to nil.                     *)
GoValue(i) == IF items[i].kind = "null" THEN 0 ELSE i

Yield(op, data, err) ==
    /\ results' = [results EXCEPT ![op] = Append(@, [data |-> data, err |-> err])]
    /\ next' = [next EXCEPT ![op] = @ + 1]
    /\ UNCHANGED <<phase, outcome>>

(* Mutant: decoding drops the items that failed instead of reporting them. *)
DecodeItemDropping(op) ==
    /\ phase[op] = "decode"
    /\ next[op] <= N
    /\ LET i == next[op] IN
          \/ /\ i \in failed[op] \/ items[i].kind = "undecodable"
             /\ op = "DecryptBulkFallible"
             /\ next' = [next EXCEPT ![op] = @ + 1]
             /\ UNCHANGED <<phase, results, outcome>>
          \/ /\ i \notin failed[op] /\ items[i].kind = "undecodable"
             /\ op = "DecryptBulk"
             /\ End(op, "item")
             /\ UNCHANGED <<next, results>>
          \/ /\ i \notin failed[op] /\ items[i].kind # "undecodable"
             /\ Yield(op, GoValue(i), NoError)
    /\ UNCHANGED <<request, failed>>

(* Plaintext::from_slice, the conversion to a Go plaintext, and the copy   *)
(* into Go's result; DecryptBulk collects into one Result and stops at the *)
(* first error, the other keeps an error in the item's place.              *)
DecodeItem(op) ==
    /\ phase[op] = "decode"
    /\ next[op] <= N
    /\ LET i == next[op] IN
          \/ /\ i \in failed[op]
             /\ Yield(op, 0, "wrongContext")
          \/ /\ i \notin failed[op] /\ items[i].kind = "undecodable"
             /\ \/ /\ op = "DecryptBulk"
                   /\ End(op, "item")
                   /\ UNCHANGED <<next, results>>
                \/ /\ op = "DecryptBulkFallible"
                   /\ Yield(op, 0, "undecodable")
          \/ /\ i \notin failed[op] /\ items[i].kind # "undecodable"
             /\ Yield(op, GoValue(i), NoError)
    /\ UNCHANGED <<request, failed>>

Decoded(op) ==
    /\ phase[op] = "decode"
    /\ next[op] > N
    /\ End(op, "ok")
    /\ UNCHANGED <<request, next, failed, results>>

Next ==
    \E op \in Ops :
        \/ Reject(op)
        \/ ParseRequest(op)
        \/ BuildRecord(op)
        \/ RecordsBuilt(op)
        \/ AskKms(op)
        \/ DecodeItem(op)
        \/ Decoded(op)

Spec == Init /\ [][Next]_vars

-----------------------------------------------------------------------------
(* A single Decrypt of item i (protect.go, decrypt_impl), on its own: what *)
(* it returns when the key server answers.                                 *)
DecryptOne(i) ==
    CASE items[i].kind = "nil" -> "malformed"
      [] items[i].kind = "noCiphertext" -> "invariant"
      [] items[i].kind \in Stored /\ items[i].ctx # callCtx -> "wrongContext"
      [] items[i].kind = "undecodable" /\ items[i].ctx = callCtx -> "undecodable"
      [] OTHER -> "ok"

Strict == "DecryptBulk"
Fallible == "DecryptBulkFallible"

(* The end of a call that nothing outside the items brought about.         *)
Answered(op) == phase[op] = "done" /\ outcome[op] \notin {"rejected", "kms"}

(* Properties.                                                             *)

(* DecryptBulk is all or nothing and agrees with single Decrypts: it       *)
(* succeeds exactly when each item would, and its i-th value is the one    *)
(* the i-th item would give.                                               *)
StrictMatchesSingles ==
    Answered(Strict) =>
        /\ outcome[Strict] = "ok" <=> \A i \in 1..N : DecryptOne(i) = "ok"
        /\ outcome[Strict] = "ok" =>
              results[Strict] = [i \in 1..N |-> [data |-> GoValue(i), err |-> NoError]]

(* The items of a fallible call do not disturb each other: once the call   *)
(* succeeds, each result is in its item's place and is what a Decrypt of   *)
(* that item alone would return, value or error.                           *)
ItemsIndependent ==
    outcome[Fallible] = "ok" =>
        /\ Len(results[Fallible]) = N
        /\ \A i \in 1..N :
              /\ results[Fallible][i].err =
                    (IF DecryptOne(i) = "ok" THEN NoError ELSE DecryptOne(i))
              /\ results[Fallible][i].err = NoError =>
                    results[Fallible][i].data = GoValue(i)

(* The doc comment of DecryptBulkFallible: "a single item's failure does   *)
(* not cause the entire operation to fail".  Nil items are not held        *)
(* against it.                                                             *)
NoItemFailsTheCall ==
    Answered(Fallible) /\ (\A i \in 1..N : items[i].kind # "nil") =>
        outcome[Fallible] = "ok"
=============================================================================
