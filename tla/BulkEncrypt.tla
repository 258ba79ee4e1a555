---------------------------- MODULE BulkEncrypt ----------------------------
(***************************************************************************)
(* One call of EncryptBulk, from protect.go's payloads through             *)
(* encrypt_bulk_impl of crates/protect-ffi-c/src/lib.rs.  The library      *)
(* groups the payloads by lock context, encrypts one group after the other *)
(* with a key-server call each, and puts every ciphertext back at its      *)
(* payload's index.  EncryptQueryBulk and encrypt_query_bulk_impl run the  *)
(* same loops over query payloads.                                         *)
(*                                                                         *)
(* An item is known by its index.  What its plaintext and column amount to *)
(* is its kind: it can be encrypted, its column is not configured, or the  *)
(* value does not fit the column.  A lock context is a number: 0 stands    *)
(* for an empty list of claims, and the order is that of the BTreeMap.  A  *)
(* ciphertext is the item it encrypts with the context it is bound to.     *)
(* That Go can decode the library's own answer is taken for granted.       *)
(***************************************************************************)
EXTENDS Naturals, Sequences, FiniteSets

CONSTANTS MaxItems,   \* longest request
          MaxCtx,     \* lock contexts are 0..MaxCtx
          NoCtx       \* a nil *LockContext

ASSUME BulkAssumption ==
    /\ MaxItems \in Nat
    /\ MaxCtx \in Nat
    /\ NoCtx \notin Nat

Ctx == 0..MaxCtx
Item == [ctx : Ctx \cup {NoCtx}, kind : {"good", "unknownColumn", "badInput"}]
Requests == UNION {[1..n -> Item] : n \in 0..MaxItems}
Ciphertext == [item : 1..MaxItems, ctx : Ctx]
NoResult == [item |-> 0, ctx |-> 0]    \* None in the results vector

VARIABLES
    items, callCtx,   \* the arguments of the call
    phase,            \* "group", "pick", "prepare", "encrypt", "place", "unwrap", "done"
    next,             \* the next index of the loop over payloads of this phase
    groups,           \* per lock context, the indices pushed so far
    pending,          \* the contexts whose group is still to be processed
    cur,              \* the context of the group being processed
    reply,            \* how many ciphertexts the last key-server call returned
    kms,              \* the key-server calls made: <<[ctx, batch], ...>>
    results,          \* the results vector
    outcome           \* how the call ended, or "none"

vars == <<items, callCtx, phase, next, groups, pending, cur, reply, kms,
          results, outcome>>
request == <<items, callCtx>>

N == Len(items)

TypeOK ==
    /\ items \in Seq(Item) /\ N <= MaxItems
    /\ callCtx \in Ctx \cup {NoCtx}
    /\ phase \in {"group", "pick", "prepare", "encrypt", "place", "unwrap", "done"}
    /\ next \in Nat \ {0}
    /\ groups \in [Ctx -> Seq(1..N)]
    /\ pending \subseteq Ctx
    /\ cur \in Ctx
    /\ reply \in Nat
    /\ kms \in Seq([ctx : Ctx, batch : Seq(1..N)])
    /\ results \in [1..N -> Ciphertext \cup {NoResult}]
    /\ outcome \in {"none", "ok", "rejected", "unknownColumn", "badInput",
                    "kms", "invariant"}

Init ==
    /\ items \in Requests
    /\ callCtx \in Ctx \cup {NoCtx}
    /\ phase = "group"
    /\ next = 1
    /\ groups = [c \in Ctx |-> << >>]
    /\ pending = {}
    /\ cur = 0
    /\ reply = 0
    /\ kms = << >>
    /\ results = [i \in 1..N |-> NoResult]
    /\ outcome = "none"

-----------------------------------------------------------------------------
(* Mutant: the call's lock context overrides the item's.                   *)
PayloadCtxCallFirst(i) == IF callCtx = NoCtx THEN items[i].ctx ELSE callCtx

(* The payload's lock context: the item's own or else the call's.          *)
PayloadCtx(i) == IF items[i].ctx = NoCtx THEN callCtx ELSE items[i].ctx

(* The group's key: no lock context and an empty one are the same group.   *)
GroupKey(c) == IF c = NoCtx THEN 0 ELSE c

End(how) ==
    /\ phase' = "done"
    /\ outcome' = how

(* The call ends before the library looks at the items: a cancelled        *)
(* context, a marshalling error, or a request the library cannot parse.    *)
Reject ==
    /\ phase = "group"
    /\ next = 1
    /\ End("rejected")
    /\ UNCHANGED <<request, next, groups, pending, cur, reply, kms, results>>

(* Mutant: payloads are grouped by the lock context of the item alone.     *)
PushPayloadOwnCtx ==
    /\ phase = "group"
    /\ next <= N
    /\ groups' = [groups EXCEPT ![GroupKey(items[next].ctx)] = Append(@, next)]
    /\ next' = next + 1
    /\ UNCHANGED <<request, phase, pending, cur, reply, kms, results, outcome>>

PushPayload ==
    /\ phase = "group"
    /\ next <= N
    /\ groups' = [groups EXCEPT ![GroupKey(PayloadCtx(next))] = Append(@, next)]
    /\ next' = next + 1
    /\ UNCHANGED <<request, phase, pending, cur, reply, kms, results, outcome>>

(* All payloads are pushed: the groups there are will be taken in order.   *)
Grouped ==
    /\ phase = "group"
    /\ next > N
    /\ phase' = "pick"
    /\ pending' = {c \in Ctx : groups[c] # << >>}
    /\ UNCHANGED <<request, next, groups, cur, reply, kms, results, outcome>>

(* Mutant: a group is taken and left in the map.                           *)
PickGroupAgain ==
    /\ phase = "pick"
    /\ \E c \in pending :
          /\ cur' = c
          /\ phase' = "prepare"
          /\ next' = 1
          /\ pending' = IF Len(kms) = 0 THEN pending ELSE pending \ {c}
    /\ UNCHANGED <<request, groups, reply, kms, results, outcome>>

PickGroup ==
    /\ phase = "pick"
    /\ \E c \in pending :
          /\ \A d \in pending : c <= d
          /\ cur' = c
          /\ pending' = pending \ {c}
    /\ phase' = "prepare"
    /\ next' = 1
    /\ UNCHANGED <<request, groups, reply, kms, results, outcome>>

NoGroupLeft ==
    /\ phase = "pick"
    /\ pending = {}
    /\ phase' = "unwrap"
    /\ UNCHANGED <<request, next, groups, pending, cur, reply, kms, results, outcome>>

(* Mutant: the loop over a group does not advance.                         *)
PreparePayloadStuck ==
    /\ phase = "prepare"
    /\ next <= Len(groups[cur])
    /\ items[groups[cur][next]].kind # "good"
    /\ End(items[groups[cur][next]].kind)
    /\ UNCHANGED <<request, next, groups, pending, cur, reply, kms, results>>

(* Look the column up and convert the value; the first failure ends the    *)
(* call, whatever other groups have been encrypted by then.                *)
PreparePayload ==
    /\ phase = "prepare"
    /\ next <= Len(groups[cur])
    /\ LET kind == items[groups[cur][next]].kind IN
          \/ /\ kind = "good"
             /\ next' = next + 1
             /\ UNCHANGED <<phase, outcome>>
          \/ /\ kind # "good"
             /\ End(kind)
             /\ UNCHANGED next
    /\ UNCHANGED <<request, groups, pending, cur, reply, kms, results>>

GroupPrepared ==
    /\ phase = "prepare"
    /\ next > Len(groups[cur])
    /\ phase' = "encrypt"
    /\ UNCHANGED <<request, next, groups, pending, cur, reply, kms, results, outcome>>

(* encrypt_eql, outside the repository: one key-server call that fails or  *)
(* answers in the batch's order; the code is ready for too few answers.    *)
EncryptGroup ==
    /\ phase = "encrypt"
    /\ kms' = Append(kms, [ctx |-> cur, batch |-> groups[cur]])
    /\ \/ /\ End("kms")
          /\ UNCHANGED reply
       \/ /\ reply' \in 0..Len(groups[cur])
          /\ phase' = "place"
          /\ UNCHANGED outcome
    /\ UNCHANGED <<request, next, groups, pending, cur, results>>

(* Mutant: results are placed by their position in the group.              *)
PlaceGroupByPosition ==
    /\ phase = "place"
    /\ results' = [i \in 1..N |->
                      IF i <= reply THEN [item |-> groups[cur][i], ctx |-> cur]
                      ELSE results[i]]
    /\ phase' = "pick"
    /\ UNCHANGED <<request, next, groups, pending, cur, reply, kms, outcome>>

(* The zip of the answers with the original indices.                       *)
PlaceGroup ==
    /\ phase = "place"
    /\ results' = [i \in 1..N |->
                      IF \E k \in 1..reply : groups[cur][k] = i
                      THEN [item |-> i, ctx |-> cur]
                      ELSE results[i]]
    /\ phase' = "pick"
    /\ UNCHANGED <<request, next, groups, pending, cur, reply, kms, outcome>>

(* Mutant: missing results go unnoticed.                                   *)
UnwrapLenient ==
    /\ phase = "unwrap"
    /\ End("ok")
    /\ UNCHANGED <<request, next, groups, pending, cur, reply, kms, results>>

(* Every slot must be filled, or the call fails.                           *)
Unwrap ==
    /\ phase = "unwrap"
    /\ \/ /\ \A i \in 1..N : results[i] # NoResult
          /\ End("ok")
       \/ /\ \E i \in 1..N : results[i] = NoResult
          /\ End("invariant")
    /\ UNCHANGED <<request, next, groups, pending, cur, reply, kms, results>>

Next ==
    \/ Reject
    \/ PushPayload
    \/ Grouped
    \/ PickGroup
    \/ NoGroupLeft
    \/ PreparePayload
    \/ GroupPrepared
    \/ EncryptGroup
    \/ PlaceGroup
    \/ Unwrap

Spec == Init /\ [][Next]_vars

(* The call runs to its end: encrypt_eql is assumed to return.             *)
FairSpec == Spec /\ WF_vars(Next)

-----------------------------------------------------------------------------
(* Properties.                                                             *)

Bulk == INSTANCE BulkSpec WITH
    output <- IF outcome = "ok" THEN results ELSE << >>

(* A bulk encryption does what BulkSpec promises: all the items or none,   *)
(* each at its own position and bound to its own context, and the error is *)
(* the first bad item's in the order of encryption.                        *)
BulkImplemented == Bulk!Spec

(* No slot ever holds the ciphertext of another item, or of its own item   *)
(* under another context, however the groups interleave in the request.    *)
(* And every variable keeps its type.                                      *)
Aligned ==
    /\ TypeOK
    /\ \A i \in 1..N :
          results[i] # NoResult => results[i] = [item |-> i, ctx |-> Bulk!PromisedCtx(i)]

(* The payloads of one key-server call share the lock context the call     *)
(* binds them to, and each of them can be encrypted.                       *)
BatchesUniform ==
    \A b \in 1..Len(kms) : \A k \in 1..Len(kms[b].batch) :
        LET i == kms[b].batch[k] IN
            Bulk!PromisedCtx(i) = kms[b].ctx /\ items[i].kind = "good"

(* No item is sent to the key server twice, in one batch or in two, and a  *)
(* context has one batch: the calls follow the order of the contexts.      *)
EncryptedAtMostOnce ==
    /\ \A a, b \in 1..Len(kms) : a < b => kms[a].ctx < kms[b].ctx
    /\ \A b \in 1..Len(kms) : \A j, k \in 1..Len(kms[b].batch) :
          j < k => kms[b].batch[j] < kms[b].batch[k]

(* The call ends.                                                          *)
Ends == <>(outcome # "none")
=============================================================================
