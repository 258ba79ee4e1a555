----------------------------- MODULE BulkSpec -----------------------------
(***************************************************************************)
(* What a bulk encryption promises, without batches: in one step it either *)
(* fails as a whole, with the error of the first item that cannot be       *)
(* encrypted or for a reason outside the items, or it returns a ciphertext *)
(* for every item, at the item's own position, bound to the item's own     *)
(* lock context or else to the call's.                                     *)
(***************************************************************************)
EXTENDS Naturals, Sequences

CONSTANTS NoCtx       \* the nil lock context

VARIABLES items,      \* the request: a sequence of [ctx, kind]
          callCtx,    \* the call-level lock context
          outcome,    \* "none" until the call returns
          output      \* what it returned

specVars == <<items, callCtx, outcome, output>>

(* The context of item i: its own, the call's, or the empty one.           *)
PromisedCtx(i) ==
    IF items[i].ctx # NoCtx THEN items[i].ctx
    ELSE IF callCtx # NoCtx THEN callCtx
    ELSE 0

(* i is encrypted before j: by context, then by position.                  *)
Before(i, j) ==
    \/ PromisedCtx(i) < PromisedCtx(j)
    \/ PromisedCtx(i) = PromisedCtx(j) /\ i < j

Bad == {i \in DOMAIN items : items[i].kind # "good"}

Succeed ==
    /\ outcome = "none"
    /\ Bad = {}
    /\ outcome' = "ok"
    /\ output' = [i \in DOMAIN items |-> [item |-> i, ctx |-> PromisedCtx(i)]]
    /\ UNCHANGED <<items, callCtx>>

BlameItem ==
    /\ outcome = "none"
    /\ \E i \in Bad :
          /\ \A j \in Bad \ {i} : Before(i, j)
          /\ outcome' = items[i].kind
    /\ UNCHANGED <<items, callCtx, output>>

FailAnyway ==
    /\ outcome = "none"
    /\ outcome' \in {"rejected", "kms", "invariant"}
    /\ UNCHANGED <<items, callCtx, output>>

Init ==
    /\ outcome = "none"
    /\ output = << >>

Next == Succeed \/ BlameItem \/ FailAnyway

Spec == Init /\ [][Next]_specVars
=============================================================================
