---------------------------- MODULE Cancellation ----------------------------
(***************************************************************************)
(* Operations that share a context which is cancelled, or runs out of      *)
(* time, at any moment, on a client that may be closed between their calls *)
(* (protect.go, model.go).  Each native call is preceded by one look at    *)
(* the context and is not interrupted after that.                          *)
(*                                                                         *)
(* The client's lock is ClientHandle's matter: here a Close happens when   *)
(* no operation holds it.                                                  *)
(***************************************************************************)
EXTENDS Naturals

CONSTANTS
    Ops,         \* operations under the context
    MaxFields    \* tagged fields with a value that a model may have

ASSUME FieldsAssumption == MaxFields \in Nat \ {0}

VARIABLES
    at,         \* where each operation is
    left,       \* native calls it has still to make, the present one included
    result,     \* "none", "ok", or why it failed
    cancelled,  \* ctx.Err() is not nil
    closed,     \* the client is closed
    late,       \* history: native calls begun after the context was cancelled
    owed        \* history: calls that had not looked at it by then

vars == <<at, left, result, cancelled, closed, late, owed>>

Inside(o) == at[o] \in {"check", "marshal", "ffi"}
Results == {"none", "ok", "closed", "cancelled", "failed"}

TypeOK ==
    /\ at \in [Ops -> {"idle", "precheck", "acquire", "check", "marshal", "ffi", "done"}]
    /\ left \in [Ops -> 0..MaxFields]
    /\ result \in [Ops -> Results]
    /\ \A o \in Ops : at[o] = "done" <=> result[o] # "none"
    /\ \A o \in Ops : Inside(o) => left[o] > 0 /\ ~closed
    /\ cancelled \in BOOLEAN /\ closed \in BOOLEAN
    /\ late \in [Ops -> 0..MaxFields] /\ owed \in [Ops -> 0..MaxFields]

Init ==
    /\ at = [o \in Ops |-> "idle"]
    /\ left = [o \in Ops |-> 0]
    /\ result = [o \in Ops |-> "none"]
    /\ cancelled = FALSE /\ closed = FALSE
    /\ late = [o \in Ops |-> 0] /\ owed = [o \in Ops |-> 0]

Goto(o, place) == at' = [at EXCEPT ![o] = place] /\ UNCHANGED result
End(o, how) == at' = [at EXCEPT ![o] = "done"] /\ result' = [result EXCEPT ![o] = how]

(* A direct operation makes one native call; EncryptModel and DecryptModel *)
(* one per field with a value; the bulk ones one, or none if there is      *)
(* nothing in any model.                                                   *)
Begin(o) ==
    /\ at[o] = "idle"
    /\ \/ left' = [left EXCEPT ![o] = 1] /\ Goto(o, "acquire")
       \/ \E n \in 0..MaxFields : left' = [left EXCEPT ![o] = n] /\ Goto(o, "precheck")
    /\ owed' = [owed EXCEPT ![o] = IF cancelled THEN left'[o] ELSE 0]
    /\ UNCHANGED <<cancelled, closed, late>>

(* The model operations' own acquirePtr; arguments may be refused after it.*)
Precheck(o) ==
    /\ at[o] = "precheck"
    /\ IF closed THEN End(o, "closed")
       ELSE \/ IF left[o] = 0 THEN End(o, "ok") ELSE Goto(o, "acquire")
            \/ End(o, "failed")
    /\ UNCHANGED <<left, cancelled, closed, late, owed>>

AcquirePtr(o) ==
    /\ at[o] = "acquire"
    /\ IF closed THEN End(o, "closed") ELSE Goto(o, "check")
    /\ UNCHANGED <<left, cancelled, closed, late, owed>>

(* Mutant: a context that is done is noticed before the last call only.    *)
CheckLast(o) ==
    /\ at[o] = "check"
    /\ IF cancelled /\ left[o] = 1 THEN End(o, "cancelled") ELSE Goto(o, "marshal")
    /\ UNCHANGED <<left, cancelled, closed, late, owed>>

Check(o) ==
    /\ at[o] = "check"
    /\ IF cancelled THEN End(o, "cancelled") ELSE Goto(o, "marshal")
    /\ UNCHANGED <<left, cancelled, closed, late, owed>>

Marshal(o) ==
    /\ at[o] = "marshal"
    /\ \/ /\ Goto(o, "ffi")
          /\ late' = [late EXCEPT ![o] = IF cancelled THEN @ + 1 ELSE @]
       \/ End(o, "failed") /\ UNCHANGED late
    /\ UNCHANGED <<left, cancelled, closed, owed>>

(* The native call returns, the lock is dropped, and the result is kept    *)
(* until the operation has them all.                                       *)
Native(o) ==
    /\ at[o] = "ffi"
    /\ left' = [left EXCEPT ![o] = @ - 1]
    /\ \/ End(o, "failed")
       \/ IF left[o] = 1 THEN End(o, "ok") ELSE Goto(o, "acquire")
    /\ UNCHANGED <<cancelled, closed, late, owed>>

(* Of the calls an operation has left, the present one has looked already. *)
Looked(o) == IF at[o] \in {"marshal", "ffi"} THEN 1 ELSE 0

Cancel ==
    /\ ~cancelled
    /\ cancelled' = TRUE
    /\ owed' = [o \in Ops |-> IF at[o] \in {"idle", "done"} THEN 0 ELSE left[o] - Looked(o)]
    /\ UNCHANGED <<at, left, result, closed, late>>

Close ==
    /\ ~closed
    /\ \A o \in Ops : ~Inside(o)
    /\ closed' = TRUE
    /\ UNCHANGED <<at, left, result, cancelled, late, owed>>

Next ==
    \/ \E o \in Ops :
          \/ Begin(o)
          \/ Precheck(o)
          \/ AcquirePtr(o)
          \/ Check(o)
          \/ Marshal(o)
          \/ Native(o)
    \/ Cancel
    \/ Close

Spec == Init /\ [][Next]_vars

-----------------------------------------------------------------------------
(* Properties.                                                             *)

(* A context that is done stops every operation under it, at the next      *)
(* field at the latest: none begins more than one native call after that,  *)
(* the one that had looked at the context before.  An operation succeeds   *)
(* in spite of it exactly if all it needed had been looked at by then, and *)
(* it reports the cancellation only if not.  And every variable keeps its  *)
(* type.                                                                   *)
CancelDecides ==
    /\ TypeOK
    /\ \A o \in Ops :
          /\ late[o] <= 1
          /\ result[o] = "ok" => owed[o] = 0
          /\ result[o] = "cancelled" => owed[o] > 0
=============================================================================
