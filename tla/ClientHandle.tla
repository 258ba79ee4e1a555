--------------------------- MODULE ClientHandle ---------------------------
(***************************************************************************)
(* The life of a Client (pkg/protect/protect.go): goroutines that create   *)
(* it, call its operations and close it, concurrently, over one native     *)
(* handle and one sync.RWMutex.                                            *)
(*                                                                         *)
(* A direct operation (Encrypt, Decrypt, the bulk and the query            *)
(* operations) has one shape: acquirePtr, check and marshal the arguments, *)
(* copy them to C memory, call the library, copy and free its string,      *)
(* decode it, and run the deferred C.free and RUnlock.  A model operation  *)
(* (model.go) takes and drops the lock once to refuse a closed client, and *)
(* then makes one nested direct call per encrypted field (EncryptModel,    *)
(* DecryptModel) or at most one (BulkEncryptModels, BulkDecryptModels).    *)
(*                                                                         *)
(* Payloads are left out: an argument check, a marshalling or a decoding   *)
(* error, and a panic of a caller's MarshalJSON or of TableDef.Column, are *)
(* the choice to fail at the point where the code can.                     *)
(***************************************************************************)
EXTENDS GoRWMutex, Naturals

CONSTANT MaxNested   \* most encrypted fields of a model

ASSUME MaxNestedAssumption == MaxNested \in Nat

VARIABLES
    ptr,       \* Client.ptr: "nil" or "set"
    handle,    \* the native client: "none", "live", "freed" or "doubleFreed"
    pc,        \* where each goroutine is
    stage,     \* what its acquirePtr is for: "precheck" or "call"
    todo,      \* nested calls its model operation still has to make
    opts,      \* goroutines that own a C copy of their options
    res,       \* the C string the library returned: "none", "data", "error"
    ret,       \* how the last call ended: "none", "ok", "failed", "closed"
    late       \* goroutines whose last call began on a closed client

vars == <<rwVars, ptr, handle, pc, stage, todo, opts, res, ret, late>>

PCs == {"idle", "newffi", "newret",                        \* NewClient
        "rlock", "locked", "ffi", "ret", "decode",         \* an operation
        "nested",                                          \* between nested calls
        "wlock", "drain", "close", "clear"}                \* Close

TypeOK ==
    /\ RWTypeOK
    /\ ptr \in {"nil", "set"}
    /\ handle \in {"none", "live", "freed", "doubleFreed"}
    /\ pc \in [Procs -> PCs]
    /\ stage \in [Procs -> {"precheck", "call"}]
    /\ todo \in [Procs -> 0..MaxNested]
    /\ opts \subseteq Procs
    /\ res \in [Procs -> {"none", "data", "error"}]
    /\ ret \in [Procs -> {"none", "ok", "failed", "closed"}]
    /\ late \subseteq Procs

Init ==
    /\ RWInit
    /\ ptr = "nil"
    /\ handle = "none"
    /\ pc = [p \in Procs |-> "idle"]
    /\ stage = [p \in Procs |-> "call"]
    /\ todo = [p \in Procs |-> 0]
    /\ opts = {}
    /\ res = [p \in Procs |-> "none"]
    /\ ret = [p \in Procs |-> "none"]
    /\ late = {}

Goto(p, at) == pc' = [pc EXCEPT ![p] = at]

(* p's call returns to its caller.                                         *)
ReturnWith(p, outcome) ==
    /\ Goto(p, "idle")
    /\ ret' = [ret EXCEPT ![p] = outcome]

(* The *Client has been handed out: NewClient has returned it.             *)
Published ==
    /\ handle # "none"
    /\ \A p \in Procs : pc[p] # "newret"

-----------------------------------------------------------------------------
(* NewClient.  Its argument checks return before any state changes; from   *)
(* the C copy of the options on, it is the steps below.                    *)

NewClient(p) ==
    /\ handle = "none"
    /\ \A q \in Procs : pc[q] \notin {"newffi", "newret"}
    /\ pc[p] = "idle"
    /\ Goto(p, "newffi")
    /\ opts' = opts \cup {p}
    /\ ret' = [ret EXCEPT ![p] = "none"]
    /\ UNCHANGED <<rwVars, ptr, handle, stage, todo, res, late>>

(* protect_new_client returns a boxed client or an error string.           *)
NewClientFfi(p) ==
    /\ pc[p] = "newffi"
    /\ Goto(p, "newret")
    /\ \/ /\ handle' = "live"
          /\ UNCHANGED res
       \/ /\ res' = [res EXCEPT ![p] = "error"]
          /\ UNCHANGED handle
    /\ UNCHANGED <<rwVars, ptr, stage, todo, opts, ret, late>>

NewClientReturn(p) ==
    /\ pc[p] = "newret"
    /\ opts' = opts \ {p}
    /\ \/ /\ res[p] = "error"
          /\ res' = [res EXCEPT ![p] = "none"]
          /\ ReturnWith(p, "failed")
          /\ UNCHANGED ptr
       \/ /\ res[p] = "none"
          /\ ptr' = "set"
          /\ ReturnWith(p, "ok")
          /\ UNCHANGED res
    /\ UNCHANGED <<rwVars, handle, stage, todo, late>>

-----------------------------------------------------------------------------
(* The operations.                                                         *)

(* A goroutine begins an operation of the client.                          *)
Begin(p) ==
    /\ Published
    /\ pc[p] = "idle"
    /\ Goto(p, "rlock")
    /\ RLock(p)
    /\ ret' = [ret EXCEPT ![p] = "none"]
    /\ late' = IF ptr = "nil" THEN late \cup {p} ELSE late \ {p}
    /\ UNCHANGED <<ptr, handle, opts, res>>

(* Encrypt, Decrypt, EncryptBulk, DecryptBulk, DecryptBulkFallible,        *)
(* EncryptQuery, EncryptQueryBulk.                                         *)
DirectCall(p) ==
    /\ Begin(p)
    /\ stage' = [stage EXCEPT ![p] = "call"]
    /\ todo' = [todo EXCEPT ![p] = 0]

(* Mutant: a model operation without its precheck.                         *)
ModelCallUnchecked(p, n) ==
    /\ Published
    /\ pc[p] = "idle"
    /\ Goto(p, "nested")
    /\ ret' = [ret EXCEPT ![p] = "none"]
    /\ late' = IF ptr = "nil" THEN late \cup {p} ELSE late \ {p}
    /\ todo' = [todo EXCEPT ![p] = n]
    /\ UNCHANGED <<rwVars, ptr, handle, stage, opts, res>>

(* EncryptModel and DecryptModel with n fields to process, or              *)
(* BulkEncryptModels and BulkDecryptModels with n = 0 or 1.                *)
ModelCall(p, n) ==
    /\ Begin(p)
    /\ stage' = [stage EXCEPT ![p] = "precheck"]
    /\ todo' = [todo EXCEPT ![p] = n]

(* Mutant: acquirePtr unlocks before it returns the pointer.               *)
AcquirePtrUnlocked(p) ==
    /\ pc[p] = "rlock"
    /\ p \in readers
    /\ RUnlock(p)
    /\ \/ /\ ptr = "nil"
          /\ ReturnWith(p, "closed")
       \/ /\ ptr = "set"
          /\ Goto(p, IF stage[p] = "precheck" THEN "nested" ELSE "locked")
          /\ UNCHANGED ret
    /\ UNCHANGED <<ptr, handle, stage, todo, opts, res, late>>

(* Mutant: a model operation keeps the precheck's lock (defer unlock()).   *)
AcquirePtrKept(p) ==
    /\ pc[p] = "rlock"
    /\ p \in readers
    /\ p \notin waiting
    /\ \/ /\ ptr = "nil"
          /\ RUnlock(p)
          /\ ReturnWith(p, "closed")
       \/ /\ ptr = "set"
          /\ Goto(p, IF stage[p] = "precheck" THEN "nested" ELSE "locked")
          /\ UNCHANGED <<rwVars, ret>>
    /\ UNCHANGED <<ptr, handle, stage, todo, opts, res, late>>

(* The check of acquirePtr, with the lock held.  A model operation's       *)
(* precheck drops the lock again at once.                                  *)
AcquirePtr(p) ==
    /\ pc[p] = "rlock"
    /\ p \in readers
    /\ \/ /\ ptr = "nil"
          /\ RUnlock(p)
          /\ ReturnWith(p, "closed")
       \/ /\ ptr = "set"
          /\ stage[p] = "precheck"
          /\ RUnlock(p)
          /\ Goto(p, "nested")
          /\ UNCHANGED ret
       \/ /\ ptr = "set"
          /\ stage[p] = "call"
          /\ Goto(p, "locked")
          /\ UNCHANGED <<rwVars, ret>>
    /\ UNCHANGED <<ptr, handle, stage, todo, opts, res, late>>

(* Mutant: the loop over the fields runs past the last one.                *)
NextNestedOneMore(p) ==
    /\ pc[p] = "nested"
    /\ \/ /\ ReturnWith(p, "failed")
          /\ UNCHANGED <<rwVars, stage, todo>>
       \/ /\ todo' = [todo EXCEPT ![p] = @ - 1]
          /\ stage' = [stage EXCEPT ![p] = "call"]
          /\ RLock(p)
          /\ Goto(p, "rlock")
          /\ UNCHANGED ret
    /\ UNCHANGED <<ptr, handle, opts, res, late>>

(* A model operation with nothing left to encrypt or decrypt returns; one  *)
(* with a field left makes the nested call; either may fail first (a       *)
(* model of the wrong kind, a value that is not a payload, a column that   *)
(* is not in the schema).                                                  *)
NextNested(p) ==
    /\ pc[p] = "nested"
    /\ \/ /\ todo[p] = 0
          /\ ReturnWith(p, "ok")
          /\ UNCHANGED <<rwVars, stage, todo>>
       \/ /\ ReturnWith(p, "failed")
          /\ UNCHANGED <<rwVars, stage, todo>>
       \/ /\ todo[p] > 0
          /\ todo' = [todo EXCEPT ![p] = @ - 1]
          /\ stage' = [stage EXCEPT ![p] = "call"]
          /\ RLock(p)
          /\ Goto(p, "rlock")
          /\ UNCHANGED ret
    /\ UNCHANGED <<ptr, handle, opts, res, late>>

(* Mutant: the early return forgets the lock (no defer unlock()).          *)
PrepareForgetful(p) ==
    /\ pc[p] = "locked"
    /\ \/ /\ ReturnWith(p, "failed")
          /\ UNCHANGED opts
       \/ /\ opts' = opts \cup {p}
          /\ Goto(p, "ffi")
          /\ UNCHANGED ret
    /\ UNCHANGED <<rwVars, ptr, handle, stage, todo, res, late>>

(* The context check and json.Marshal, which may fail (or panic, in the    *)
(* caller's MarshalJSON: the deferred unlock runs all the same), and then  *)
(* C.CString and the native call.                                          *)
Prepare(p) ==
    /\ pc[p] = "locked"
    /\ \/ /\ RUnlock(p)
          /\ ReturnWith(p, "failed")
          /\ UNCHANGED opts
       \/ /\ opts' = opts \cup {p}
          /\ Goto(p, "ffi")
          /\ UNCHANGED <<rwVars, ret>>
    /\ UNCHANGED <<ptr, handle, stage, todo, res, late>>

(* The native call returns a string that the caller must free.             *)
FfiReturn(p) ==
    /\ pc[p] = "ffi"
    /\ \E r \in {"data", "error"} : res' = [res EXCEPT ![p] = r]
    /\ Goto(p, "ret")
    /\ UNCHANGED <<rwVars, ptr, handle, stage, todo, opts, ret, late>>

(* C.GoString and protect_free_string, on both paths.                      *)
ReadResult(p) ==
    /\ pc[p] = "ret"
    /\ res' = [res EXCEPT ![p] = "none"]
    /\ Goto(p, "decode")
    /\ ret' = [ret EXCEPT ![p] = IF res[p] = "error" THEN "failed" ELSE @]
    /\ UNCHANGED <<rwVars, ptr, handle, stage, todo, opts, late>>

(* Decoding the copy (which may fail) and the deferred C.free and RUnlock. *)
(* A failed nested call fails its model operation.                         *)
Return(p) ==
    /\ pc[p] = "decode"
    /\ opts' = opts \ {p}
    /\ RUnlock(p)
    /\ \/ ReturnWith(p, "failed")
       \/ /\ ret[p] # "failed"
          /\ todo[p] = 0
          /\ ReturnWith(p, "ok")
       \/ /\ ret[p] # "failed"
          /\ todo[p] > 0
          /\ Goto(p, "nested")
          /\ UNCHANGED ret
    /\ UNCHANGED <<ptr, handle, stage, todo, res, late>>

-----------------------------------------------------------------------------
(* Close.                                                                  *)

Close(p) ==
    /\ Published
    /\ pc[p] = "idle"
    /\ Goto(p, "wlock")
    /\ ret' = [ret EXCEPT ![p] = "none"]
    /\ late' = late \ {p}
    /\ UNCHANGED <<rwVars, ptr, handle, stage, todo, opts, res>>

CloseAnnounce(p) ==
    /\ pc[p] = "wlock"
    /\ AnnounceWriter(p)
    /\ Goto(p, "drain")
    /\ UNCHANGED <<ptr, handle, stage, todo, opts, res, ret, late>>

(* Mutant: Close takes its turn while operations are still inside.         *)
CloseLockedEarly(p) ==
    /\ pc[p] = "drain"
    /\ Goto(p, "close")
    /\ UNCHANGED <<rwVars, ptr, handle, stage, todo, opts, res, ret, late>>

CloseLocked(p) ==
    /\ pc[p] = "drain"
    /\ WriterGranted(p)
    /\ Goto(p, "close")
    /\ UNCHANGED <<rwVars, ptr, handle, stage, todo, opts, res, ret, late>>

(* Mutant: Close does not look at the pointer.                             *)
CloseHandleAlways(p) ==
    /\ pc[p] = "close"
    /\ handle' = IF handle = "live" THEN "freed" ELSE "doubleFreed"
    /\ Goto(p, "clear")
    /\ UNCHANGED <<rwVars, ptr, stage, todo, opts, res, ret, late>>

(* A client that is already closed is left alone; otherwise                *)
(* protect_free_client drops the box.                                      *)
CloseHandle(p) ==
    /\ pc[p] = "close"
    /\ \/ /\ ptr = "nil"
          /\ Unlock
          /\ ReturnWith(p, "ok")
          /\ UNCHANGED handle
       \/ /\ ptr = "set"
          /\ handle' = IF handle = "live" THEN "freed" ELSE "doubleFreed"
          /\ Goto(p, "clear")
          /\ UNCHANGED <<rwVars, ret>>
    /\ UNCHANGED <<ptr, stage, todo, opts, res, late>>

(* Mutant: Close leaves the pointer set.                                   *)
CloseClearNot(p) ==
    /\ pc[p] = "clear"
    /\ Unlock
    /\ ReturnWith(p, "ok")
    /\ UNCHANGED <<ptr, handle, stage, todo, opts, res, late>>

CloseClear(p) ==
    /\ pc[p] = "clear"
    /\ ptr' = "nil"
    /\ Unlock
    /\ ReturnWith(p, "ok")
    /\ UNCHANGED <<handle, stage, todo, opts, res, late>>

-----------------------------------------------------------------------------
(* The steps a goroutine takes once it is inside a call.                   *)
Step(p) ==
    \/ NewClientFfi(p)
    \/ NewClientReturn(p)
    \/ AcquirePtr(p)
    \/ NextNested(p)
    \/ Prepare(p)
    \/ FfiReturn(p)
    \/ ReadResult(p)
    \/ Return(p)
    \/ CloseLocked(p)
    \/ CloseHandle(p)
    \/ CloseClear(p)

(* What the program around the client may do.                              *)
Start(p) ==
    \/ NewClient(p)
    \/ DirectCall(p)
    \/ \E n \in 0..MaxNested : ModelCall(p, n)
    \/ Close(p)

Next == \E p \in Procs : Start(p) \/ CloseAnnounce(p) \/ Step(p)

Spec == Init /\ [][Next]_vars

(* Goroutines are scheduled and native calls return (the library's own     *)
(* requests are assumed to: protect.go sets no deadline on them).  Lock's  *)
(* inner mutex hands over to a starving writer, hence strong fairness for  *)
(* its announcement.  Nobody has to start a call.                          *)
Fairness == \A p \in Procs : WF_vars(Step(p)) /\ SF_vars(CloseAnnounce(p))

FairSpec == Spec /\ Fairness
-----------------------------------------------------------------------------
(* Properties.                                                             *)

(* The pointer a call read under the lock is still good when the call uses *)
(* it: the native client is live from the check of acquirePtr to the       *)
(* return of the native call, whatever Close does meanwhile.               *)
NoUseAfterFree ==
    \A p \in Procs : pc[p] \in {"locked", "ffi"} => handle = "live"

(* However many goroutines close the client, and however often, the box is *)
(* dropped once.                                                           *)
FreedOnce == handle # "doubleFreed"

(* A goroutine outside a call owns nothing: no lock, no place in the       *)
(* lock's queue, no C copy of its options and no unfreed result, whichever *)
(* of the error returns and deferred calls it left by.  Between two nested *)
(* calls a model operation owns nothing either.                            *)
IdleHoldsNothing ==
    \A p \in Procs : pc[p] \in {"idle", "nested"} =>
        /\ p \notin readers \cup waiting \cup opts \cup {writer}
        /\ res[p] = "none"

(* A call that begins after the client was closed never reaches the        *)
(* library and returns ErrClientClosed: also a model operation that has    *)
(* nothing to encrypt and would make no nested call.                       *)
LateCallRefused ==
    \A p \in late :
        /\ pc[p] \in {"idle", "rlock"}
        /\ pc[p] = "idle" => ret[p] = "closed"

(* Close is a barrier: every operation that queued behind a Close finds    *)
(* the client closed when the lock lets it in.                             *)
CloseIsBarrier ==
    [][\A p \in Procs : (p \in waiting /\ p \in readers') => ptr' = "nil"]_vars

(* Close returns, however the goroutines it competes with are scheduled:   *)
(* in particular no model operation waits, inside the lock, for a nested   *)
(* call that waits behind the Close.                                       *)
CloseReturns ==
    \A p \in Procs :
        pc[p] \in {"wlock", "drain", "close", "clear"} ~> pc[p] = "idle"

(* Every operation returns, though Close after Close may overtake it.      *)
CallReturns == \A p \in Procs : pc[p] = "rlock" ~> pc[p] = "idle"

(* The client keeps the promise of HandleSpec.                             *)
Handle == INSTANCE HandleSpec WITH
    status  <- handle,
    users   <- {p \in Procs : pc[p] = "ffi"},
    refused <- {p \in Procs : ret[p] = "closed"}

HandleImplemented == Handle!Spec
=============================================================================
