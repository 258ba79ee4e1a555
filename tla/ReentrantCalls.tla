--------------------------- MODULE ReentrantCalls ---------------------------
(***************************************************************************)
(* Operations whose argument calls the client again: json.Marshal runs the *)
(* caller's MarshalJSON between acquirePtr and the native call, under the  *)
(* read lock (protect.go), and nothing keeps it from encrypting a part of  *)
(* the value, or from closing the client.                                  *)
(*                                                                         *)
(* A goroutine is a stack of calls; each call is a reader of its own to    *)
(* the lock, which does not know that they belong together.                *)
(***************************************************************************)
EXTENDS Naturals

CONSTANTS
    Goroutines,
    MaxDepth,   \* calls in one another
    Nobody      \* no writer

ASSUME DepthAssumption == MaxDepth \in Nat \ {0}
ASSUME NobodyAssumption == Nobody \notin Goroutines \X (1..MaxDepth)

VARIABLES
    readers, waiting, writer,  \* the lock, with calls for readers and writers
    depth,    \* how many calls each goroutine is in
    at,       \* where the innermost one is
    open,     \* Client.ptr is set
    freed     \* the native client has been freed

Calls == Goroutines \X (1..MaxDepth)
Lock == INSTANCE GoRWMutex WITH Procs <- Calls, NoProc <- Nobody

lockVars == <<readers, waiting, writer>>
vars == <<lockVars, depth, at, open, freed>>

Top(p) == <<p, depth[p]>>
Goto(p, place) == at' = [at EXCEPT ![p] = place]

TypeOK ==
    /\ Lock!RWTypeOK
    /\ depth \in [Goroutines -> 0..MaxDepth]
    /\ at \in [Goroutines -> {"idle", "rlock", "marshal", "ffi", "wlock", "drain"}]
    /\ \A p \in Goroutines : at[p] = "idle" <=> depth[p] = 0
    /\ open \in BOOLEAN /\ freed \in BOOLEAN

Init ==
    /\ Lock!RWInit
    /\ depth = [p \in Goroutines |-> 0]
    /\ at = [p \in Goroutines |-> "idle"]
    /\ open = TRUE
    /\ freed = FALSE

(* p enters a call: its first one, or one from a MarshalJSON.              *)
Enter(p, place) ==
    /\ at[p] \in {"idle", "marshal"}
    /\ depth[p] < MaxDepth
    /\ depth' = [depth EXCEPT ![p] = @ + 1]
    /\ Goto(p, place)

(* The innermost call of p returns: to the program, or to the MarshalJSON  *)
(* that made it.                                                           *)
Leave(p) ==
    /\ depth' = [depth EXCEPT ![p] = @ - 1]
    /\ Goto(p, IF depth[p] = 1 THEN "idle" ELSE "marshal")

Operation(p) ==
    /\ Enter(p, "rlock")
    /\ Lock!RLock(<<p, depth[p] + 1>>)
    /\ UNCHANGED <<open, freed>>

(* Mutant: the lock is dropped once the pointer is read.                   *)
AcquirePtrUnlocked(p) ==
    /\ at[p] = "rlock"
    /\ Top(p) \in readers
    /\ Lock!RUnlock(Top(p))
    /\ IF open THEN Goto(p, "marshal") /\ UNCHANGED depth ELSE Leave(p)
    /\ UNCHANGED <<open, freed>>

AcquirePtr(p) ==
    /\ at[p] = "rlock"
    /\ Top(p) \in readers
    /\ IF open
       THEN Goto(p, "marshal") /\ UNCHANGED <<lockVars, depth>>
       ELSE Lock!RUnlock(Top(p)) /\ Leave(p)
    /\ UNCHANGED <<open, freed>>

(* The deferred unlock, with the call's result or with an error of the     *)
(* context check or of json.Marshal.                                       *)
Return(p) ==
    /\ Lock!RUnlock(Top(p))
    /\ Leave(p)

(* Mutant: a failed json.Marshal keeps the lock.                           *)
MarshalKeeping(p) ==
    /\ at[p] = "marshal"
    /\ \/ Goto(p, "ffi") /\ UNCHANGED <<lockVars, depth>>
       \/ Leave(p) /\ UNCHANGED lockVars
    /\ UNCHANGED <<open, freed>>

Marshal(p) ==
    /\ at[p] = "marshal"
    /\ \/ Goto(p, "ffi") /\ UNCHANGED <<lockVars, depth>>
       \/ Return(p)
    /\ UNCHANGED <<open, freed>>

Native(p) ==
    /\ at[p] = "ffi"
    /\ Return(p)
    /\ UNCHANGED <<open, freed>>

Close(p) ==
    /\ Enter(p, "wlock")
    /\ UNCHANGED <<lockVars, open, freed>>

CloseAnnounce(p) ==
    /\ at[p] = "wlock"
    /\ Lock!AnnounceWriter(Top(p))
    /\ Goto(p, "drain")
    /\ UNCHANGED <<depth, open, freed>>

(* Mutant: Close waits for the other goroutines only.                      *)
CloseLockedRecursive(p) ==
    /\ at[p] = "drain"
    /\ readers \subseteq {p} \X (1..MaxDepth)
    /\ open' = FALSE
    /\ freed' = (freed \/ open)
    /\ Lock!Unlock
    /\ Leave(p)

(* Lock returns, and Close frees the client if it is open and unlocks.     *)
CloseLocked(p) ==
    /\ at[p] = "drain"
    /\ Lock!WriterGranted(Top(p))
    /\ open' = FALSE
    /\ freed' = (freed \/ open)
    /\ Lock!Unlock
    /\ Leave(p)

Step(p) ==
    \/ AcquirePtr(p)
    \/ Marshal(p)
    \/ Native(p)
    \/ CloseLocked(p)

Next ==
    \E p \in Goroutines :
        \/ Operation(p)
        \/ Close(p)
        \/ CloseAnnounce(p)
        \/ Step(p)

Spec == Init /\ [][Next]_vars

(* As in ClientHandle; a MarshalJSON that calls the client ends, too.      *)
Fairness ==
    \A p \in Goroutines :
        /\ WF_vars(AcquirePtr(p)) /\ WF_vars(Native(p)) /\ WF_vars(CloseLocked(p))
        /\ SF_vars(Marshal(p)) /\ SF_vars(CloseAnnounce(p))

FairSpec == Spec /\ Fairness

-----------------------------------------------------------------------------
(* Properties.                                                             *)

(* However deep the calls nest, each one that got through acquirePtr has   *)
(* the client open under it until it returns, so that no inner call of its *)
(* own argument is refused or works on a freed client.  And every variable *)
(* keeps its type.                                                         *)
OuterCallsCovered ==
    /\ TypeOK
    /\ \A p \in Goroutines : \A d \in 1..depth[p] :
          (d < depth[p] \/ at[p] \in {"marshal", "ffi"}) =>
              <<p, d>> \in readers /\ open /\ ~freed

(* p's innermost call came from a MarshalJSON and waits for a lock that    *)
(* waits for the call around it: it queues behind a Close, or is one.      *)
SelfBlocked(p) ==
    /\ depth[p] > 1
    /\ at[p] = "rlock" => Top(p) \in waiting
    /\ at[p] \in {"rlock", "wlock", "drain"}

(* A call that queues hangs for no other reason than such a nested call    *)
(* somewhere.                                                              *)
HangsOnlyNested ==
    \A p \in Goroutines :
        at[p] \in {"rlock", "wlock", "drain"} ~>
            (at[p] \notin {"rlock", "wlock", "drain"} \/ \E q \in Goroutines : SelfBlocked(q))

(* A nested call that waits will wait forever: its goroutine holds what    *)
(* the lock is waiting for.                                                *)
NestedWaitIsForever ==
    [][\A p \in Goroutines : SelfBlocked(p) => SelfBlocked(p)']_vars
=============================================================================
