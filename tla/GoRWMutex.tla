----------------------------- MODULE GoRWMutex -----------------------------
(***************************************************************************)
(* sync.RWMutex of Go's standard library, the lock of protect.go's Client. *)
(* It lives outside the repository and is modelled by the guarantees the   *)
(* client leans on:                                                        *)
(*   - any number of readers or one writer;                                *)
(*   - a writer first announces itself (RWMutex.Lock subtracts             *)
(*     rwmutexMaxReaders from the reader count) and then waits for the     *)
(*     readers already inside to leave;                                    *)
(*   - a reader that arrives while a writer is announced queues behind it; *)
(*   - the writer's Unlock admits every queued reader at once.             *)
(* A goroutine appears once in readers: the lock is not reentrant for the  *)
(* client, and ClientHandleProofs shows no call takes it twice.            *)
(***************************************************************************)
CONSTANTS Procs,     \* the goroutines
          NoProc     \* "no writer"

ASSUME NoProcAssumption == NoProc \notin Procs

VARIABLES readers,   \* goroutines inside RLock .. RUnlock
          waiting,   \* goroutines blocked in RLock behind a writer
          writer     \* the announced writer, or NoProc

rwVars == <<readers, waiting, writer>>

RWTypeOK ==
    /\ readers \subseteq Procs
    /\ waiting \subseteq Procs
    /\ writer \in Procs \cup {NoProc}

RWInit ==
    /\ readers = {}
    /\ waiting = {}
    /\ writer = NoProc

(* p calls RLock: it is admitted at once, or it queues behind a writer.    *)
RLock(p) ==
    /\ UNCHANGED writer
    /\ \/ /\ writer = NoProc
          /\ readers' = readers \cup {p}
          /\ UNCHANGED waiting
       \/ /\ writer # NoProc
          /\ waiting' = waiting \cup {p}
          /\ UNCHANGED readers

RUnlock(p) ==
    /\ readers' = readers \ {p}
    /\ UNCHANGED <<waiting, writer>>

(* p calls Lock and becomes the announced writer.                          *)
AnnounceWriter(p) ==
    /\ writer = NoProc
    /\ writer' = p
    /\ UNCHANGED <<readers, waiting>>

(* p's Lock returns.                                                       *)
WriterGranted(p) ==
    /\ writer = p
    /\ readers = {}

Unlock ==
    /\ writer' = NoProc
    /\ readers' = readers \cup waiting
    /\ waiting' = {}
=============================================================================
