------------------------ MODULE ClientHandleProofs ------------------------
(***************************************************************************)
(* The safety of ClientHandle for any set of goroutines and any number of  *)
(* nested calls.  The argument is one inductive invariant that says, for   *)
(* each place a goroutine can be, what it holds of the lock, and what the  *)
(* lock lets it rely on:                                                   *)
(*   - a goroutine between acquirePtr and its deferred unlock is a reader; *)
(*   - while there is a reader, no writer is past its Lock;                *)
(*   - only a writer past its Lock frees the client or clears the pointer, *)
(*     so what a reader read under the lock stays true.                    *)
(***************************************************************************)
EXTENDS ClientHandle, TLAPS

Inside == {"locked", "ffi", "ret", "decode"}
Closing == {"drain", "close", "clear"}

(* Who holds the lock, who queues for it, and where in the code they are.  *)
LockInv ==
    /\ \A p \in Procs : p \in readers => pc[p] \in Inside \cup {"rlock"}
    /\ \A p \in Procs : p \in waiting =>
          pc[p] = "rlock" /\ writer # NoProc /\ p \notin readers
    /\ \A p \in Procs : pc[p] \in Inside => p \in readers
    /\ \A p \in Procs : writer = p <=> pc[p] \in Closing
    /\ \A p \in Procs : pc[p] \in {"close", "clear"} => readers = {}

(* The pointer and the native client agree, except while a Close is        *)
(* between its two assignments or a NewClient has not returned yet.        *)
PtrInv ==
    /\ \A p \in Procs : pc[p] \in Inside => ptr = "set"
    /\ ptr = "set" /\ handle # "live" =>
          handle = "freed" /\ \E p \in Procs : pc[p] = "clear"
    /\ ptr = "nil" /\ handle = "live" => \E p \in Procs : pc[p] = "newret"
    /\ \A p \in Procs : pc[p] = "clear" => ptr = "set" /\ handle = "freed"
    /\ handle # "doubleFreed"

(* Nobody but NewClient runs before the client is published, and only one  *)
(* NewClient does.                                                         *)
NewInv ==
    /\ \A p \in Procs : pc[p] \in {"newffi", "newret"} =>
          \A q \in Procs \ {p} : pc[q] = "idle"
    /\ \A p \in Procs : pc[p] \in {"newffi", "newret"} => ptr = "nil"
    /\ \A p \in Procs : pc[p] = "newffi" => handle = "none"
    /\ \A p \in Procs : pc[p] = "newret" =>
          handle = (IF res[p] = "error" THEN "none" ELSE "live")
    /\ handle = "none" => ptr = "nil" /\
          \A p \in Procs : pc[p] \in {"idle", "newffi", "newret"}

(* What a goroutine owns of C memory.                                      *)
MemInv ==
    /\ \A p \in Procs : p \in opts =>
          pc[p] \in {"newffi", "newret", "ffi", "ret", "decode"}
    /\ \A p \in Procs : res[p] # "none" => pc[p] \in {"newret", "ret"}

(* A late call waits for the lock or has been turned away.                 *)
LateInv ==
    /\ late # {} => ptr = "nil" /\ handle = "freed"
    /\ LateCallRefused

IInv == TypeOK /\ LockInv /\ PtrInv /\ NewInv /\ MemInv /\ LateInv

(* Every step keeps every variable in its type.                            *)
LEMMA TypePreserved ==
    ASSUME TypeOK, [Next]_vars
    PROVE  TypeOK'
<1> USE DEF TypeOK, RWTypeOK, PCs, Goto, ReturnWith, vars, rwVars
<1>1. CASE UNCHANGED vars
  BY <1>1
<1>2. ASSUME NEW p \in Procs, NewClient(p)
      PROVE  TypeOK'
  BY MaxNestedAssumption, NoProcAssumption, <1>2 DEF NewClient
<1>3. ASSUME NEW p \in Procs, NewClientFfi(p)
      PROVE  TypeOK'
  BY MaxNestedAssumption, NoProcAssumption, <1>3 DEF NewClientFfi
<1>4. ASSUME NEW p \in Procs, NewClientReturn(p)
      PROVE  TypeOK'
  BY MaxNestedAssumption, NoProcAssumption, <1>4 DEF NewClientReturn
<1>5. ASSUME NEW p \in Procs, DirectCall(p)
      PROVE  TypeOK'
  BY MaxNestedAssumption, NoProcAssumption, <1>5 DEF DirectCall, Begin, Published, RLock
<1>6. ASSUME NEW p \in Procs, NEW n \in 0..MaxNested, ModelCall(p, n)
      PROVE  TypeOK'
  BY MaxNestedAssumption, NoProcAssumption, <1>6 DEF ModelCall, Begin, Published, RLock
<1>7. ASSUME NEW p \in Procs, AcquirePtr(p)
      PROVE  TypeOK'
  BY MaxNestedAssumption, NoProcAssumption, <1>7 DEF AcquirePtr, RUnlock
<1>8. ASSUME NEW p \in Procs, NextNested(p)
      PROVE  TypeOK'
  BY MaxNestedAssumption, NoProcAssumption, <1>8 DEF NextNested, RLock
<1>9. ASSUME NEW p \in Procs, Prepare(p)
      PROVE  TypeOK'
  BY MaxNestedAssumption, NoProcAssumption, <1>9 DEF Prepare, RUnlock
<1>10. ASSUME NEW p \in Procs, FfiReturn(p)
      PROVE  TypeOK'
  BY MaxNestedAssumption, NoProcAssumption, <1>10 DEF FfiReturn
<1>11. ASSUME NEW p \in Procs, ReadResult(p)
      PROVE  TypeOK'
  BY MaxNestedAssumption, NoProcAssumption, <1>11 DEF ReadResult
<1>12. ASSUME NEW p \in Procs, Return(p)
      PROVE  TypeOK'
  BY MaxNestedAssumption, NoProcAssumption, <1>12 DEF Return, RUnlock
<1>13. ASSUME NEW p \in Procs, Close(p)
      PROVE  TypeOK'
  BY MaxNestedAssumption, NoProcAssumption, <1>13 DEF Close, Published
<1>14. ASSUME NEW p \in Procs, CloseAnnounce(p)
      PROVE  TypeOK'
  BY MaxNestedAssumption, NoProcAssumption, <1>14 DEF CloseAnnounce, AnnounceWriter
<1>15. ASSUME NEW p \in Procs, CloseLocked(p)
      PROVE  TypeOK'
  BY MaxNestedAssumption, NoProcAssumption, <1>15 DEF CloseLocked, WriterGranted
<1>16. ASSUME NEW p \in Procs, CloseHandle(p)
      PROVE  TypeOK'
  BY MaxNestedAssumption, NoProcAssumption, <1>16 DEF CloseHandle, Unlock
<1>17. ASSUME NEW p \in Procs, CloseClear(p)
      PROVE  TypeOK'
  BY MaxNestedAssumption, NoProcAssumption, <1>17 DEF CloseClear, Unlock
<1> HIDE DEF TypeOK, RWTypeOK, PCs, Goto, ReturnWith, vars, rwVars
<1> QED
  BY <1>1, <1>2, <1>3, <1>4, <1>5, <1>6, <1>7, <1>8, <1>9, <1>10, <1>11, <1>12, <1>13, <1>14, <1>15, <1>16, <1>17 DEF Next, Start, Step

(* Every step keeps program counters and lock in agreement.                *)
LEMMA LockPreserved ==
    ASSUME TypeOK, LockInv, NewInv, [Next]_vars
    PROVE  LockInv'
<1> USE DEF TypeOK, RWTypeOK, PCs, LockInv, Inside, Closing, Goto, ReturnWith, vars, rwVars
<1>1. CASE UNCHANGED vars
  BY <1>1
<1>2. ASSUME NEW p \in Procs, NewClient(p)
      PROVE  LockInv'
  BY NoProcAssumption, <1>2 DEF NewClient
<1>3. ASSUME NEW p \in Procs, NewClientFfi(p)
      PROVE  LockInv'
  BY NoProcAssumption, <1>3 DEF NewClientFfi
<1>4. ASSUME NEW p \in Procs, NewClientReturn(p)
      PROVE  LockInv'
  BY NoProcAssumption, <1>4 DEF NewClientReturn
<1>5. ASSUME NEW p \in Procs, DirectCall(p)
      PROVE  LockInv'
  BY NoProcAssumption, <1>5 DEF DirectCall, Begin, Published, RLock
<1>6. ASSUME NEW p \in Procs, NEW n \in 0..MaxNested, ModelCall(p, n)
      PROVE  LockInv'
  BY NoProcAssumption, <1>6 DEF ModelCall, Begin, Published, RLock
<1>7. ASSUME NEW p \in Procs, AcquirePtr(p)
      PROVE  LockInv'
  BY NoProcAssumption, <1>7 DEF AcquirePtr, RUnlock
<1>8. ASSUME NEW p \in Procs, NextNested(p)
      PROVE  LockInv'
  BY NoProcAssumption, <1>8 DEF NextNested, RLock
<1>9. ASSUME NEW p \in Procs, Prepare(p)
      PROVE  LockInv'
  BY NoProcAssumption, <1>9 DEF Prepare, RUnlock
<1>10. ASSUME NEW p \in Procs, FfiReturn(p)
      PROVE  LockInv'
  BY NoProcAssumption, <1>10 DEF FfiReturn
<1>11. ASSUME NEW p \in Procs, ReadResult(p)
      PROVE  LockInv'
  BY NoProcAssumption, <1>11 DEF ReadResult
<1>12. ASSUME NEW p \in Procs, Return(p)
      PROVE  LockInv'
  BY NoProcAssumption, <1>12 DEF Return, RUnlock
<1>13. ASSUME NEW p \in Procs, Close(p)
      PROVE  LockInv'
  BY NoProcAssumption, <1>13 DEF Close, Published
<1>14. ASSUME NEW p \in Procs, CloseAnnounce(p)
      PROVE  LockInv'
  BY NoProcAssumption, <1>14 DEF CloseAnnounce, AnnounceWriter
<1>15. ASSUME NEW p \in Procs, CloseLocked(p)
      PROVE  LockInv'
  BY NoProcAssumption, <1>15 DEF CloseLocked, WriterGranted
<1>16. ASSUME NEW p \in Procs, CloseHandle(p)
      PROVE  LockInv'
  BY NoProcAssumption, <1>16 DEF CloseHandle, Unlock
<1>17. ASSUME NEW p \in Procs, CloseClear(p)
      PROVE  LockInv'
  BY NoProcAssumption, <1>17 DEF CloseClear, Unlock
<1> HIDE DEF TypeOK, RWTypeOK, PCs, LockInv, Inside, Closing, Goto, ReturnWith, vars, rwVars
<1> QED
  BY <1>1, <1>2, <1>3, <1>4, <1>5, <1>6, <1>7, <1>8, <1>9, <1>10, <1>11, <1>12, <1>13, <1>14, <1>15, <1>16, <1>17 DEF Next, Start, Step

(* Every step keeps pointer and native client in agreement.                *)
LEMMA PtrPreserved ==
    ASSUME TypeOK, LockInv, PtrInv, NewInv, MemInv, [Next]_vars
    PROVE  PtrInv'
<1> USE DEF TypeOK, RWTypeOK, PCs, PtrInv, LockInv, NewInv, MemInv, Inside, Closing, Goto, ReturnWith, vars, rwVars
<1>1. CASE UNCHANGED vars
  BY <1>1
<1>2. ASSUME NEW p \in Procs, NewClient(p)
      PROVE  PtrInv'
  BY NoProcAssumption, <1>2 DEF NewClient
<1>3. ASSUME NEW p \in Procs, NewClientFfi(p)
      PROVE  PtrInv'
  BY NoProcAssumption, <1>3 DEF NewClientFfi
<1>4. ASSUME NEW p \in Procs, NewClientReturn(p)
      PROVE  PtrInv'
  BY NoProcAssumption, <1>4 DEF NewClientReturn
<1>5. ASSUME NEW p \in Procs, DirectCall(p)
      PROVE  PtrInv'
  BY NoProcAssumption, <1>5 DEF DirectCall, Begin, Published, RLock
<1>6. ASSUME NEW p \in Procs, NEW n \in 0..MaxNested, ModelCall(p, n)
      PROVE  PtrInv'
  BY NoProcAssumption, <1>6 DEF ModelCall, Begin, Published, RLock
<1>7. ASSUME NEW p \in Procs, AcquirePtr(p)
      PROVE  PtrInv'
  BY NoProcAssumption, <1>7 DEF AcquirePtr, RUnlock
<1>8. ASSUME NEW p \in Procs, NextNested(p)
      PROVE  PtrInv'
  BY NoProcAssumption, <1>8 DEF NextNested, RLock
<1>9. ASSUME NEW p \in Procs, Prepare(p)
      PROVE  PtrInv'
  BY NoProcAssumption, <1>9 DEF Prepare, RUnlock
<1>10. ASSUME NEW p \in Procs, FfiReturn(p)
      PROVE  PtrInv'
  BY NoProcAssumption, <1>10 DEF FfiReturn
<1>11. ASSUME NEW p \in Procs, ReadResult(p)
      PROVE  PtrInv'
  BY NoProcAssumption, <1>11 DEF ReadResult
<1>12. ASSUME NEW p \in Procs, Return(p)
      PROVE  PtrInv'
  BY NoProcAssumption, <1>12 DEF Return, RUnlock
<1>13. ASSUME NEW p \in Procs, Close(p)
      PROVE  PtrInv'
  BY NoProcAssumption, <1>13 DEF Close, Published
<1>14. ASSUME NEW p \in Procs, CloseAnnounce(p)
      PROVE  PtrInv'
  BY NoProcAssumption, <1>14 DEF CloseAnnounce, AnnounceWriter
<1>15. ASSUME NEW p \in Procs, CloseLocked(p)
      PROVE  PtrInv'
  BY NoProcAssumption, <1>15 DEF CloseLocked, WriterGranted
<1>16. ASSUME NEW p \in Procs, CloseHandle(p)
      PROVE  PtrInv'
  BY NoProcAssumption, <1>16 DEF CloseHandle, Unlock
<1>17. ASSUME NEW p \in Procs, CloseClear(p)
      PROVE  PtrInv'
  BY NoProcAssumption, <1>17 DEF CloseClear, Unlock
<1> HIDE DEF TypeOK, RWTypeOK, PCs, PtrInv, LockInv, NewInv, MemInv, Inside, Closing, Goto, ReturnWith, vars, rwVars
<1> QED
  BY <1>1, <1>2, <1>3, <1>4, <1>5, <1>6, <1>7, <1>8, <1>9, <1>10, <1>11, <1>12, <1>13, <1>14, <1>15, <1>16, <1>17 DEF Next, Start, Step

(* Every step keeps NewClient alone until it has returned.                *)
LEMMA NewPreserved ==
    ASSUME TypeOK, LockInv, PtrInv, NewInv, MemInv, [Next]_vars
    PROVE  NewInv'
<1> USE DEF TypeOK, RWTypeOK, PCs, NewInv, PtrInv, MemInv, Inside, Goto, ReturnWith, vars, rwVars
<1>1. CASE UNCHANGED vars
  BY <1>1
<1>2. ASSUME NEW p \in Procs, NewClient(p)
      PROVE  NewInv'
  BY <1>2 DEF NewClient
<1>3. ASSUME NEW p \in Procs, NewClientFfi(p)
      PROVE  NewInv'
  BY <1>3 DEF NewClientFfi
<1>4. ASSUME NEW p \in Procs, NewClientReturn(p)
      PROVE  NewInv'
  BY <1>4 DEF NewClientReturn
<1>5. ASSUME NEW p \in Procs, DirectCall(p)
      PROVE  NewInv'
  BY <1>5 DEF DirectCall, Begin, Published, RLock
<1>6. ASSUME NEW p \in Procs, NEW n \in 0..MaxNested, ModelCall(p, n)
      PROVE  NewInv'
  BY <1>6 DEF ModelCall, Begin, Published, RLock
<1>7. ASSUME NEW p \in Procs, AcquirePtr(p)
      PROVE  NewInv'
  BY <1>7 DEF AcquirePtr, RUnlock
<1>8. ASSUME NEW p \in Procs, NextNested(p)
      PROVE  NewInv'
  BY <1>8 DEF NextNested, RLock
<1>9. ASSUME NEW p \in Procs, Prepare(p)
      PROVE  NewInv'
  BY <1>9 DEF Prepare, RUnlock
<1>10. ASSUME NEW p \in Procs, FfiReturn(p)
      PROVE  NewInv'
  BY <1>10 DEF FfiReturn
<1>11. ASSUME NEW p \in Procs, ReadResult(p)
      PROVE  NewInv'
  BY <1>11 DEF ReadResult
<1>12. ASSUME NEW p \in Procs, Return(p)
      PROVE  NewInv'
  BY <1>12 DEF Return, RUnlock
<1>13. ASSUME NEW p \in Procs, Close(p)
      PROVE  NewInv'
  BY <1>13 DEF Close, Published
<1>14. ASSUME NEW p \in Procs, CloseAnnounce(p)
      PROVE  NewInv'
  BY <1>14 DEF CloseAnnounce, AnnounceWriter
<1>15. ASSUME NEW p \in Procs, CloseLocked(p)
      PROVE  NewInv'
  BY <1>15 DEF CloseLocked, WriterGranted
<1>16. ASSUME NEW p \in Procs, CloseHandle(p)
      PROVE  NewInv'
  BY <1>16 DEF CloseHandle, Unlock
<1>17. ASSUME NEW p \in Procs, CloseClear(p)
      PROVE  NewInv'
  BY <1>17 DEF CloseClear, Unlock
<1> HIDE DEF TypeOK, RWTypeOK, PCs, NewInv, PtrInv, MemInv, Inside, Goto, ReturnWith, vars, rwVars
<1> QED
  BY <1>1, <1>2, <1>3, <1>4, <1>5, <1>6, <1>7, <1>8, <1>9, <1>10, <1>11, <1>12, <1>13, <1>14, <1>15, <1>16, <1>17 DEF Next, Start, Step

(* Every step keeps C memory owned by the call that allocated it.          *)
LEMMA MemPreserved ==
    ASSUME TypeOK, MemInv, [Next]_vars
    PROVE  MemInv'
<1> USE DEF TypeOK, RWTypeOK, PCs, MemInv, Goto, ReturnWith, vars, rwVars
<1>1. CASE UNCHANGED vars
  BY <1>1
<1>2. ASSUME NEW p \in Procs, NewClient(p)
      PROVE  MemInv'
  BY <1>2 DEF NewClient
<1>3. ASSUME NEW p \in Procs, NewClientFfi(p)
      PROVE  MemInv'
  BY <1>3 DEF NewClientFfi
<1>4. ASSUME NEW p \in Procs, NewClientReturn(p)
      PROVE  MemInv'
  BY <1>4 DEF NewClientReturn
<1>5. ASSUME NEW p \in Procs, DirectCall(p)
      PROVE  MemInv'
  BY <1>5 DEF DirectCall, Begin, Published, RLock
<1>6. ASSUME NEW p \in Procs, NEW n \in 0..MaxNested, ModelCall(p, n)
      PROVE  MemInv'
  BY <1>6 DEF ModelCall, Begin, Published, RLock
<1>7. ASSUME NEW p \in Procs, AcquirePtr(p)
      PROVE  MemInv'
  BY <1>7 DEF AcquirePtr, RUnlock
<1>8. ASSUME NEW p \in Procs, NextNested(p)
      PROVE  MemInv'
  BY <1>8 DEF NextNested, RLock
<1>9. ASSUME NEW p \in Procs, Prepare(p)
      PROVE  MemInv'
  BY <1>9 DEF Prepare, RUnlock
<1>10. ASSUME NEW p \in Procs, FfiReturn(p)
      PROVE  MemInv'
  BY <1>10 DEF FfiReturn
<1>11. ASSUME NEW p \in Procs, ReadResult(p)
      PROVE  MemInv'
  BY <1>11 DEF ReadResult
<1>12. ASSUME NEW p \in Procs, Return(p)
      PROVE  MemInv'
  BY <1>12 DEF Return, RUnlock
<1>13. ASSUME NEW p \in Procs, Close(p)
      PROVE  MemInv'
  BY <1>13 DEF Close, Published
<1>14. ASSUME NEW p \in Procs, CloseAnnounce(p)
      PROVE  MemInv'
  BY <1>14 DEF CloseAnnounce, AnnounceWriter
<1>15. ASSUME NEW p \in Procs, CloseLocked(p)
      PROVE  MemInv'
  BY <1>15 DEF CloseLocked, WriterGranted
<1>16. ASSUME NEW p \in Procs, CloseHandle(p)
      PROVE  MemInv'
  BY <1>16 DEF CloseHandle, Unlock
<1>17. ASSUME NEW p \in Procs, CloseClear(p)
      PROVE  MemInv'
  BY <1>17 DEF CloseClear, Unlock
<1> HIDE DEF TypeOK, RWTypeOK, PCs, MemInv, Goto, ReturnWith, vars, rwVars
<1> QED
  BY <1>1, <1>2, <1>3, <1>4, <1>5, <1>6, <1>7, <1>8, <1>9, <1>10, <1>11, <1>12, <1>13, <1>14, <1>15, <1>16, <1>17 DEF Next, Start, Step

(* Every step keeps late calls out of the library.                         *)
LEMMA LatePreserved ==
    ASSUME TypeOK, PtrInv, NewInv, MemInv, LateInv, [Next]_vars
    PROVE  LateInv'
<1> USE DEF TypeOK, RWTypeOK, PCs, LateInv, LateCallRefused, PtrInv, NewInv, Inside, Goto, ReturnWith, vars, rwVars
<1>1. CASE UNCHANGED vars
  BY <1>1
<1>2. ASSUME NEW p \in Procs, NewClient(p)
      PROVE  LateInv'
  BY <1>2 DEF NewClient
<1>3. ASSUME NEW p \in Procs, NewClientFfi(p)
      PROVE  LateInv'
  BY <1>3 DEF NewClientFfi
<1>4. ASSUME NEW p \in Procs, NewClientReturn(p)
      PROVE  LateInv'
  BY <1>4 DEF NewClientReturn
<1>5. ASSUME NEW p \in Procs, DirectCall(p)
      PROVE  LateInv'
  BY <1>5 DEF DirectCall, Begin, Published, RLock
<1>6. ASSUME NEW p \in Procs, NEW n \in 0..MaxNested, ModelCall(p, n)
      PROVE  LateInv'
  BY <1>6 DEF ModelCall, Begin, Published, RLock
<1>7. ASSUME NEW p \in Procs, AcquirePtr(p)
      PROVE  LateInv'
  BY <1>7 DEF AcquirePtr, RUnlock
<1>8. ASSUME NEW p \in Procs, NextNested(p)
      PROVE  LateInv'
  BY <1>8 DEF NextNested, RLock
<1>9. ASSUME NEW p \in Procs, Prepare(p)
      PROVE  LateInv'
  BY <1>9 DEF Prepare, RUnlock
<1>10. ASSUME NEW p \in Procs, FfiReturn(p)
      PROVE  LateInv'
  BY <1>10 DEF FfiReturn
<1>11. ASSUME NEW p \in Procs, ReadResult(p)
      PROVE  LateInv'
  BY <1>11 DEF ReadResult
<1>12. ASSUME NEW p \in Procs, Return(p)
      PROVE  LateInv'
  BY <1>12 DEF Return, RUnlock
<1>13. ASSUME NEW p \in Procs, Close(p)
      PROVE  LateInv'
  BY <1>13 DEF Close, Published
<1>14. ASSUME NEW p \in Procs, CloseAnnounce(p)
      PROVE  LateInv'
  BY <1>14 DEF CloseAnnounce, AnnounceWriter
<1>15. ASSUME NEW p \in Procs, CloseLocked(p)
      PROVE  LateInv'
  BY <1>15 DEF CloseLocked, WriterGranted
<1>16. ASSUME NEW p \in Procs, CloseHandle(p)
      PROVE  LateInv'
  BY <1>16 DEF CloseHandle, Unlock
<1>17. ASSUME NEW p \in Procs, CloseClear(p)
      PROVE  LateInv'
  BY <1>17 DEF CloseClear, Unlock
<1> HIDE DEF TypeOK, RWTypeOK, PCs, LateInv, LateCallRefused, PtrInv, NewInv, Inside, Goto, ReturnWith, vars, rwVars
<1> QED
  BY <1>1, <1>2, <1>3, <1>4, <1>5, <1>6, <1>7, <1>8, <1>9, <1>10, <1>11, <1>12, <1>13, <1>14, <1>15, <1>16, <1>17 DEF Next, Start, Step

-----------------------------------------------------------------------------
LEMMA InitIInv == Init => IInv
<1> SUFFICES ASSUME Init PROVE IInv
  OBVIOUS
<1> USE DEF Init, RWInit
<1>1. TypeOK
  BY MaxNestedAssumption DEF TypeOK, RWTypeOK, PCs
<1>2. LockInv /\ PtrInv /\ NewInv /\ MemInv
  BY NoProcAssumption DEF LockInv, PtrInv, NewInv, MemInv, Inside, Closing
<1>3. LateInv
  BY DEF LateInv, LateCallRefused
<1> QED
  BY <1>1, <1>2, <1>3 DEF IInv

LEMMA NextIInv == IInv /\ [Next]_vars => IInv'
  BY TypePreserved, LockPreserved, PtrPreserved, NewPreserved, MemPreserved,
     LatePreserved DEF IInv

(* The invariant the safety theorems rest on holds in every behaviour.     *)
THEOREM Invariance == Spec => []IInv
  BY InitIInv, NextIInv, PTL DEF Spec

(* Every variable keeps its type.                                          *)
THEOREM Typing == Spec => []TypeOK
<1>1. IInv => TypeOK
  BY DEF IInv
<1> QED
  BY <1>1, Invariance, PTL

(* No operation uses the native client after a Close has freed it.         *)
THEOREM UseSafety == Spec => []NoUseAfterFree
<1>1. IInv => NoUseAfterFree
  <2> SUFFICES ASSUME IInv, NEW p \in Procs, pc[p] \in {"locked", "ffi"}
               PROVE  handle = "live"
    BY DEF NoUseAfterFree
  <2>1. p \in readers /\ ptr = "set"
    BY DEF IInv, LockInv, PtrInv, Inside
  <2>2. \A q \in Procs : pc[q] # "clear"
    BY <2>1 DEF IInv, LockInv
  <2> QED
    BY <2>1, <2>2 DEF IInv, PtrInv
<1> QED
  BY <1>1, Invariance, PTL

(* The native client is freed at most once.                                *)
THEOREM FreeSafety == Spec => []FreedOnce
<1>1. IInv => FreedOnce
  BY DEF IInv, PtrInv, FreedOnce
<1> QED
  BY <1>1, Invariance, PTL

(* A goroutine that is outside a call holds no lock and no C memory.       *)
THEOREM NothingHeld == Spec => []IdleHoldsNothing
<1>1. IInv => IdleHoldsNothing
  <2> SUFFICES ASSUME IInv, NEW p \in Procs, pc[p] \in {"idle", "nested"}
               PROVE  /\ p \notin readers \cup waiting \cup opts \cup {writer}
                      /\ res[p] = "none"
    BY DEF IdleHoldsNothing
  <2>1. p \notin readers /\ p \notin waiting /\ p # writer
    BY DEF IInv, LockInv, Inside, Closing
  <2>2. p \notin opts /\ res[p] = "none"
    BY DEF IInv, MemInv
  <2> QED
    BY <2>1, <2>2
<1> QED
  BY <1>1, Invariance, PTL

(* A call that begins on a closed client never reaches the library.        *)
THEOREM LateSafety == Spec => []LateCallRefused
<1>1. IInv => LateCallRefused
  BY DEF IInv, LateInv
<1> QED
  BY <1>1, Invariance, PTL

(* Whoever queued behind a Close is let in on a closed client: only the    *)
(* Unlock of a Close admits the queue, and it does so with the pointer nil.*)
THEOREM Barrier == Spec => CloseIsBarrier
<1>1. ASSUME IInv, [Next]_vars, NEW p \in Procs, p \in waiting, p \in readers'
      PROVE  ptr' = "nil"
  <2>1. p \notin readers /\ pc[p] = "rlock"
    BY <1>1 DEF IInv, LockInv
  <2>2. PICK q \in Procs : (CloseHandle(q) /\ ptr = "nil") \/ CloseClear(q)
    <3> USE <1>1, <2>1 DEF Goto, ReturnWith
    <3>1. ASSUME NEW q \in Procs, Start(q)
          PROVE  FALSE
      BY <3>1 DEF Start, NewClient, DirectCall, ModelCall, Begin, RLock, Close, rwVars
    <3>2. ASSUME NEW q \in Procs, CloseAnnounce(q)
          PROVE  FALSE
      BY <3>2 DEF CloseAnnounce, AnnounceWriter
    <3>3. ASSUME NEW q \in Procs, Step(q),
                 ~(CloseHandle(q) /\ ptr = "nil"), ~CloseClear(q)
          PROVE  FALSE
      BY <3>3 DEF Step, NewClientFfi, NewClientReturn, AcquirePtr, NextNested,
                  Prepare, FfiReturn, ReadResult, Return, CloseLocked, CloseHandle,
                  RLock, RUnlock, rwVars
    <3>4. ~UNCHANGED vars
      BY DEF vars, rwVars
    <3> QED
      BY <3>1, <3>2, <3>3, <3>4 DEF Next
  <2> QED
    BY <2>2 DEF CloseHandle, CloseClear
<1>2. IInv /\ [Next]_vars =>
        [\A p \in Procs : (p \in waiting /\ p \in readers') => ptr' = "nil"]_vars
  BY <1>1
<1> QED
  BY <1>2, Invariance, PTL DEF Spec, CloseIsBarrier

-----------------------------------------------------------------------------
(* The refinement.  Seen from HandleSpec, every step of ClientHandle is    *)
(* the one abstract action named below, or leaves the abstract state alone.*)

Users == {p \in Procs : pc[p] = "ffi"}
Refused == {p \in Procs : ret[p] = "closed"}

LEMMA NoOpChanges ==
    ASSUME NEW p \in Procs, IInv,
           \/ NewClient(p) \/ NewClientReturn(p) \/ NextNested(p) \/ DirectCall(p)
           \/ \E n \in 0..MaxNested : ModelCall(p, n)
           \/ ReadResult(p) \/ Return(p) \/ Close(p) \/ CloseAnnounce(p)
           \/ CloseLocked(p) \/ CloseClear(p)
    PROVE  Handle!Retry(p) \/ UNCHANGED Handle!specVars
<1>1. /\ pc \in [Procs -> PCs] /\ ret \in [Procs -> {"none", "ok", "failed", "closed"}]
  BY DEF IInv, TypeOK
<1>2. /\ handle' = handle
      /\ pc[p] # "ffi" /\ pc'[p] # "ffi" /\ (ret'[p] # "closed" \/ ret' = ret)
      /\ \A q \in Procs \ {p} : pc'[q] = pc[q] /\ ret'[q] = ret[q]
  BY <1>1 DEF NewClient, NewClientReturn, NextNested, DirectCall, ModelCall, Begin,
     ReadResult, Return, Close, CloseAnnounce, CloseLocked, CloseClear, Goto,
     ReturnWith
<1>3. {q \in Procs : pc[q] = "ffi"}' = Users /\ (Refused' = Refused \ {p} \/ Refused' = Refused)
  BY <1>2 DEF Users, Refused
<1> QED
  BY <1>2, <1>3 DEF Handle!Retry, Handle!specVars, Users, Refused

(* ClientHandle implements HandleSpec for any set of goroutines: the       *)
(* handle is created once, used only while live, disposed of once and      *)
(* never under a user, and callers are refused only after that.            *)
THEOREM Implementation == Spec => HandleImplemented
<1>1. Init => Handle!Init
  BY DEF Init, Handle!Init
<1>2. ASSUME IInv, [Next]_vars
      PROVE  [Handle!Next]_(Handle!specVars)
  <2> USE <1>2
  <2>0. /\ pc \in [Procs -> PCs] /\ ret \in [Procs -> {"none", "ok", "failed", "closed"}]
    BY DEF IInv, TypeOK
  <2>1. CASE UNCHANGED vars
    BY <2>1 DEF vars, Handle!specVars
  <2>2. ASSUME NEW p \in Procs, NewClientFfi(p)
        PROVE  Handle!Create \/ UNCHANGED Handle!specVars
    <3>1. handle = "none"
      BY <2>2 DEF IInv, NewInv, NewClientFfi
    <3>2. UNCHANGED <<Users, Refused>>
      BY <2>0, <2>2 DEF NewClientFfi, Goto, Users, Refused
    <3> QED
      BY <2>2, <3>1, <3>2 DEF NewClientFfi, Handle!Create, Handle!specVars, Users, Refused
  <2>3. ASSUME NEW p \in Procs, AcquirePtr(p)
        PROVE  Handle!Refuse(p) \/ UNCHANGED Handle!specVars
    <3>1. Users' = Users /\ UNCHANGED handle
      BY <2>0, <2>3 DEF AcquirePtr, Goto, ReturnWith, Users
    <3>2. CASE ptr = "nil"
      <4>1. handle = "freed"
        BY <2>3, <3>2 DEF IInv, TypeOK, NewInv, PtrInv, AcquirePtr
      <4>2. Refused' = Refused \cup {p}
        BY <2>0, <2>3, <3>2 DEF AcquirePtr, ReturnWith, Refused
      <4> QED
        BY <3>1, <4>1, <4>2 DEF Handle!Refuse, Users, Refused
    <3>3. CASE ptr # "nil"
      BY <2>3, <3>1, <3>3 DEF AcquirePtr, Handle!specVars, Users, Refused
    <3> QED
      BY <3>2, <3>3
  <2>4. ASSUME NEW p \in Procs, Prepare(p)
        PROVE  Handle!Enter(p) \/ Handle!Retry(p)
    <3>1. CASE UNCHANGED ret
      <4>1. handle = "live"
        <5>1. p \in readers /\ ptr = "set"
          BY <2>4 DEF Prepare, IInv, LockInv, PtrInv, Inside
        <5>2. \A q \in Procs : pc[q] # "clear"
          BY <5>1 DEF IInv, LockInv
        <5> QED
          BY <5>1, <5>2 DEF IInv, PtrInv
      <4>2. pc'[p] = "ffi" => Users' = Users \cup {p}
        BY <2>0, <2>4 DEF Prepare, Goto, ReturnWith, Users
      <4>3. pc'[p] # "ffi" => Users' = Users /\ Refused' = Refused \ {p}
        BY <2>0, <2>4 DEF Prepare, Goto, ReturnWith, Users, Refused
      <4> QED
        BY <2>4, <3>1, <4>1, <4>2, <4>3
        DEF Prepare, Handle!Enter, Handle!Retry, Users, Refused
    <3>2. CASE ~UNCHANGED ret
      <4>1. UNCHANGED handle /\ Users' = Users /\ Refused' = Refused \ {p}
        BY <2>0, <2>4, <3>2 DEF Prepare, Goto, ReturnWith, Users, Refused
      <4> QED
        BY <4>1 DEF Handle!Retry, Users, Refused
    <3> QED
      BY <3>1, <3>2
  <2>5. ASSUME NEW p \in Procs, FfiReturn(p)
        PROVE  Handle!Leave(p)
    <3>1. Users' = Users \ {p} /\ UNCHANGED <<handle, ret>>
      BY <2>0, <2>5 DEF FfiReturn, Goto, Users
    <3> QED
      BY <3>1 DEF Handle!Leave, Users
  <2>6. ASSUME NEW p \in Procs, CloseHandle(p)
        PROVE  Handle!Dispose \/ Handle!Retry(p)
    <3>1. Users = {} /\ Users' = {}
      <4>1. \A q \in Procs : pc[q] # "ffi"
        BY <2>6 DEF CloseHandle, IInv, LockInv, Inside
      <4> QED
        BY <2>0, <2>6, <4>1 DEF CloseHandle, Goto, ReturnWith, Users
    <3>2. CASE ptr = "nil"
      BY <2>0, <2>6, <3>1, <3>2
      DEF CloseHandle, ReturnWith, Handle!Retry, Users, Refused
    <3>3. CASE ptr = "set"
      <4>1. \A q \in Procs : pc[q] # "clear"
        BY <2>6 DEF CloseHandle, IInv, LockInv, Closing
      <4>2. handle = "live"
        BY <3>3, <4>1 DEF IInv, PtrInv
      <4> QED
        BY <2>6, <3>1, <3>3, <4>2 DEF CloseHandle, Handle!Dispose, Users
    <3> QED
      BY <2>6, <3>2, <3>3 DEF CloseHandle
  <2> QED
    BY <2>1, <2>2, <2>3, <2>4, <2>5, <2>6, NoOpChanges
    DEF Next, Start, Step, Handle!Next
<1> QED
  BY <1>1, <1>2, Invariance, PTL DEF Spec, HandleImplemented, Handle!Spec
=============================================================================
