------------------------ MODULE ReentrantCallsProofs ------------------------
(***************************************************************************)
(* The safety of calls nested in a MarshalJSON, for any number of          *)
(* goroutines and any depth.  The inductive invariant says what the place  *)
(* of a goroutine's innermost call means to the lock, that all calls below *)
(* it hold the lock for reading, and that whoever got through acquirePtr   *)
(* keeps the client open.                                                  *)
(***************************************************************************)
EXTENDS ReentrantCalls, TLAPS

(* The calls around the innermost one are in json.Marshal, as readers.     *)
OuterInv ==
    \A p \in Goroutines : \A d \in 1..MaxDepth :
        /\ d < depth[p] => <<p, d>> \in readers
        /\ <<p, d>> \in readers => d <= depth[p]

(* What the place of the innermost call means to the lock.                 *)
TopInv ==
    \A p \in Goroutines :
        /\ at[p] \in {"marshal", "ffi"} => Top(p) \in readers
        /\ at[p] = "rlock" => Top(p) \in readers \cup waiting
        /\ at[p] \in {"wlock", "drain"} => Top(p) \notin readers
        /\ at[p] = "drain" => writer = Top(p)

(* Who waits or writes is an innermost call, and none waits for nobody.    *)
QueueInv ==
    /\ \A p \in Goroutines : \A d \in 1..MaxDepth :
          /\ <<p, d>> \in waiting =>
                d = depth[p] /\ at[p] = "rlock" /\ <<p, d>> \notin readers
          /\ writer = <<p, d>> => d = depth[p] /\ at[p] = "drain"
    /\ waiting # {} => writer # Nobody

OpenInv ==
    /\ freed = ~open
    /\ \A p \in Goroutines :
          depth[p] > 1 \/ at[p] \in {"marshal", "ffi"} => open

(* What the steps do, as far as the lock goes: the innermost call of p is  *)
(* entered, announces itself, comes one place further, or returns.         *)
Entering(p) ==
    /\ at[p] \in {"idle", "marshal"}
    /\ depth[p] + 1 \in 1..MaxDepth
    /\ depth' = [depth EXCEPT ![p] = depth[p] + 1]
    /\ UNCHANGED <<writer, open, freed>>
    /\ \/ /\ at' = [at EXCEPT ![p] = "wlock"]
          /\ UNCHANGED <<readers, waiting>>
       \/ /\ at' = [at EXCEPT ![p] = "rlock"]
          /\ writer = Nobody
          /\ readers' = readers \cup {<<p, depth[p] + 1>>}
          /\ UNCHANGED waiting
       \/ /\ at' = [at EXCEPT ![p] = "rlock"]
          /\ writer # Nobody
          /\ waiting' = waiting \cup {<<p, depth[p] + 1>>}
          /\ UNCHANGED readers

Announcing(p) ==
    /\ at[p] = "wlock" /\ depth[p] \in 1..MaxDepth
    /\ at' = [at EXCEPT ![p] = "drain"]
    /\ writer = Nobody /\ writer' = <<p, depth[p]>>
    /\ UNCHANGED <<readers, waiting, depth, open, freed>>

Advancing(p) ==
    /\ at[p] \in {"rlock", "marshal"} /\ depth[p] \in 1..MaxDepth
    /\ at' = [at EXCEPT ![p] = IF at[p] = "rlock" THEN "marshal" ELSE "ffi"]
    /\ open /\ <<p, depth[p]>> \in readers
    /\ UNCHANGED <<readers, waiting, writer, depth, open, freed>>

Returning(p) ==
    /\ at[p] \in {"rlock", "marshal", "ffi"} /\ depth[p] \in 1..MaxDepth
    /\ <<p, depth[p]>> \in readers
    /\ readers' = readers \ {<<p, depth[p]>>}
    /\ depth' = [depth EXCEPT ![p] = depth[p] - 1]
    /\ at' = [at EXCEPT ![p] = IF depth[p] = 1 THEN "idle" ELSE "marshal"]
    /\ depth[p] > 1 => <<p, depth[p] - 1>> \in readers'
    /\ UNCHANGED <<waiting, writer, open, freed>>

IInv ==
    /\ TypeOK
    /\ OuterInv
    /\ TopInv
    /\ QueueInv
    /\ OpenInv

-----------------------------------------------------------------------------
(* The innermost call of a goroutine that is in one is a call.             *)
LEMMA TopIsCall ==
    ASSUME TypeOK, NEW p \in Goroutines, at[p] # "idle"
    PROVE  /\ depth[p] \in 1..MaxDepth
           /\ Top(p) \in Calls /\ Top(p) = <<p, depth[p]>>
           /\ Top(p) # Nobody
<1>1. depth[p] \in 1..MaxDepth
  BY DepthAssumption DEF TypeOK
<1> QED
  BY <1>1, NobodyAssumption DEF Top, Calls

(* Entering a call.                                                        *)
LEMMA Entered ==
    ASSUME TypeOK, NEW p \in Goroutines, NEW place \in {"rlock", "wlock"}, Enter(p, place)
    PROVE  /\ depth[p] + 1 \in 1..MaxDepth
           /\ depth' = [depth EXCEPT ![p] = depth[p] + 1]
           /\ at' = [at EXCEPT ![p] = place]
           /\ at[p] \in {"idle", "marshal"}
           /\ at[p] = "idle" => depth[p] = 0
           /\ <<p, depth[p] + 1>> \in Calls
BY DepthAssumption DEF TypeOK, Enter, Goto, Calls

(* Leaving one.                                                            *)
LEMMA Left ==
    ASSUME TypeOK, NEW p \in Goroutines, at[p] # "idle", Leave(p)
    PROVE  /\ depth[p] \in 1..MaxDepth
           /\ depth' = [depth EXCEPT ![p] = depth[p] - 1]
           /\ depth[p] - 1 \in 0..MaxDepth
           /\ at' = [at EXCEPT ![p] = IF depth[p] = 1 THEN "idle" ELSE "marshal"]
BY DepthAssumption DEF TypeOK, Leave, Goto

LEMMA TypePreserved ==
    ASSUME TypeOK, [Next]_vars
    PROVE  TypeOK'
<1> USE DEF Lock!RWTypeOK
<1>1. CASE UNCHANGED vars
  BY <1>1 DEF TypeOK, vars, lockVars
<1>2. ASSUME NEW p \in Goroutines, Operation(p)
      PROVE  TypeOK'
  <2>1. /\ depth[p] + 1 \in 1..MaxDepth /\ <<p, depth[p] + 1>> \in Calls
        /\ depth' = [depth EXCEPT ![p] = depth[p] + 1]
        /\ at' = [at EXCEPT ![p] = "rlock"]
    BY <1>2, Entered DEF Operation
  <2> QED
    BY <1>2, <2>1 DEF TypeOK, Operation, Lock!RLock
<1>3. ASSUME NEW p \in Goroutines, Close(p)
      PROVE  TypeOK'
  <2>1. /\ depth[p] + 1 \in 1..MaxDepth /\ <<p, depth[p] + 1>> \in Calls
        /\ depth' = [depth EXCEPT ![p] = depth[p] + 1]
        /\ at' = [at EXCEPT ![p] = "wlock"]
    BY <1>3, Entered DEF Close
  <2> QED
    BY <1>3, <2>1 DEF TypeOK, Close, lockVars
<1>4. ASSUME NEW p \in Goroutines, CloseAnnounce(p)
      PROVE  TypeOK'
  BY <1>4, TopIsCall DEF TypeOK, CloseAnnounce, Lock!AnnounceWriter, Goto
<1>5. ASSUME NEW p \in Goroutines, AcquirePtr(p)
      PROVE  TypeOK'
  <2>1. CASE open
    BY <1>5, <2>1, TopIsCall DEF TypeOK, AcquirePtr, Goto, lockVars
  <2>2. CASE ~open
    <3>1. Leave(p) /\ at[p] # "idle"
      BY <1>5, <2>2 DEF AcquirePtr
    <3> QED
      BY <1>5, <2>2, <3>1, Left DEF TypeOK, AcquirePtr, Lock!RUnlock
  <2> QED
    BY <2>1, <2>2
<1>6. ASSUME NEW p \in Goroutines, Marshal(p)
      PROVE  TypeOK'
  <2>1. CASE Goto(p, "ffi") /\ UNCHANGED <<lockVars, depth>>
    BY <1>6, <2>1, TopIsCall DEF TypeOK, Marshal, Goto, lockVars
  <2>2. CASE Return(p)
    <3>1. Leave(p) /\ at[p] # "idle"
      BY <1>6, <2>2 DEF Marshal, Return
    <3> QED
      BY <1>6, <2>2, <3>1, Left DEF TypeOK, Marshal, Return, Lock!RUnlock
  <2> QED
    BY <1>6, <2>1, <2>2 DEF Marshal
<1>7. ASSUME NEW p \in Goroutines, Native(p)
      PROVE  TypeOK'
  <2>1. Leave(p) /\ at[p] # "idle"
    BY <1>7 DEF Native, Return
  <2> QED
    BY <1>7, <2>1, Left DEF TypeOK, Native, Return, Lock!RUnlock
<1>8. ASSUME NEW p \in Goroutines, CloseLocked(p)
      PROVE  TypeOK'
  <2>1. Leave(p) /\ at[p] # "idle"
    BY <1>8 DEF CloseLocked
  <2>2. /\ depth[p] \in 1..MaxDepth /\ depth[p] - 1 \in 0..MaxDepth
        /\ depth' = [depth EXCEPT ![p] = depth[p] - 1]
        /\ at' = [at EXCEPT ![p] = IF depth[p] = 1 THEN "idle" ELSE "marshal"]
    BY <2>1, Left
  <2>3. open' \in BOOLEAN /\ freed' \in BOOLEAN
    BY <1>8 DEF TypeOK, CloseLocked
  <2>4. Lock!RWTypeOK'
    BY <1>8 DEF TypeOK, CloseLocked, Lock!Unlock
  <2>5. /\ depth' \in [Goroutines -> 0..MaxDepth]
        /\ at' \in [Goroutines -> {"idle", "rlock", "marshal", "ffi", "wlock", "drain"}]
        /\ \A q \in Goroutines : at'[q] = "idle" <=> depth'[q] = 0
    BY <2>2 DEF TypeOK
  <2> QED
    BY <2>3, <2>4, <2>5, Zenon DEF TypeOK
<1> QED
  BY <1>1, <1>2, <1>3, <1>4, <1>5, <1>6, <1>7, <1>8 DEF Next, Step

(* The deferred unlock.                                                    *)
LEMMA Returned ==
    ASSUME TypeOK, OuterInv, NEW p \in Goroutines, at[p] # "idle",
           Lock!RUnlock(Top(p)), Leave(p)
    PROVE  /\ depth[p] \in 1..MaxDepth
           /\ depth' = [depth EXCEPT ![p] = depth[p] - 1]
           /\ at' = [at EXCEPT ![p] = IF depth[p] = 1 THEN "idle" ELSE "marshal"]
           /\ readers' = readers \ {<<p, depth[p]>>}
           /\ UNCHANGED <<waiting, writer>>
           /\ depth[p] > 1 => <<p, depth[p] - 1>> \in readers'
<1>1. /\ depth[p] \in 1..MaxDepth
      /\ depth' = [depth EXCEPT ![p] = depth[p] - 1]
      /\ at' = [at EXCEPT ![p] = IF depth[p] = 1 THEN "idle" ELSE "marshal"]
  BY Left
<1>2. readers' = readers \ {<<p, depth[p]>>} /\ UNCHANGED <<waiting, writer>>
  BY DEF Lock!RUnlock, Top
<1>3. depth[p] > 1 => <<p, depth[p] - 1>> \in readers'
  BY <1>1, <1>2, DepthAssumption DEF OuterInv
<1> QED
  BY <1>1, <1>2, <1>3

(* When a Close gets the lock nobody else is inside, so it is the only     *)
(* call of its goroutine.                                                  *)
LEMMA CloseAlone ==
    ASSUME IInv, NEW p \in Goroutines, CloseLocked(p)
    PROVE  /\ readers = {} /\ depth[p] = 1 /\ at[p] = "drain"
           /\ depth' = [depth EXCEPT ![p] = 0]
           /\ at' = [at EXCEPT ![p] = "idle"]
           /\ readers' = waiting /\ waiting' = {} /\ writer' = Nobody
           /\ \A q \in Goroutines : depth[q] <= 1 /\ at[q] \notin {"marshal", "ffi"}
<1>1. readers = {} /\ at[p] = "drain" /\ Leave(p)
      /\ readers' = waiting /\ waiting' = {} /\ writer' = Nobody
  BY DEF CloseLocked, Lock!WriterGranted, Lock!Unlock
<1>2. \A q \in Goroutines : depth[q] <= 1
  <2>1. ASSUME NEW q \in Goroutines
        PROVE  depth[q] <= 1
    <3>1. depth[q] \in 0..MaxDepth /\ 1 \in 1..MaxDepth
      BY DepthAssumption DEF IInv, TypeOK
    <3>2. ~(1 < depth[q])
      BY <1>1, <3>1 DEF IInv, OuterInv
    <3> QED
      BY <3>1, <3>2, DepthAssumption
  <2> QED
    BY <2>1
<1>3. \A q \in Goroutines : at[q] \notin {"marshal", "ffi"}
  BY <1>1 DEF IInv, TopInv
<1>4. /\ depth[p] \in 1..MaxDepth
      /\ depth' = [depth EXCEPT ![p] = depth[p] - 1]
      /\ at' = [at EXCEPT ![p] = IF depth[p] = 1 THEN "idle" ELSE "marshal"]
  BY <1>1, Left DEF IInv
<1>5. depth[p] = 1
  BY <1>2, <1>4, DepthAssumption
<1> QED
  BY <1>1, <1>2, <1>3, <1>4, <1>5

(* What each step does to the lock, the calls and the pointer.             *)
LEMMA Effects ==
    ASSUME IInv, [Next]_vars
    PROVE  \/ UNCHANGED vars
           \/ \E p \in Goroutines :
                 \/ Entering(p) \/ Announcing(p) \/ Advancing(p) \/ Returning(p)
                 \/ CloseLocked(p)
<1>1. ASSUME NEW p \in Goroutines, Operation(p)
      PROVE  Entering(p)
  BY <1>1, Entered DEF IInv, Operation, Lock!RLock, Entering
<1>2. ASSUME NEW p \in Goroutines, Close(p)
      PROVE  Entering(p)
  BY <1>2, Entered DEF IInv, Close, lockVars, Entering
<1>3. ASSUME NEW p \in Goroutines, CloseAnnounce(p)
      PROVE  Announcing(p)
  BY <1>3, TopIsCall DEF IInv, CloseAnnounce, Goto, Lock!AnnounceWriter, Announcing
<1>4. ASSUME NEW p \in Goroutines, AcquirePtr(p)
      PROVE  Advancing(p) \/ Returning(p)
  BY <1>4, Returned, TopIsCall DEF IInv, AcquirePtr, Goto, lockVars, Advancing, Returning
<1>5. ASSUME NEW p \in Goroutines, Marshal(p)
      PROVE  Advancing(p) \/ Returning(p)
  BY <1>5, Returned, TopIsCall DEF IInv, TopInv, OpenInv, Marshal, Return, Goto, lockVars,
     Advancing, Returning
<1>6. ASSUME NEW p \in Goroutines, Native(p)
      PROVE  Returning(p)
  BY <1>6, Returned, TopIsCall DEF IInv, TopInv, Native, Return, Returning
<1> QED
  BY <1>1, <1>2, <1>3, <1>4, <1>5, <1>6 DEF Next, Step

(* The calls below the innermost ones are readers, and no others are.      *)
LEMMA OuterPreserved ==
    ASSUME IInv, [Next]_vars
    PROVE  OuterInv'
<1> USE DepthAssumption, NobodyAssumption DEF IInv, TypeOK, Lock!RWTypeOK, Calls
<1>1. CASE UNCHANGED vars
  BY <1>1 DEF OuterInv, vars, lockVars
<1>2. ASSUME NEW p \in Goroutines, Entering(p)
      PROVE  OuterInv'
  <2>1. \A q \in Goroutines : depth[q] \in 0..MaxDepth /\ depth'[q] = (IF q = p THEN depth[p] + 1 ELSE depth[q])
    BY <1>2 DEF Entering
  <2>2. readers \subseteq readers' /\ readers' \subseteq readers \cup {<<p, depth[p] + 1>>}
    BY <1>2 DEF Entering
  <2>3. depth[p] \in 1..MaxDepth => <<p, depth[p]>> \in readers
    BY <1>2 DEF Entering, TopInv, Top
  <2>4. ASSUME NEW q \in Goroutines, NEW d \in 1..MaxDepth
        PROVE  /\ d < depth'[q] => <<q, d>> \in readers'
               /\ <<q, d>> \in readers' => d <= depth'[q]
    <3>1. CASE q = p
      BY <2>1, <2>2, <2>3, <3>1 DEF OuterInv
    <3>2. CASE q # p
      BY <2>1, <2>2, <3>2 DEF OuterInv
    <3> QED
      BY <3>1, <3>2
  <2> QED
    BY <2>4 DEF OuterInv
<1>3. ASSUME NEW p \in Goroutines, Announcing(p)
      PROVE  OuterInv'
  BY <1>3 DEF OuterInv, TopInv, QueueInv, OpenInv, Announcing, Top
<1>4. ASSUME NEW p \in Goroutines, Advancing(p)
      PROVE  OuterInv'
  BY <1>4 DEF OuterInv, TopInv, QueueInv, OpenInv, Advancing, Top
<1>5. ASSUME NEW p \in Goroutines, Returning(p)
      PROVE  OuterInv'
  <2>1. \A q \in Goroutines : depth[q] \in 0..MaxDepth /\ depth'[q] = (IF q = p THEN depth[p] - 1 ELSE depth[q])
    BY <1>5 DEF Returning
  <2>2. readers' = readers \ {<<p, depth[p]>>}
    BY <1>5 DEF Returning
  <2>4. ASSUME NEW q \in Goroutines, NEW d \in 1..MaxDepth
        PROVE  /\ d < depth'[q] => <<q, d>> \in readers'
               /\ <<q, d>> \in readers' => d <= depth'[q]
    <3>1. CASE q = p
      BY <2>1, <2>2, <3>1 DEF OuterInv
    <3>2. CASE q # p
      BY <2>1, <2>2, <3>2 DEF OuterInv
    <3> QED
      BY <3>1, <3>2
  <2> QED
    BY <2>4 DEF OuterInv
<1>6. ASSUME NEW p \in Goroutines, CloseLocked(p)
      PROVE  OuterInv'
  <2>1. /\ depth[p] = 1 /\ at[p] = "drain" /\ depth' = [depth EXCEPT ![p] = 0]
        /\ readers' = waiting /\ \A q \in Goroutines : depth[q] <= 1
    <3> HIDE DEF IInv
    <3> QED
      BY <1>6, CloseAlone
  <2>2. \A q \in Goroutines : depth[q] \in 0..MaxDepth /\ depth'[q] = (IF q = p THEN 0 ELSE depth[q])
    BY <2>1
  <2>3. ASSUME NEW q \in Goroutines, NEW d \in 1..MaxDepth
        PROVE  ~(d < depth'[q])
    BY <2>1, <2>2
  <2>4. ASSUME NEW q \in Goroutines, NEW d \in 1..MaxDepth, <<q, d>> \in readers'
        PROVE  d <= depth'[q]
    BY <2>1, <2>2, <2>4 DEF QueueInv
  <2> QED
    BY <2>3, <2>4 DEF OuterInv
<1> HIDE DEF IInv, TypeOK, Lock!RWTypeOK, Calls
<1> QED
  BY <1>1, <1>2, <1>3, <1>4, <1>5, <1>6, Effects

(* The lock knows where the innermost calls are.                           *)
LEMMA TopPreserved ==
    ASSUME IInv, [Next]_vars
    PROVE  TopInv'
<1> USE DepthAssumption, NobodyAssumption DEF IInv, TypeOK, Lock!RWTypeOK, Calls
<1>1. CASE UNCHANGED vars
  BY <1>1 DEF TopInv, vars, lockVars, Top
<1>2. ASSUME NEW p \in Goroutines, Entering(p)
      PROVE  TopInv'
  BY <1>2 DEF OuterInv, TopInv, QueueInv, OpenInv, Entering, Top
<1>3. ASSUME NEW p \in Goroutines, Announcing(p)
      PROVE  TopInv'
  BY <1>3 DEF OuterInv, TopInv, QueueInv, OpenInv, Announcing, Top
<1>4. ASSUME NEW p \in Goroutines, Advancing(p)
      PROVE  TopInv'
  BY <1>4 DEF OuterInv, TopInv, QueueInv, OpenInv, Advancing, Top
<1>5. ASSUME NEW p \in Goroutines, Returning(p)
      PROVE  TopInv'
  BY <1>5 DEF OuterInv, TopInv, QueueInv, OpenInv, Returning, Top
<1>6. ASSUME NEW p \in Goroutines, CloseLocked(p)
      PROVE  TopInv'
  <2>1. /\ depth[p] = 1 /\ at[p] = "drain" /\ depth' = [depth EXCEPT ![p] = 0]
        /\ at' = [at EXCEPT ![p] = "idle"] /\ readers = {} /\ readers' = waiting
        /\ \A q \in Goroutines : at[q] \notin {"marshal", "ffi"}
    <3> HIDE DEF IInv
    <3> QED
      BY <1>6, CloseAlone
  <2>2. writer = <<p, 1>>
    BY <2>1 DEF TopInv, Top
  <2>3. ASSUME NEW q \in Goroutines, q # p
        PROVE  /\ at'[q] = at[q] /\ depth'[q] = depth[q]
               /\ at[q] # "drain"
               /\ at[q] = "rlock" => <<q, depth[q]>> \in waiting
               /\ at[q] = "wlock" => <<q, depth[q]>> \notin waiting
    BY <2>1, <2>2, <2>3 DEF TopInv, QueueInv, Top
  <2>4. at'[p] = "idle"
    BY <2>1
  <2> QED
    BY <2>1, <2>3, <2>4 DEF TopInv, Top
<1> HIDE DEF IInv, TypeOK, Lock!RWTypeOK, Calls
<1> QED
  BY <1>1, <1>2, <1>3, <1>4, <1>5, <1>6, Effects

(* The queue holds innermost calls.                                        *)
LEMMA QueuePreserved ==
    ASSUME IInv, [Next]_vars
    PROVE  QueueInv'
<1> USE DepthAssumption, NobodyAssumption DEF IInv, TypeOK, Lock!RWTypeOK, Calls
<1>1. CASE UNCHANGED vars
  BY <1>1 DEF QueueInv, vars, lockVars
<1>2. ASSUME NEW p \in Goroutines, Entering(p)
      PROVE  QueueInv'
  BY <1>2 DEF OuterInv, TopInv, QueueInv, OpenInv, Entering, Top
<1>3. ASSUME NEW p \in Goroutines, Announcing(p)
      PROVE  QueueInv'
  BY <1>3 DEF OuterInv, TopInv, QueueInv, OpenInv, Announcing, Top
<1>4. ASSUME NEW p \in Goroutines, Advancing(p)
      PROVE  QueueInv'
  BY <1>4 DEF OuterInv, TopInv, QueueInv, OpenInv, Advancing, Top
<1>5. ASSUME NEW p \in Goroutines, Returning(p)
      PROVE  QueueInv'
  BY <1>5 DEF OuterInv, TopInv, QueueInv, OpenInv, Returning, Top
<1>6. ASSUME NEW p \in Goroutines, CloseLocked(p)
      PROVE  QueueInv'
  BY <1>6, CloseAlone DEF OuterInv, TopInv, QueueInv, OpenInv, Top
<1> HIDE DEF IInv, TypeOK, Lock!RWTypeOK, Calls
<1> QED
  BY <1>1, <1>2, <1>3, <1>4, <1>5, <1>6, Effects

(* The client is open under whoever got through acquirePtr.                *)
LEMMA OpenPreserved ==
    ASSUME IInv, [Next]_vars
    PROVE  OpenInv'
<1> USE DepthAssumption, NobodyAssumption DEF IInv, TypeOK, Lock!RWTypeOK, Calls
<1>1. CASE UNCHANGED vars
  BY <1>1 DEF OpenInv, vars, lockVars
<1>2. ASSUME NEW p \in Goroutines, Entering(p)
      PROVE  OpenInv'
  BY <1>2 DEF OuterInv, TopInv, QueueInv, OpenInv, Entering, Top
<1>3. ASSUME NEW p \in Goroutines, Announcing(p)
      PROVE  OpenInv'
  BY <1>3 DEF OuterInv, TopInv, QueueInv, OpenInv, Announcing, Top
<1>4. ASSUME NEW p \in Goroutines, Advancing(p)
      PROVE  OpenInv'
  BY <1>4 DEF OuterInv, TopInv, QueueInv, OpenInv, Advancing, Top
<1>5. ASSUME NEW p \in Goroutines, Returning(p)
      PROVE  OpenInv'
  BY <1>5 DEF OuterInv, TopInv, QueueInv, OpenInv, Returning, Top
<1>6. ASSUME NEW p \in Goroutines, CloseLocked(p)
      PROVE  OpenInv'
  <2>1. /\ depth[p] = 1 /\ depth' = [depth EXCEPT ![p] = 0]
        /\ at' = [at EXCEPT ![p] = "idle"]
        /\ \A q \in Goroutines : depth[q] <= 1 /\ at[q] \notin {"marshal", "ffi"}
    <3> HIDE DEF IInv
    <3> QED
      BY <1>6, CloseAlone
  <2>2. open' = FALSE /\ freed' = (freed \/ open)
    BY <1>6 DEF CloseLocked
  <2>3. freed' = ~open'
    BY <2>2, Zenon DEF OpenInv
  <2>4. ASSUME NEW q \in Goroutines
        PROVE  ~(depth'[q] > 1) /\ at'[q] \notin {"marshal", "ffi"}
    BY <2>1
  <2> QED
    BY <2>3, <2>4 DEF OpenInv
<1> HIDE DEF IInv, TypeOK, Lock!RWTypeOK, Calls
<1> QED
  BY <1>1, <1>2, <1>3, <1>4, <1>5, <1>6, Effects

LEMMA InitIInv ==
    ASSUME Init
    PROVE  IInv
<1>1. TypeOK
  <2>1. Lock!RWTypeOK
    BY DEF Init, Lock!RWInit, Lock!RWTypeOK
  <2>2. open \in BOOLEAN /\ freed \in BOOLEAN
    BY DEF Init
  <2>3. /\ depth \in [Goroutines -> 0..MaxDepth]
        /\ at \in [Goroutines -> {"idle", "rlock", "marshal", "ffi", "wlock", "drain"}]
        /\ \A p \in Goroutines : at[p] = "idle" <=> depth[p] = 0
    BY DepthAssumption DEF Init
  <2> QED
    BY <2>1, <2>2, <2>3, Zenon DEF TypeOK
<1>2. OuterInv /\ TopInv
  BY DepthAssumption DEF Init, OuterInv, TopInv, Lock!RWInit, Top
<1>4. OpenInv
  BY DEF Init, OpenInv
<1>3. QueueInv
  BY NobodyAssumption DEF Init, QueueInv, Lock!RWInit
<1> QED
  BY <1>1, <1>2, <1>3, <1>4 DEF IInv

LEMMA IInvPreserved ==
    ASSUME IInv, [Next]_vars
    PROVE  IInv'
<1>1. TypeOK'
  BY TypePreserved DEF IInv
<1> QED
  BY <1>1, OuterPreserved, TopPreserved, QueuePreserved, OpenPreserved DEF IInv

LEMMA CoveredByIInv ==
    ASSUME IInv
    PROVE  OuterCallsCovered
<1> SUFFICES ASSUME NEW p \in Goroutines, NEW d \in 1..depth[p],
                    d < depth[p] \/ at[p] \in {"marshal", "ffi"}
             PROVE  <<p, d>> \in readers /\ open /\ ~freed
  BY DEF IInv, OuterCallsCovered
<1>1. depth[p] \in 0..MaxDepth /\ d \in 1..MaxDepth
  BY DepthAssumption DEF IInv, TypeOK
<1>2. CASE d < depth[p]
  <2>1. <<p, d>> \in readers
    BY <1>1, <1>2 DEF IInv, OuterInv
  <2>2. depth[p] > 1
    BY <1>1, <1>2, DepthAssumption
  <2> QED
    BY <2>1, <2>2 DEF IInv, OpenInv
<1>3. CASE d = depth[p] /\ at[p] \in {"marshal", "ffi"}
  BY <1>3 DEF IInv, TopInv, OpenInv, Top
<1> QED
  BY <1>1, <1>2, <1>3, DepthAssumption

(* A nested call that waits still waits after any step: its own goroutine  *)
(* can at most announce a Close, and no Close gets the lock, because the   *)
(* call around it is inside.                                               *)
LEMMA StillBlocked ==
    ASSUME IInv, [Next]_vars, NEW p \in Goroutines, SelfBlocked(p)
    PROVE  SelfBlocked(p)'
<1>1. /\ depth[p] \in 1..MaxDepth /\ depth[p] > 1
      /\ at[p] = "rlock" => <<p, depth[p]>> \in waiting /\ <<p, depth[p]>> \notin readers
      /\ at[p] \in {"rlock", "wlock", "drain"}
  BY TopIsCall DEF IInv, SelfBlocked, Top, QueueInv
<1>2. CASE UNCHANGED vars
  BY <1>2 DEF SelfBlocked, Top, vars, lockVars
<1>3. ASSUME NEW q \in Goroutines, Entering(q)
      PROVE  SelfBlocked(p)'
  <2>1. q # p
    BY <1>1, <1>3 DEF Entering
  <2>2. depth'[p] = depth[p] /\ at'[p] = at[p] /\ waiting \subseteq waiting'
    BY <1>3, <2>1 DEF Entering, IInv, TypeOK
  <2> QED
    BY <1>1, <2>2 DEF SelfBlocked, Top
<1>4. ASSUME NEW q \in Goroutines, Announcing(q)
      PROVE  SelfBlocked(p)'
  <2>1. at'[p] = IF p = q THEN "drain" ELSE at[p]
    BY <1>4 DEF Announcing, IInv, TypeOK
  <2> QED
    BY <1>1, <1>4, <2>1 DEF Announcing, SelfBlocked, Top
<1>5. ASSUME NEW q \in Goroutines, Advancing(q) \/ Returning(q)
      PROVE  SelfBlocked(p)'
  <2>1. q # p
    BY <1>1, <1>5 DEF Advancing, Returning
  <2>2. depth'[p] = depth[p] /\ at'[p] = at[p] /\ waiting' = waiting
    BY <1>5, <2>1 DEF Advancing, Returning, IInv, TypeOK
  <2> QED
    BY <1>1, <2>2 DEF SelfBlocked, Top
<1>6. ASSUME NEW q \in Goroutines, CloseLocked(q)
      PROVE  FALSE
  <2>1. depth[p] <= 1
    BY <1>6, CloseAlone
  <2> QED
    BY <1>1, <2>1, DepthAssumption
<1> QED
  BY <1>2, <1>3, <1>4, <1>5, <1>6, Effects

-----------------------------------------------------------------------------
(* The inductive invariant holds throughout.                               *)
THEOREM Invariance == Spec => []IInv
<1>1. Init => IInv
  BY InitIInv
<1>2. IInv /\ [Next]_vars => IInv'
  BY IInvPreserved
<1> QED
  BY <1>1, <1>2, PTL DEF Spec

(* However deep calls from a MarshalJSON nest, every call that got through *)
(* acquirePtr holds the read lock over an open client until it returns     *)
(* (protect.go, acquirePtr and Close).                                     *)
THEOREM OuterCallsStayCovered == Spec => []OuterCallsCovered
<1>1. IInv => OuterCallsCovered
  BY CoveredByIInv
<1> QED
  BY <1>1, Invariance, PTL

(* A call from a MarshalJSON that waits for the lock of the call around it *)
(* never gets it: whatever anybody does next, it waits.                    *)
THEOREM NestedWaitsForever == Spec => NestedWaitIsForever
<1>1. IInv /\ [Next]_vars =>
          [\A p \in Goroutines : SelfBlocked(p) => SelfBlocked(p)']_vars
  <2> SUFFICES ASSUME IInv, [Next]_vars, NEW p \in Goroutines, SelfBlocked(p)
               PROVE  SelfBlocked(p)'
    OBVIOUS
  <2> QED
    BY StillBlocked
<1> QED
  BY <1>1, Invariance, PTL DEF Spec, NestedWaitIsForever
=============================================================================
