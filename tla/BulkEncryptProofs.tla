------------------------- MODULE BulkEncryptProofs -------------------------
(***************************************************************************)
(* The safety of BulkEncrypt for requests of any length over any number of *)
(* lock contexts, and its refinement of BulkSpec.  The inductive invariant *)
(* says what grouping has put where (every index in the group of its own   *)
(* promised context, in rising order, none forgotten), how far the loop    *)
(* over the groups is (everything in a group already left can be           *)
(* encrypted, and its context precedes the pending ones), and that the     *)
(* filled slots and the recorded calls agree with both.                    *)
(***************************************************************************)
EXTENDS BulkEncrypt, TLAPS

Looping == {"pick", "prepare", "encrypt", "place", "unwrap"}
Promised(i) == Bulk!PromisedCtx(i)

GroupsInv ==
    /\ \A c \in Ctx : \A k \in 1..Len(groups[c]) :
          /\ Promised(groups[c][k]) = c
          /\ phase = "group" => groups[c][k] < next
    /\ \A c \in Ctx : \A j, k \in 1..Len(groups[c]) :
          j < k => groups[c][j] < groups[c][k]
    /\ phase \in Looping \cup {"group"} =>
          \A i \in 1..N : (phase = "group" => i < next) =>
              \E k \in 1..Len(groups[Promised(i)]) : groups[Promised(i)][k] = i

AllGood(c) == \A k \in 1..Len(groups[c]) : items[groups[c][k]].kind = "good"

LoopInv ==
    /\ phase \in {"pick", "unwrap"} => \A c \in Ctx \ pending : AllGood(c)
    /\ phase \in {"prepare", "encrypt", "place"} =>
          /\ \A c \in pending : cur < c
          /\ \A c \in Ctx \ pending : c # cur => AllGood(c)
    /\ phase = "prepare" =>
          \A k \in 1..Len(groups[cur]) : k < next => items[groups[cur][k]].kind = "good"
    /\ phase \in {"encrypt", "place"} => AllGood(cur)
    /\ phase = "place" => reply <= Len(groups[cur])

SlotInv ==
    \A i \in 1..N : results[i] # NoResult =>
        /\ results[i] = [item |-> i, ctx |-> Promised(i)]
        /\ items[i].kind = "good"

KmsInv ==
    /\ BatchesUniform
    /\ EncryptedAtMostOnce
    /\ phase = "group" => kms = << >>
    /\ phase \in Looping =>
          \A b \in 1..Len(kms) :
              /\ \A c \in pending : kms[b].ctx < c
              /\ phase \in {"prepare", "encrypt"} => kms[b].ctx < cur

OutcomeInv == phase = "done" <=> outcome # "none"

IInv ==
    /\ TypeOK
    /\ GroupsInv
    /\ LoopInv
    /\ SlotInv
    /\ KmsInv
    /\ OutcomeInv

-----------------------------------------------------------------------------
(* The key of a payload's group is the context BulkSpec promises.          *)
LEMMA KeyIsPromise ==
    ASSUME TypeOK, NEW i \in 1..N
    PROVE  GroupKey(PayloadCtx(i)) = Promised(i) /\ Promised(i) \in Ctx
<1>1. items[i].ctx \in Ctx \cup {NoCtx} /\ callCtx \in Ctx \cup {NoCtx}
  <2>1. items[i] \in Item
    BY DEF TypeOK, N
  <2> QED
    BY <2>1 DEF TypeOK, Item
<1>2. NoCtx \notin Ctx /\ 0 \in Ctx
  BY BulkAssumption DEF Ctx
<1> QED
  BY <1>1, <1>2 DEF GroupKey, PayloadCtx, Promised, Bulk!PromisedCtx

(* The request is fixed, and with it what is promised.                     *)
LEMMA RequestFixed ==
    ASSUME [Next]_vars
    PROVE  /\ items' = items /\ callCtx' = callCtx
           /\ \A i : Promised(i)' = Promised(i)
<1>1. items' = items /\ callCtx' = callCtx
  BY DEF Next, vars, request, Reject, PushPayload, Grouped, PickGroup, NoGroupLeft,
         PreparePayload, GroupPrepared, EncryptGroup, PlaceGroup, Unwrap
<1> QED
  BY <1>1 DEF Promised, Bulk!PromisedCtx

(* The payload PreparePayload looks at is an item of the request.          *)
LEMMA PayloadIsItem ==
    ASSUME TypeOK, PreparePayload
    PROVE  /\ groups[cur][next] \in 1..N
           /\ items[groups[cur][next]].kind \in {"good", "unknownColumn", "badInput"}
<1>1. groups[cur][next] \in 1..N
  <2>1. groups[cur] \in Seq(1..N) /\ next \in Nat \ {0} /\ next <= Len(groups[cur])
        /\ N \in Nat
    BY DEF TypeOK, PreparePayload, N
  <2> QED
    BY <2>1
<1>2. items[groups[cur][next]] \in Item
  BY <1>1 DEF TypeOK, N
<1> QED
  BY <1>1, <1>2 DEF Item

(* Every step keeps every variable in its type.                            *)
LEMMA TypePreserved ==
    ASSUME TypeOK, LoopInv, [Next]_vars
    PROVE  TypeOK'
<1>0. /\ items' = items /\ callCtx' = callCtx
      /\ \A i : Promised(i)' = Promised(i)
  BY RequestFixed
<1> USE BulkAssumption, <1>0 DEF TypeOK, Ctx, Ciphertext, NoResult, vars, request, End, N
<1>1. CASE UNCHANGED vars
  BY <1>1
<1>2. CASE Reject
  BY <1>2 DEF Reject
<1>3. CASE PushPayload
  <2>1. next \in 1..N /\ GroupKey(PayloadCtx(next)) \in Ctx
    BY <1>3, KeyIsPromise DEF PushPayload
  <2>2. Append(groups[GroupKey(PayloadCtx(next))], next) \in Seq(1..N)
    BY <2>1
  <2> QED
    BY <1>3, <2>1, <2>2 DEF PushPayload
<1>4. CASE Grouped
  BY <1>4 DEF Grouped
<1>5. CASE PickGroup
  BY <1>5 DEF PickGroup
<1>6. CASE NoGroupLeft
  BY <1>6 DEF NoGroupLeft
<1>7. CASE PreparePayload
  <2>1. items[groups[cur][next]].kind \in {"good", "unknownColumn", "badInput"}
    BY <1>7, PayloadIsItem
  <2>2. /\ phase' \in {"done", "prepare"} /\ next' \in Nat \ {0}
        /\ outcome' \in {"none", "ok", "rejected", "unknownColumn", "badInput",
                         "kms", "invariant"}
        /\ UNCHANGED <<groups, pending, cur, reply, kms, results>>
    <3> HIDE DEF TypeOK, Ctx, Ciphertext, NoResult, N
    <3>1. next \in Nat \ {0} /\ outcome \in {"none", "ok", "rejected",
             "unknownColumn", "badInput", "kms", "invariant"}
      BY DEF TypeOK
    <3>2. next + 1 \in Nat \ {0}
      BY <3>1
    <3> QED
      BY <1>7, <2>1, <3>1, <3>2 DEF PreparePayload
  <2> QED
    BY <2>2
<1>8. CASE GroupPrepared
  BY <1>8 DEF GroupPrepared
<1>9. CASE EncryptGroup
  <2>1. [ctx |-> cur, batch |-> groups[cur]] \in [ctx : Ctx, batch : Seq(1..N)]
    OBVIOUS
  <2>2. Append(kms, [ctx |-> cur, batch |-> groups[cur]])
            \in Seq([ctx : Ctx, batch : Seq(1..N)])
    BY <2>1
  <2>3. reply' \in Nat /\ phase' \in {"done", "place"} /\ outcome' \in {outcome, "kms"}
    BY <1>9 DEF EncryptGroup
  <2>4. kms' \in Seq([ctx : Ctx, batch : Seq(1..N)])'
    BY <1>9, <2>2 DEF EncryptGroup
  <2> HIDE DEF Ctx
  <2>5. UNCHANGED <<next, groups, pending, cur, results>>
    BY <1>9 DEF EncryptGroup
  <2> QED
    BY <2>3, <2>4, <2>5
<1>10. CASE PlaceGroup
  BY <1>10 DEF PlaceGroup
<1>11. CASE Unwrap
  BY <1>11 DEF Unwrap
<1> HIDE DEF TypeOK, Ctx, Ciphertext, NoResult, vars, request, End, N
<1> QED
  BY <1>1, <1>2, <1>3, <1>4, <1>5, <1>6, <1>7, <1>8, <1>9, <1>10, <1>11 DEF Next

(* Once the groups are complete, what was said of them stays true.         *)
LEMMA GroupsKept ==
    ASSUME TypeOK, GroupsInv, [Next]_vars, groups' = groups, phase' # "group",
           phase' \in Looping => phase \in Looping \/ (phase = "group" /\ next > N)
    PROVE  GroupsInv'
<1>0. /\ items' = items
      /\ \A i : Promised(i)' = Promised(i)
  BY RequestFixed
<1>1. \A c \in Ctx : \A k \in 1..Len(groups'[c]) : Promised(groups'[c][k]) = c
  BY DEF GroupsInv
<1>2. \A c \in Ctx : \A j, k \in 1..Len(groups'[c]) : j < k => groups'[c][j] < groups'[c][k]
  BY DEF GroupsInv
<1>3. ASSUME phase' \in Looping, NEW i \in 1..N
      PROVE  \E k \in 1..Len(groups'[Promised(i)]) : groups'[Promised(i)][k] = i
  <2>1. phase \in Looping \cup {"group"} /\ (phase = "group" => i < next)
    BY <1>3 DEF TypeOK, Looping, N
  <2> QED
    BY <1>0, <2>1 DEF GroupsInv
<1> QED
  BY <1>0, <1>1, <1>2, <1>3 DEF GroupsInv, N, Promised, Bulk!PromisedCtx

(* Grouping puts every index, in order, where its context belongs.         *)
LEMMA GroupsPreserved ==
    ASSUME TypeOK, GroupsInv, [Next]_vars
    PROVE  GroupsInv'
<1>0. /\ items' = items
      /\ \A i : Promised(i)' = Promised(i)
  BY RequestFixed
<1>1. CASE PushPayload
  <2> DEFINE c0 == Promised(next)
  <2>0. next \in 1..N
    BY <1>1 DEF PushPayload, TypeOK, N
  <2>1. c0 \in Ctx /\ phase = "group" /\ phase' = "group"
        /\ next' = next + 1 /\ groups' = [groups EXCEPT ![c0] = Append(@, next)]
    BY <1>1, <2>0, KeyIsPromise DEF PushPayload
  <2>2. groups \in [Ctx -> Seq(1..N)] /\ next \in Nat /\ N \in Nat
    BY DEF TypeOK, N
  <2>3. \A c \in Ctx : c # c0 => groups'[c] = groups[c]
    BY <2>1, <2>2
  <2>4. /\ Len(groups'[c0]) = Len(groups[c0]) + 1
        /\ groups'[c0][Len(groups[c0]) + 1] = next
        /\ \A k \in 1..Len(groups[c0]) : groups'[c0][k] = groups[c0][k]
    BY <2>1, <2>2
  <2> HIDE DEF c0
  <2>5. \A c \in Ctx : Len(groups[c]) \in Nat
    BY <2>2
  <2>6. ASSUME NEW c \in Ctx, NEW k \in 1..Len(groups'[c])
        PROVE  \/ k \in 1..Len(groups[c]) /\ groups'[c][k] = groups[c][k]
               \/ c = c0 /\ k = Len(groups[c0]) + 1 /\ groups'[c][k] = next
    BY <2>3, <2>4, <2>5
  <2>7. ASSUME NEW c \in Ctx, NEW k \in 1..Len(groups'[c])
        PROVE  Promised(groups'[c][k]) = c /\ groups'[c][k] < next'
    <3>1. CASE k \in 1..Len(groups[c]) /\ groups'[c][k] = groups[c][k]
      <4>1. groups[c][k] \in Nat /\ groups[c][k] < next /\ Promised(groups[c][k]) = c
        BY <2>1, <2>2, <3>1 DEF GroupsInv
      <4>2. next \in Nat /\ next' = next + 1
        BY <2>1, <2>2
      <4> QED
        BY <3>1, <4>1, <4>2
    <3>2. CASE c = c0 /\ groups'[c][k] = next
      BY <2>0, <2>1, <2>2, <3>2 DEF c0
    <3> QED
      BY <2>6, <3>1, <3>2
  <2>8. ASSUME NEW c \in Ctx, NEW j \in 1..Len(groups'[c]), NEW k \in 1..Len(groups'[c]),
               j < k
        PROVE  groups'[c][j] < groups'[c][k]
    <3>1. j \in 1..Len(groups[c]) /\ groups'[c][j] = groups[c][j]
      BY <2>3, <2>4, <2>5, <2>8
    <3>2. groups[c][j] < next
      BY <2>1, <3>1 DEF GroupsInv
    <3>3. CASE k \in 1..Len(groups[c]) /\ groups'[c][k] = groups[c][k]
      BY <2>8, <3>1, <3>3 DEF GroupsInv
    <3> QED
      BY <2>6, <3>1, <3>2, <3>3
  <2>9. ASSUME NEW i \in 1..N, i < next'
        PROVE  \E k \in 1..Len(groups'[Promised(i)]) : groups'[Promised(i)][k] = i
    <3>1. Promised(i) \in Ctx
      BY KeyIsPromise
    <3>2. CASE i = next
      BY <2>4, <2>5, <3>1, <3>2 DEF c0
    <3>3. CASE i < next
      <4>1. PICK k \in 1..Len(groups[Promised(i)]) : groups[Promised(i)][k] = i
        BY <2>1, <3>3 DEF GroupsInv
      <4>2. k \in 1..Len(groups'[Promised(i)])
            /\ groups'[Promised(i)][k] = groups[Promised(i)][k]
        BY <2>3, <2>4, <2>5, <3>1, <4>1
      <4> QED
        BY <4>1, <4>2
    <3> QED
      BY <2>1, <2>2, <2>9, <3>2, <3>3
  <2> QED
    <3>1. \A c \in Ctx : \A k \in 1..Len(groups'[c]) :
             Promised(groups'[c][k]) = c /\ groups'[c][k] < next'
      BY <2>7
    <3>2. \A c \in Ctx : \A j, k \in 1..Len(groups'[c]) :
             j < k => groups'[c][j] < groups'[c][k]
      BY <2>8
    <3>3. \A i \in 1..N : i < next' =>
             \E k \in 1..Len(groups'[Promised(i)]) : groups'[Promised(i)][k] = i
      BY <2>9
    <3>4. (\A c \in Ctx : \A k \in 1..Len(groups[c]) :
              /\ Promised(groups[c][k]) = c
              /\ phase = "group" => groups[c][k] < next)'
      BY <1>0, <3>1 DEF Promised, Bulk!PromisedCtx
    <3>5. (\A i \in 1..N : (phase = "group" => i < next) =>
              \E k \in 1..Len(groups[Promised(i)]) : groups[Promised(i)][k] = i)'
      BY <1>0, <2>1, <3>3 DEF N, Promised, Bulk!PromisedCtx
    <3> QED
      BY <3>2, <3>4, <3>5 DEF GroupsInv
<1>2. CASE UNCHANGED vars
  BY <1>0, <1>2 DEF vars, request, GroupsInv, N
<1>3. CASE Next /\ ~PushPayload
  <2>1. groups' = groups /\ phase' # "group"
    BY <1>3, PayloadIsItem DEF Next, Reject, Grouped, PickGroup, NoGroupLeft, PreparePayload,
       GroupPrepared, EncryptGroup, PlaceGroup, Unwrap, End
  <2>2. phase' \in Looping => phase \in Looping \/ (phase = "group" /\ next > N)
    BY <1>3 DEF Next, Reject, Grouped, PickGroup, NoGroupLeft, PreparePayload,
       GroupPrepared, EncryptGroup, PlaceGroup, Unwrap, End, Looping
  <2> QED
    BY <2>1, <2>2, GroupsKept
<1> QED
  BY <1>1, <1>2, <1>3

(* The loop over the groups leaves only groups it could encrypt.           *)
LEMMA LoopPreserved ==
    ASSUME TypeOK, LoopInv, [Next]_vars
    PROVE  LoopInv'
<1>0. /\ items' = items /\ callCtx' = callCtx
      /\ \A i : Promised(i)' = Promised(i)
  BY RequestFixed
<1> USE BulkAssumption, <1>0 DEF LoopInv, AllGood, vars, request, End, N
<1>1. CASE UNCHANGED vars
  BY <1>1
<1>2. CASE Reject
  BY <1>2 DEF Reject
<1>3. CASE PushPayload
  BY <1>3 DEF PushPayload
<1>4. CASE Grouped
  BY <1>4 DEF Grouped
<1>5. CASE PickGroup
  <2>1. /\ phase = "pick" /\ phase' = "prepare" /\ next' = 1 /\ groups' = groups
        /\ cur' \in pending /\ pending' = pending \ {cur'} /\ \A d \in pending : cur' <= d
    BY <1>5 DEF PickGroup
  <2>2. \A c \in pending' : cur' < c
    BY <2>1 DEF TypeOK, Ctx
  <2>3. \A c \in Ctx \ pending' : c # cur' => AllGood(c)
    BY <2>1
  <2>4. \A k \in 1..Len(groups[cur']) : ~(k < 1)
    <3>1. Len(groups[cur']) \in Nat
      BY <2>1 DEF TypeOK
    <3> QED
      BY <3>1
  <2> QED
    BY <2>1, <2>2, <2>3, <2>4
<1>6. CASE NoGroupLeft
  BY <1>6 DEF NoGroupLeft
<1>7. CASE PreparePayload
  <2>1. phase' = "prepare" =>
            next' = next + 1 /\ items[groups[cur][next]].kind = "good"
    BY <1>7 DEF PreparePayload
  <2>2. phase' = "done" \/ phase' = "prepare"
    BY <1>7 DEF PreparePayload
  <2>3. UNCHANGED <<groups, pending, cur>> /\ phase = "prepare"
    BY <1>7 DEF PreparePayload
  <2>4. Len(groups[cur]) \in Nat /\ next \in Nat
    BY DEF TypeOK
  <2>5. ASSUME phase' = "prepare", NEW k \in 1..Len(groups[cur]), k < next'
        PROVE  items[groups[cur][k]].kind = "good"
    BY <2>1, <2>3, <2>4, <2>5
  <2> QED
    BY <2>2, <2>3, <2>5
<1>8. CASE GroupPrepared
  <2>0. Len(groups[cur]) \in Nat /\ next \in Nat
    BY DEF TypeOK
  <2>1. \A k \in 1..Len(groups[cur]) : items[groups[cur][k]].kind = "good"
    BY <1>8, <2>0 DEF GroupPrepared
  <2> QED
    BY <1>8, <2>1 DEF GroupPrepared
<1>9. CASE EncryptGroup
  BY <1>9 DEF EncryptGroup
<1>10. CASE PlaceGroup
  <2>1. \A c \in Ctx \ pending : AllGood(c)
    BY <1>10 DEF PlaceGroup
  <2> QED
    BY <1>10, <2>1 DEF PlaceGroup
<1>11. CASE Unwrap
  BY <1>11 DEF Unwrap
<1> HIDE DEF LoopInv, AllGood, vars, request, End, N
<1> QED
  BY <1>1, <1>2, <1>3, <1>4, <1>5, <1>6, <1>7, <1>8, <1>9, <1>10, <1>11 DEF Next

(* A filled slot holds the ciphertext of its own item.                     *)
LEMMA SlotPreserved ==
    ASSUME TypeOK, GroupsInv, LoopInv, SlotInv, [Next]_vars
    PROVE  SlotInv'
<1>0. /\ items' = items /\ callCtx' = callCtx
      /\ \A i : Promised(i)' = Promised(i)
  BY RequestFixed
<1> USE BulkAssumption, <1>0 DEF SlotInv, NoResult, vars, request, End, N
<1>1. CASE UNCHANGED vars
  BY <1>1
<1>2. CASE Reject
  BY <1>2 DEF Reject
<1>3. CASE PushPayload
  BY <1>3 DEF PushPayload
<1>4. CASE Grouped
  BY <1>4 DEF Grouped
<1>5. CASE PickGroup
  BY <1>5 DEF PickGroup
<1>6. CASE NoGroupLeft
  BY <1>6 DEF NoGroupLeft
<1>7. CASE PreparePayload
  BY <1>7 DEF PreparePayload
<1>8. CASE GroupPrepared
  BY <1>8 DEF GroupPrepared
<1>9. CASE EncryptGroup
  BY <1>9 DEF EncryptGroup
<1>10. CASE PlaceGroup
  <2> SUFFICES ASSUME NEW i \in 1..N, results'[i] # NoResult
               PROVE  /\ results'[i] = [item |-> i, ctx |-> Promised(i)]
                      /\ items[i].kind = "good"
    OBVIOUS
  <2>1. CASE \E k \in 1..reply : groups[cur][k] = i
    <3>1. PICK k \in 1..reply : groups[cur][k] = i
      BY <2>1
    <3>2. k \in 1..Len(groups[cur]) /\ cur \in Ctx
      BY <1>10 DEF PlaceGroup, LoopInv, TypeOK
    <3>3. Promised(i) = cur /\ items[i].kind = "good"
      BY <1>10, <3>1, <3>2 DEF PlaceGroup, GroupsInv, LoopInv, AllGood
    <3> QED
      BY <1>10, <2>1, <3>3 DEF PlaceGroup
  <2>2. CASE ~ \E k \in 1..reply : groups[cur][k] = i
    BY <1>10, <2>2 DEF PlaceGroup
  <2> QED
    BY <2>1, <2>2
<1>11. CASE Unwrap
  BY <1>11 DEF Unwrap
<1> HIDE DEF SlotInv, NoResult, vars, request, End, N
<1> QED
  BY <1>1, <1>2, <1>3, <1>4, <1>5, <1>6, <1>7, <1>8, <1>9, <1>10, <1>11 DEF Next

(* The recorded calls are uniform, ordered and without repetition.         *)
LEMMA KmsPreserved ==
    ASSUME TypeOK, GroupsInv, LoopInv, KmsInv, [Next]_vars
    PROVE  KmsInv'
<1>0. /\ items' = items
      /\ \A i : Promised(i)' = Promised(i)
  BY RequestFixed
<1>1. CASE EncryptGroup
  <2> DEFINE call == [ctx |-> cur, batch |-> groups[cur]]
  <2>1. /\ phase = "encrypt" /\ phase' \in {"done", "place"} /\ kms' = Append(kms, call)
        /\ UNCHANGED <<groups, pending, cur>>
    BY <1>1 DEF EncryptGroup, End
  <2>2. /\ Len(kms) \in Nat /\ Len(kms') = Len(kms) + 1 /\ kms'[Len(kms) + 1] = call
        /\ \A b \in 1..Len(kms) : kms'[b] = kms[b]
    BY <2>1 DEF TypeOK
  <2>3. cur \in Ctx /\ Len(groups[cur]) \in Nat
    BY DEF TypeOK
  <2>4. BatchesUniform'
    <3> SUFFICES ASSUME NEW b \in 1..Len(kms'), NEW k \in 1..Len(kms'[b].batch)
                 PROVE  /\ Promised(kms'[b].batch[k]) = kms'[b].ctx
                        /\ items[kms'[b].batch[k]].kind = "good"
      BY <1>0 DEF BatchesUniform, Promised
    <3>1. CASE b \in 1..Len(kms)
      BY <2>2, <3>1 DEF KmsInv, BatchesUniform, Promised
    <3>2. CASE b = Len(kms) + 1
      BY <2>1, <2>2, <2>3, <3>2 DEF GroupsInv, LoopInv, AllGood
    <3> QED
      BY <2>2, <3>1, <3>2
  <2>5. EncryptedAtMostOnce'
    <3>1. ASSUME NEW a \in 1..Len(kms'), NEW b \in 1..Len(kms'), a < b
          PROVE  kms'[a].ctx < kms'[b].ctx
      <4>1. a \in 1..Len(kms) /\ kms'[a] = kms[a]
        BY <2>2, <3>1
      <4>2. CASE b \in 1..Len(kms)
        BY <2>2, <3>1, <4>1, <4>2 DEF KmsInv, EncryptedAtMostOnce
      <4>3. CASE b = Len(kms) + 1
        BY <2>1, <2>2, <4>1, <4>3 DEF KmsInv, Looping
      <4> QED
        BY <2>2, <4>2, <4>3
    <3>2. ASSUME NEW b \in 1..Len(kms'), NEW j \in 1..Len(kms'[b].batch),
                 NEW k \in 1..Len(kms'[b].batch), j < k
          PROVE  kms'[b].batch[j] < kms'[b].batch[k]
      <4>1. CASE b \in 1..Len(kms)
        BY <2>2, <3>2, <4>1 DEF KmsInv, EncryptedAtMostOnce
      <4>2. CASE b = Len(kms) + 1
        BY <2>2, <2>3, <3>2, <4>2 DEF GroupsInv
      <4> QED
        BY <2>2, <4>1, <4>2
    <3> QED
      BY <3>1, <3>2 DEF EncryptedAtMostOnce
  <2>6. ASSUME phase' \in Looping, NEW b \in 1..Len(kms'), NEW c \in pending
        PROVE  kms'[b].ctx < c
    <3>1. CASE b \in 1..Len(kms)
      BY <2>1, <2>2, <3>1 DEF KmsInv, Looping
    <3>2. CASE b = Len(kms) + 1
      BY <2>1, <2>2, <3>2 DEF LoopInv
    <3> QED
      BY <2>2, <3>1, <3>2
  <2> QED
    BY <2>1, <2>4, <2>5, <2>6 DEF KmsInv
<1>2. CASE PickGroup
  <2>1. /\ phase = "pick" /\ phase' = "prepare" /\ kms' = kms
        /\ cur' \in pending /\ pending' = pending \ {cur'}
    BY <1>2 DEF PickGroup
  <2>2. BatchesUniform' /\ EncryptedAtMostOnce'
    BY <1>0, <2>1 DEF KmsInv, BatchesUniform, EncryptedAtMostOnce, Promised
  <2>3. \A b \in 1..Len(kms) : kms[b].ctx < cur' /\ \A c \in pending' : kms[b].ctx < c
    BY <2>1 DEF KmsInv, Looping
  <2> QED
    BY <2>1, <2>2, <2>3 DEF KmsInv
<1>3. CASE (Next /\ ~EncryptGroup /\ ~PickGroup) \/ UNCHANGED vars
  <2>1. /\ kms' = kms
        /\ phase' = "group" => phase = "group"
        /\ phase' \in Looping /\ kms # << >> => phase \in Looping /\ pending' = pending
        /\ phase' \in {"prepare", "encrypt"} /\ kms # << >> =>
              phase \in {"prepare", "encrypt"} /\ cur' = cur
    BY <1>3 DEF Next, Reject, PushPayload, Grouped, NoGroupLeft, PreparePayload,
       GroupPrepared, PlaceGroup, Unwrap, End, vars, Looping, KmsInv
  <2>2. BatchesUniform' /\ EncryptedAtMostOnce'
    BY <1>0, <2>1 DEF KmsInv, BatchesUniform, EncryptedAtMostOnce, Promised
  <2>3. \A b \in 1..Len(kms) : kms # << >>
    OBVIOUS
  <2>4. ASSUME phase' \in Looping, NEW b \in 1..Len(kms)
        PROVE  /\ \A c \in pending' : kms[b].ctx < c
               /\ phase' \in {"prepare", "encrypt"} => kms[b].ctx < cur'
    BY <2>1, <2>3, <2>4 DEF KmsInv
  <2> QED
    BY <2>1, <2>2, <2>4 DEF KmsInv
<1> QED
  BY <1>1, <1>2, <1>3

(* A call has an outcome when, and only when, it is done.                  *)
LEMMA OutcomePreserved ==
    ASSUME TypeOK, OutcomeInv, [Next]_vars
    PROVE  OutcomeInv'
<1>0. /\ items' = items /\ callCtx' = callCtx
      /\ \A i : Promised(i)' = Promised(i)
  BY RequestFixed
<1> USE BulkAssumption, <1>0 DEF OutcomeInv, vars, request, End, N
<1>1. CASE UNCHANGED vars
  BY <1>1
<1>2. CASE Reject
  BY <1>2 DEF Reject
<1>3. CASE PushPayload
  BY <1>3 DEF PushPayload
<1>4. CASE Grouped
  BY <1>4 DEF Grouped
<1>5. CASE PickGroup
  BY <1>5 DEF PickGroup
<1>6. CASE NoGroupLeft
  BY <1>6 DEF NoGroupLeft
<1>7. CASE PreparePayload
  BY <1>7, PayloadIsItem DEF PreparePayload
<1>8. CASE GroupPrepared
  BY <1>8 DEF GroupPrepared
<1>9. CASE EncryptGroup
  BY <1>9 DEF EncryptGroup
<1>10. CASE PlaceGroup
  BY <1>10 DEF PlaceGroup
<1>11. CASE Unwrap
  BY <1>11 DEF Unwrap
<1> HIDE DEF OutcomeInv, vars, request, End, N
<1> QED
  BY <1>1, <1>2, <1>3, <1>4, <1>5, <1>6, <1>7, <1>8, <1>9, <1>10, <1>11 DEF Next

-----------------------------------------------------------------------------
LEMMA InitIInv == Init => IInv
<1> SUFFICES ASSUME Init PROVE IInv
  OBVIOUS
<1>0. N \in Nat /\ items \in Seq(Item) /\ N <= MaxItems
  <2>1. PICK n \in 0..MaxItems : items \in [1..n -> Item]
    BY DEF Init, Requests
  <2> QED
    BY <2>1, BulkAssumption DEF N
<1>1. TypeOK
  BY <1>0, BulkAssumption DEF Init, TypeOK, Ctx
<1>2. GroupsInv /\ LoopInv
  BY <1>0 DEF Init, GroupsInv, LoopInv, Looping
<1>3. SlotInv /\ KmsInv /\ OutcomeInv
  BY <1>0 DEF Init, SlotInv, KmsInv, OutcomeInv, BatchesUniform, EncryptedAtMostOnce, Looping
<1> QED
  BY <1>1, <1>2, <1>3 DEF IInv

LEMMA NextIInv == IInv /\ [Next]_vars => IInv'
  BY TypePreserved, GroupsPreserved, LoopPreserved, SlotPreserved, KmsPreserved,
     OutcomePreserved DEF IInv

(* The invariant the safety theorems rest on holds in every behaviour.     *)
THEOREM Invariance == Spec => []IInv
  BY InitIInv, NextIInv, PTL DEF Spec

(* Every variable keeps its type, and every filled slot holds its own item *)
(* under its promised lock context, for requests of any length over any    *)
(* number of contexts.                                                     *)
THEOREM Alignment == Spec => []Aligned
<1>1. IInv => Aligned
  BY DEF IInv, SlotInv, Aligned, Promised
<1> QED
  BY <1>1, Invariance, PTL

(* No key-server call mixes lock contexts or carries a bad item, and none  *)
(* repeats an item or a context.                                           *)
THEOREM Batching == Spec => [](BatchesUniform /\ EncryptedAtMostOnce)
<1>1. IInv => BatchesUniform /\ EncryptedAtMostOnce
  BY DEF IInv, KmsInv
<1> QED
  BY <1>1, Invariance, PTL

(* Over the whole call, also through a failure in a later group: every     *)
(* item goes to the key server at most once.                               *)
THEOREM AtMostOnce == Spec => []EncryptedAtMostOnce
<1>1. IInv => EncryptedAtMostOnce
  BY DEF IInv, KmsInv
<1> QED
  BY <1>1, Invariance, PTL

-----------------------------------------------------------------------------
(* The refinement: of all steps only those that end the call are seen by   *)
(* BulkSpec.                                                               *)

(* The item PreparePayload stops at is the first bad one in the order of   *)
(* encryption: groups of smaller contexts have been left, so all their     *)
(* items are good, and so are the earlier ones of its own group.           *)
LEMMA BlamesFirst ==
    ASSUME IInv, PreparePayload, items[groups[cur][next]].kind # "good"
    PROVE  Bulk!BlameItem
<1> DEFINE i == groups[cur][next]
<1>0. i \in 1..N /\ i \in DOMAIN items /\ N \in Nat
  BY PayloadIsItem DEF IInv, TypeOK, N
<1>1. /\ next \in 1..Len(groups[cur]) /\ cur \in Ctx /\ Promised(i) = cur
      /\ phase = "prepare" /\ Len(groups[cur]) \in Nat
  <2>1. next \in 1..Len(groups[cur]) /\ cur \in Ctx
    BY DEF PreparePayload, IInv, TypeOK
  <2> QED
    BY <2>1 DEF PreparePayload, IInv, GroupsInv, TypeOK
<1>2. ASSUME NEW j \in DOMAIN items, items[j].kind # "good", j # i
      PROVE  Bulk!Before(i, j)
  <2>1. j \in 1..N
    BY DEF IInv, TypeOK, N
  <2>2. Promised(j) \in Ctx
    BY <2>1, KeyIsPromise DEF IInv
  <2>3. PICK k \in 1..Len(groups[Promised(j)]) : groups[Promised(j)][k] = j
    BY <1>1, <2>1 DEF IInv, GroupsInv, Looping
  <2>4. CASE Promised(j) = cur
    <3>1. ~(k < next)
      BY <1>1, <1>2, <2>3, <2>4 DEF IInv, LoopInv
    <3>2. k # next
      BY <1>2, <2>3, <2>4
    <3>3. next < k
      BY <1>1, <2>3, <2>4, <3>1, <3>2
    <3>4. i < j
      BY <1>1, <2>3, <2>4, <3>3 DEF IInv, GroupsInv
    <3> QED
      BY <1>1, <2>4, <3>4 DEF Bulk!Before, Promised
  <2>5. CASE Promised(j) # cur
    <3>1. Promised(j) \in pending
      BY <1>1, <1>2, <2>2, <2>3, <2>5 DEF IInv, LoopInv, AllGood
    <3>2. cur < Promised(j)
      BY <1>1, <3>1 DEF IInv, LoopInv
    <3> QED
      BY <1>1, <3>2 DEF Bulk!Before, Promised
  <2> QED
    BY <2>4, <2>5
<1>3. /\ i \in Bulk!Bad
      /\ \A j \in Bulk!Bad \ {i} : Bulk!Before(i, j)
  BY <1>0, <1>2 DEF Bulk!Bad
<1>4. /\ outcome = "none" /\ outcome' = items[i].kind /\ outcome' # "ok"
      /\ items' = items /\ callCtx' = callCtx
  BY <1>1, PayloadIsItem DEF PreparePayload, End, request, IInv, OutcomeInv
<1> QED
  BY <1>3, <1>4 DEF Bulk!BlameItem

(* A call that succeeds has filled every slot, so every item is good.      *)
LEMMA SucceedsWithAll ==
    ASSUME IInv, Unwrap, outcome' = "ok"
    PROVE  Bulk!Succeed
<1>1. /\ outcome = "none" /\ \A i \in 1..N : results[i] # NoResult
      /\ items' = items /\ callCtx' = callCtx /\ results' = results
  BY DEF Unwrap, End, request, IInv, OutcomeInv
<1>2. \A i \in 1..N : results[i] = [item |-> i, ctx |-> Promised(i)] /\ items[i].kind = "good"
  BY <1>1 DEF IInv, SlotInv
<1>3. DOMAIN items = 1..N /\ results \in [1..N -> Ciphertext \cup {NoResult}]
  BY DEF IInv, TypeOK, N
<1>4. Bulk!Bad = {}
  BY <1>2, <1>3 DEF Bulk!Bad
<1>5. results = [i \in DOMAIN items |-> [item |-> i, ctx |-> Bulk!PromisedCtx(i)]]
  BY <1>2, <1>3 DEF Promised
<1> QED
  BY <1>1, <1>4, <1>5 DEF Bulk!Succeed

(* BulkEncrypt implements BulkSpec for requests of any length over any     *)
(* number of lock contexts.                                                *)
THEOREM Implementation == Spec => BulkImplemented
<1>1. Init => Bulk!Init
  BY DEF Init, Bulk!Init
<1>2. ASSUME IInv, [Next]_vars
      PROVE  [Bulk!Next]_(Bulk!specVars)
  <2> USE <1>2
  <2>0. items' = items /\ callCtx' = callCtx
    BY RequestFixed
  <2>1. CASE outcome' = outcome
    <3>1. outcome = "ok" => results' = results
      BY <2>1 DEF Next, vars, IInv, OutcomeInv, Reject, PushPayload, Grouped, PickGroup,
         NoGroupLeft, PreparePayload, GroupPrepared, EncryptGroup, PlaceGroup, Unwrap
    <3> QED
      BY <2>0, <2>1, <3>1 DEF Bulk!specVars
  <2>2. CASE outcome' # outcome
    <3>1. outcome = "none"
      BY <2>2 DEF Next, vars, IInv, OutcomeInv, Reject, PushPayload, Grouped, PickGroup,
         NoGroupLeft, PreparePayload, GroupPrepared, EncryptGroup, PlaceGroup, Unwrap
    <3>2. \/ PreparePayload /\ items[groups[cur][next]].kind # "good"
          \/ Unwrap /\ outcome' = "ok"
          \/ outcome' \in {"rejected", "kms", "invariant"}
      BY <2>2 DEF Next, vars, Reject, PushPayload, Grouped, PickGroup, NoGroupLeft,
         PreparePayload, GroupPrepared, EncryptGroup, PlaceGroup, Unwrap, End
    <3>3. CASE outcome' \in {"rejected", "kms", "invariant"}
      BY <2>0, <3>1, <3>3 DEF Bulk!Next, Bulk!FailAnyway
    <3> QED
      BY <3>2, <3>3, BlamesFirst, SucceedsWithAll DEF Bulk!Next
  <2> QED
    BY <2>1, <2>2
<1> QED
  BY <1>1, <1>2, Invariance, PTL DEF Spec, BulkImplemented, Bulk!Spec
=============================================================================
