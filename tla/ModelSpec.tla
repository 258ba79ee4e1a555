----------------------------- MODULE ModelSpec -----------------------------
(***************************************************************************)
(* What EncryptModel and BulkEncryptModels promise, without loops: each    *)
(* ends in one step, with a map that is a function of the model, with an   *)
(* error or in a panic.  A field's plaintext is <<model, field>>, values   *)
(* in maps are those of ModelEncrypt.                                      *)
(***************************************************************************)
EXTENDS Integers, Sequences

VARIABLES
    fields,   \* the struct type: a sequence of [enc, key, known, ptr]
    models,   \* the slice: nil (<<>>), or "nil", "good" or "bad" for each field
    singles,  \* per model, what its EncryptModel returned: [status, map]
    whole     \* what BulkEncryptModels returned: [status, maps]

specVars == <<fields, models, singles, whole>>

Present == {i \in DOMAIN models : models[i] # <<>>}

Tagged == {j \in DOMAIN fields : fields[j].enc}
Plain == DOMAIN fields \ Tagged
Sent(i) == {j \in Tagged : models[i][j] # "nil"}

KeysOf(js) == {fields[j].key : j \in js}
Last(js, k) == CHOOSE j \in js : fields[j].key = k /\
                  \A x \in js : fields[x].key = k => x <= j

NilAny == [tag |-> "nil", of |-> <<0, 0>>]

(* What a field is in the map: a tagged one its ciphertext, a plain one    *)
(* itself, through the pointer it has.                                     *)
Kept(i, j) ==
    IF fields[j].enc
    THEN IF models[i][j] = "nil" THEN NilAny ELSE [tag |-> "enc", of |-> <<i, j>>]
    ELSE [tag |-> IF fields[j].ptr THEN "ptr" ELSE "raw",
          of |-> IF fields[j].ptr /\ models[i][j] = "nil" THEN <<0, 0>> ELSE <<i, j>>]

(* Of the fields that share a key the last tagged one stays, or else the   *)
(* last plain one.                                                         *)
SingleMap(i) ==
    [k \in KeysOf(DOMAIN fields) |->
        Kept(i, Last(IF k \in KeysOf(Tagged) THEN Tagged ELSE Plain, k))]

(* In bulk a ciphertext stays, also where a later tagged field is nil.     *)
BulkMap(i) ==
    [k \in KeysOf(DOMAIN fields) |->
        Kept(i, Last(IF k \in KeysOf(Sent(i)) THEN Sent(i)
                     ELSE IF k \in KeysOf(Tagged) THEN Tagged ELSE Plain, k))]

(* The fields before j give no reason to stop.                             *)
Reached(i, j) == \A x \in Sent(i) : x < j => fields[x].known /\ models[i][x] = "good"

(* A field in an unknown column panics where it is reached.  An error is   *)
(* the model's, that of the field reached, or of its native call.          *)
Single(i) ==
    /\ singles[i].status = "running"
    /\ \/ /\ i \in Present
          /\ \A j \in Sent(i) : fields[j].known /\ models[i][j] = "good"
          /\ singles' = [singles EXCEPT ![i] = [status |-> "ok", map |-> SingleMap(i)]]
       \/ /\ \/ i \notin Present
             \/ \E j \in Sent(i) : Reached(i, j) /\ fields[j].known
          /\ singles' = [singles EXCEPT ![i] = [status |-> "error", map |-> <<>>]]
       \/ /\ i \in Present
          /\ \E j \in Sent(i) : Reached(i, j) /\ ~fields[j].known
          /\ singles' = [singles EXCEPT ![i] = [status |-> "panic", map |-> <<>>]]
    /\ UNCHANGED <<fields, models, whole>>

AllSent == {q \in Present \X DOMAIN fields : q[2] \in Sent(q[1])}

(* In bulk an unknown column panics before anything is encrypted, and all  *)
(* values are encrypted or none.  A nil model has a nil map.               *)
Bulk ==
    /\ whole.status = "running"
    /\ \/ /\ \A q \in AllSent : fields[q[2]].known /\ models[q[1]][q[2]] = "good"
          /\ whole' = [status |-> "ok",
                       maps |-> [i \in DOMAIN models |->
                                    IF i \in Present THEN BulkMap(i) ELSE <<>>]]
       \/ /\ AllSent # {} /\ \A q \in AllSent : fields[q[2]].known
          /\ whole' = [status |-> "error", maps |-> <<>>]
       \/ /\ \E q \in AllSent : ~fields[q[2]].known
          /\ whole' = [status |-> "panic", maps |-> <<>>]
    /\ UNCHANGED <<fields, models, singles>>

Init ==
    /\ singles = [i \in DOMAIN models |-> [status |-> "running", map |-> <<>>]]
    /\ whole = [status |-> "running", maps |-> <<>>]

Next == Bulk \/ \E i \in DOMAIN models : Single(i)

Spec == Init /\ [][Next]_specVars
=============================================================================
