--------------------------- MODULE ModelEncrypt ---------------------------
(***************************************************************************)
(* EncryptModel of each model of a slice and BulkEncryptModels of the      *)
(* whole slice, on the same models (model.go).  The two differ in order:   *)
(* EncryptModel fills its map field by field, one nested Encrypt each;     *)
(* BulkEncryptModels first walks all models, collecting payloads and their *)
(* positions, and distributes one EncryptBulk's answer afterwards.         *)
(*                                                                         *)
(* The plaintext of field j of model i is <<i, j>>, so that a value in the *)
(* wrong place shows.  A map value is the Go value kept under a key: the   *)
(* field's own ("raw"), a Go pointer to it ("ptr"), a ciphertext of it     *)
(* ("enc") or an untyped nil.                                              *)
(***************************************************************************)
EXTENDS Integers, Sequences

CONSTANTS
    Keys,        \* map keys: json names or snake_case field names
    Fields,      \* the fields structs are made of
    MaxFields,   \* bound on the fields of the struct type
    MaxModels    \* bound on the models of the slice

(* modelField, with what matters of the field's type: a pointer or not, to *)
(* a string or to a number; and whether the schema has its column.         *)
Field == [enc : BOOLEAN, key : Keys, known : BOOLEAN, ptr : BOOLEAN,
          base : {"string", "number"}]

ASSUME ModelAssumption ==
    /\ Fields \subseteq Field
    /\ MaxFields \in Nat /\ MaxModels \in Nat

NilModel == <<>>
Nil == <<0, 0>>
NilAny == [tag |-> "nil", of |-> Nil]
Raw(v) == [tag |-> "raw", of |-> v]
Ptr(v) == [tag |-> "ptr", of |-> v]
Enc(v) == [tag |-> "enc", of |-> v]

VARIABLES
    fields,    \* the struct type
    models,    \* the slice: nil, or for each field "nil", "good" or "bad",
               \* bad being a value its column cannot encrypt
    stage,     \* "single", "collect", "send", "encrypted"; ModelDecrypt has more
    m, f,      \* the model and field the loops are at
    single,    \* per model, how its EncryptModel ended, and its map
    bulk,      \* how BulkEncryptModels ended, and its maps
    payloads,  \* BulkEncryptModels' payloads: model and field of each
    fault      \* history: some native call failed for a reason of its own

encryptVars == <<fields, models, stage, m, f, single, bulk, payloads, fault>>
args == <<fields, models>>

(* Values of a model of this type.                                         *)
Fits(model) == \A j \in DOMAIN fields :
    /\ model[j] = "nil" => fields[j].ptr
    /\ model[j] = "bad" => fields[j].enc

Statuses == {"running", "ok", "error", "panic"}
IsMap(map) ==
    /\ DOMAIN map \subseteq Keys
    /\ \A k \in DOMAIN map :
          map[k] \in [tag : {"nil", "raw", "ptr", "enc"},
                     of : ((DOMAIN models) \X (DOMAIN fields)) \cup {Nil}]

TypeOK ==
    /\ fields \in Seq(Fields) /\ Len(fields) \in 1..MaxFields
    /\ Len(models) <= MaxModels
    /\ \A i \in DOMAIN models : models[i] = NilModel \/ Fits(models[i])
    /\ stage \in {"single", "collect", "send", "encrypted", "decrypt", "done"}
    /\ m \in 1..Len(models) + 1 /\ f \in 0..Len(fields) + 1
    /\ \A i \in DOMAIN models : single[i].status \in Statuses /\ IsMap(single[i].map)
    /\ bulk.status \in Statuses /\ \A i \in DOMAIN models : IsMap(bulk.maps[i])
    /\ \A p \in DOMAIN payloads : payloads[p] \in (DOMAIN models) \X (DOMAIN fields)
    /\ fault \in BOOLEAN

Init ==
    /\ \E k \in 1..MaxFields : fields \in [1..k -> Fields]
    /\ \E k \in 0..MaxModels :
          models \in [1..k -> {NilModel} \cup
             {model \in [DOMAIN fields -> {"nil", "good", "bad"}] : Fits(model)}]
    /\ stage = "single"
    /\ m = 1 /\ f = 0
    /\ single = [i \in DOMAIN models |-> [status |-> "running", map |-> <<>>]]
    /\ bulk = [status |-> "running", maps |-> [i \in DOMAIN models |-> <<>>]]
    /\ payloads = <<>>
    /\ fault = FALSE

(***************************************************************************)
(* Maps.                                                                   *)
(***************************************************************************)

Put(map, k, x) == [y \in DOMAIN map \cup {k} |-> IF y = k THEN x ELSE map[y]]

(* The entries of top replace those of map.                                *)
Over(top, map) ==
    [y \in DOMAIN top \cup DOMAIN map |-> IF y \in DOMAIN top THEN top[y] ELSE map[y]]

(***************************************************************************)
(* Reading a model.                                                        *)
(***************************************************************************)

EncFields == {j \in DOMAIN fields : fields[j].enc}
PlainFields == DOMAIN fields \ EncFields
KeysOf(js) == {fields[j].key : j \in js}
LastWith(js, k) == CHOOSE j \in js : fields[j].key = k /\
                      \A x \in js : fields[x].key = k => x <= j

(* The value v.Field(j).Interface() of a plain field.                      *)
PlainValue(i, j) ==
    IF ~fields[j].ptr THEN Raw(<<i, j>>)
    ELSE Ptr(IF models[i][j] = "nil" THEN Nil ELSE <<i, j>>)

(* The copied plain fields; a later field replaces an earlier one's key.   *)
PlainMap(i) == [k \in KeysOf(PlainFields) |-> PlainValue(i, LastWith(PlainFields, k))]

IsNil(i, j) == models[i][j] = "nil"
Sent(i, j) == fields[j].enc /\ ~IsNil(i, j)

(***************************************************************************)
(* EncryptModel, for one model after the other.                            *)
(***************************************************************************)

FinishSingle(status, map) ==
    /\ single' = [single EXCEPT ![m] = [status |-> status, map |-> map]]
    /\ m' = m + 1 /\ f' = 0

StartSingle ==
    /\ stage = "single" /\ m <= Len(models) /\ f = 0
    /\ \/ /\ models[m] = NilModel
          /\ FinishSingle("error", <<>>)
       \/ /\ models[m] # NilModel
          /\ single' = [single EXCEPT ![m].map = PlainMap(m)]
          /\ f' = 1
          /\ UNCHANGED m
    /\ UNCHANGED <<args, stage, bulk, payloads, fault>>

PutSingle(k, value) ==
    /\ single' = [single EXCEPT ![m].map = Put(@, k, value)]
    /\ f' = f + 1
    /\ UNCHANGED m

(* Mutant: a ciphertext does not replace a plain field of its key.         *)
EncryptFieldUnder ==
    /\ stage = "single" /\ f \in DOMAIN fields
    /\ IF ~fields[f].enc THEN f' = f + 1 /\ UNCHANGED <<m, single, fault>>
       ELSE IF IsNil(m, f) THEN PutSingle(fields[f].key, NilAny) /\ UNCHANGED fault
       ELSE IF ~fields[f].known THEN FinishSingle("panic", <<>>) /\ UNCHANGED fault
       ELSE \/ /\ models[m][f] = "good"
               /\ PutSingle(fields[f].key, IF fields[f].key \in DOMAIN single[m].map
                                           THEN single[m].map[fields[f].key] ELSE Enc(<<m, f>>))
               /\ UNCHANGED fault
            \/ /\ FinishSingle("error", <<>>)
               /\ fault' = (fault \/ models[m][f] = "good")
    /\ UNCHANGED <<args, stage, bulk, payloads>>

(* Mutant: the column is looked up before the field is found to be nil.    *)
EncryptFieldLookedUp ==
    /\ stage = "single" /\ f \in DOMAIN fields
    /\ IF ~fields[f].enc THEN f' = f + 1 /\ UNCHANGED <<m, single, fault>>
       ELSE IF ~fields[f].known THEN FinishSingle("panic", <<>>) /\ UNCHANGED fault
       ELSE IF IsNil(m, f) THEN PutSingle(fields[f].key, NilAny) /\ UNCHANGED fault
       ELSE \/ /\ models[m][f] = "good"
               /\ PutSingle(fields[f].key, Enc(<<m, f>>))
               /\ UNCHANGED fault
            \/ /\ FinishSingle("error", <<>>)
               /\ fault' = (fault \/ models[m][f] = "good")
    /\ UNCHANGED <<args, stage, bulk, payloads>>

(* One field: a nil is kept, schema.Column panics for an unknown column,   *)
(* and the nested Encrypt may fail, also for a value that could be         *)
(* encrypted (the client was closed, the key server did not answer).       *)
EncryptField ==
    /\ stage = "single" /\ f \in DOMAIN fields
    /\ IF ~fields[f].enc THEN f' = f + 1 /\ UNCHANGED <<m, single, fault>>
       ELSE IF IsNil(m, f) THEN PutSingle(fields[f].key, NilAny) /\ UNCHANGED fault
       ELSE IF ~fields[f].known THEN FinishSingle("panic", <<>>) /\ UNCHANGED fault
       ELSE \/ /\ models[m][f] = "good"
               /\ PutSingle(fields[f].key, Enc(<<m, f>>))
               /\ UNCHANGED fault
            \/ /\ FinishSingle("error", <<>>)
               /\ fault' = (fault \/ models[m][f] = "good")
    /\ UNCHANGED <<args, stage, bulk, payloads>>

EndSingle ==
    /\ stage = "single" /\ f = Len(fields) + 1
    /\ FinishSingle("ok", single[m].map)
    /\ UNCHANGED <<args, stage, bulk, payloads, fault>>

StartBulk ==
    /\ stage = "single" /\ m = Len(models) + 1
    /\ stage' = "collect"
    /\ m' = 1
    /\ UNCHANGED <<args, f, single, bulk, payloads, fault>>

(***************************************************************************)
(* BulkEncryptModels.                                                      *)
(***************************************************************************)

EndBulk(status, maps) ==
    /\ bulk' = [status |-> status, maps |-> maps]
    /\ stage' = "encrypted"

(* One model of the first pass.  A nil model has a nil map.                *)
StartCollect ==
    /\ stage = "collect" /\ m <= Len(models) /\ f = 0
    /\ \/ /\ models[m] = NilModel
          /\ m' = m + 1
          /\ UNCHANGED <<f, bulk>>
       \/ /\ models[m] # NilModel
          /\ bulk' = [bulk EXCEPT !.maps[m] = PlainMap(m)]
          /\ f' = 1
          /\ UNCHANGED m
    /\ UNCHANGED <<args, stage, single, payloads, fault>>

(* One field of it.                                                        *)
CollectField ==
    /\ stage = "collect" /\ f \in DOMAIN fields
    /\ IF Sent(m, f) /\ ~fields[f].known
       THEN EndBulk("panic", [i \in DOMAIN models |-> <<>>]) /\ UNCHANGED <<f, payloads>>
       ELSE /\ payloads' = IF Sent(m, f) THEN Append(payloads, <<m, f>>) ELSE payloads
            /\ bulk' = IF fields[f].enc /\ IsNil(m, f)
                       THEN [bulk EXCEPT !.maps[m] = Put(@, fields[f].key, NilAny)] ELSE bulk
            /\ f' = f + 1
            /\ UNCHANGED stage
    /\ UNCHANGED <<args, m, single, fault>>

EndCollect ==
    /\ stage = "collect" /\ f = Len(fields) + 1
    /\ m' = m + 1 /\ f' = 0
    /\ UNCHANGED <<args, stage, single, bulk, payloads, fault>>

Collected ==
    /\ stage = "collect" /\ m = Len(models) + 1
    /\ stage' = "send"
    /\ UNCHANGED <<args, m, f, single, bulk, payloads, fault>>

(* Mutant: positions are kept per field, so that the values after a nil    *)
(* field land one field early.                                             *)
DistributedByCount(i) ==
    LET mine == SelectSeq(payloads, LAMBDA p : p[1] = i)
        enc == SelectSeq([j \in DOMAIN fields |-> j], LAMBDA j : fields[j].enc)
    IN  [k \in {fields[enc[x]].key : x \in DOMAIN mine} |->
            Enc(mine[CHOOSE x \in DOMAIN mine : fields[enc[x]].key = k])]

(* The ciphertexts of model i by the map key kept with each payload.       *)
Distributed(i) ==
    LET mine == {payloads[p][2] : p \in {x \in DOMAIN payloads : payloads[x][1] = i}}
    IN  [k \in KeysOf(mine) |-> Enc(<<i, LastWith(mine, k)>>)]

(* EncryptBulk, which answers every payload in its place or fails          *)
(* (BulkSpec), and the distribution; no payloads, no call.                 *)
SendBulk ==
    /\ stage = "send"
    /\ \/ /\ \A p \in DOMAIN payloads : models[payloads[p][1]][payloads[p][2]] = "good"
          /\ EndBulk("ok", [i \in DOMAIN models |-> Over(Distributed(i), bulk.maps[i])])
          /\ UNCHANGED fault
       \/ /\ payloads # <<>>
          /\ EndBulk("error", [i \in DOMAIN models |-> <<>>])
          /\ fault' = (fault \/ \A p \in DOMAIN payloads :
                          models[payloads[p][1]][payloads[p][2]] = "good")
    /\ UNCHANGED <<args, m, f, single, payloads>>

EncryptNext ==
    \/ StartSingle
    \/ EncryptField
    \/ EndSingle
    \/ StartBulk
    \/ StartCollect
    \/ CollectField
    \/ EndCollect
    \/ Collected
    \/ SendBulk

-----------------------------------------------------------------------------
(* Properties.                                                             *)

Distinct(js) == \A a, b \in js : fields[a].key = fields[b].key => a = b
Present == {i \in DOMAIN models : models[i] # NilModel}

(* In a map that is returned, the key of a tagged field holds a ciphertext *)
(* or nil, whatever other fields share the key; and when no two tagged     *)
(* fields share theirs, it is that field's own ciphertext, or nil exactly  *)
(* if the field is.                                                        *)
Sealed ==
    \A i \in Present : \A map \in
          {x \in {single[i].map} : single[i].status = "ok"} \cup
          {x \in {bulk.maps[i]} : bulk.status = "ok"} :
        \A j \in EncFields :
            /\ fields[j].key \in DOMAIN map
            /\ map[fields[j].key].tag \in {"enc", "nil"}
            /\ Distinct(EncFields) =>
                  map[fields[j].key] = IF IsNil(i, j) THEN NilAny ELSE Enc(<<i, j>>)

(* BulkEncryptModels does for the slice what EncryptModel does for each    *)
(* model: the same maps, or it fails too, as long as no two tagged fields  *)
(* share a key and the native calls themselves do not fail.  Nil models    *)
(* are the one difference: an error for EncryptModel, a nil map in bulk.   *)
BulkMatchesSingles ==
    (stage = "encrypted" /\ ~fault /\ Distinct(EncFields)) =>
        CASE bulk.status = "ok" -> \A i \in Present :
                single[i] = [status |-> "ok", map |-> bulk.maps[i]]
          [] bulk.status = "error" -> \E i \in Present : single[i].status = "error"
          [] bulk.status = "panic" -> \E i \in Present : single[i].status \in {"error", "panic"}

Abstract == INSTANCE ModelSpec WITH
    singles <- [i \in DOMAIN models |-> [status |-> single[i].status,
                  map |-> IF single[i].status = "ok" THEN single[i].map ELSE <<>>]],
    whole <- [status |-> bulk.status, maps |-> IF bulk.status = "ok" THEN bulk.maps ELSE <<>>]

(* The loops of EncryptModel and BulkEncryptModels do what ModelSpec says  *)
(* they do in one step each: the same maps whichever fields share keys,    *)
(* and an error or a panic only for the field that was reached, or, in     *)
(* bulk, a panic before and instead of everything else.                    *)
ModelsImplemented == Abstract!Spec
=============================================================================
