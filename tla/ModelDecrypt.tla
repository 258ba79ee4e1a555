--------------------------- MODULE ModelDecrypt ---------------------------
(***************************************************************************)
(* What BulkEncryptModels returned goes into storage and comes back, as    *)
(* JSON or not at all, and is decrypted twice: map by map with             *)
(* DecryptModel, and all at once with BulkDecryptModels (model.go).        *)
(* DecryptModel writes into the caller's struct as it goes;                *)
(* BulkDecryptModels fills a slice of its own and assigns it at the end.   *)
(***************************************************************************)
EXTENDS ModelEncrypt

VARIABLES
    data,       \* the maps to decrypt
    json,       \* whether they went through JSON
    damage,     \* what happened to one value in storage, if anything
    stale,      \* whether the destination structs held values before
    dest,       \* per map, the caller's struct for DecryptModel
    decrypted,  \* per map, how DecryptModel ended
    bulkDest,   \* the caller's slice for BulkDecryptModels
    bulkEnd     \* how BulkDecryptModels ended

vars == <<encryptVars, data, json, damage, stale, dest, decrypted, bulkDest, bulkEnd>>
stored == <<data, json, damage, stale>>

(* What a field can hold besides a model's value: the zero of its type     *)
(* behind a pointer, the text of a Go value (fmt's %v) or what was there   *)
(* before.  A field that is not a pointer has no nil.  The caller's slice  *)
(* is empty before.                                                        *)
Zero == <<0, 1>>
Garbage == <<0, 2>>
Old == <<0, 3>>
NoSlice == <<>>

Damages == {"none", "missing", "undecryptable", "malformed"}
GoValues == ((DOMAIN models) \X (DOMAIN fields)) \cup {Nil, Zero, Garbage, Old}

DecryptTypeOK ==
    /\ TypeOK
    /\ json \in BOOLEAN /\ damage \in Damages /\ stale \in BOOLEAN
    /\ \A i \in DOMAIN data : DOMAIN data[i] \subseteq Keys
    /\ dest \in [DOMAIN data -> [DOMAIN fields -> GoValues]]
    /\ decrypted \in [DOMAIN data -> Statuses]
    /\ bulkDest = NoSlice \/ bulkDest \in [DOMAIN data -> [DOMAIN fields -> GoValues]]
    /\ bulkEnd \in Statuses

DecryptInit ==
    /\ Init
    /\ data = <<>> /\ json = FALSE /\ damage = "none" /\ stale = FALSE
    /\ dest = <<>> /\ decrypted = <<>>
    /\ bulkDest = NoSlice /\ bulkEnd = "running"

(***************************************************************************)
(* Storage.                                                                *)
(***************************************************************************)

(* encoding/json writes what a pointer points to.                          *)
ThroughJson(value) ==
    IF value.tag # "ptr" THEN value
    ELSE IF value.of = Nil THEN NilAny ELSE Raw(value.of)

(* A ciphertext that no longer decrypts, or no longer is one.              *)
Damaged(map, key, how) ==
    IF how = "missing" THEN [k \in DOMAIN map \ {key} |-> map[k]]
    ELSE [map EXCEPT ![key].tag = how]

Fresh == [j \in DOMAIN fields |-> IF fields[j].ptr THEN Nil ELSE Zero]

Store ==
    /\ stage = "encrypted" /\ bulk.status = "ok"
    /\ json' \in BOOLEAN /\ stale' \in BOOLEAN
    /\ LET maps == IF json' THEN [i \in DOMAIN models |->
                            [k \in DOMAIN bulk.maps[i] |-> ThroughJson(bulk.maps[i][k])]]
                   ELSE bulk.maps
       IN  \/ data' = maps /\ damage' = "none"
           \/ /\ damage' \in Damages \ {"none"}
              /\ \E i \in DOMAIN maps : \E k \in DOMAIN maps[i] :
                    /\ damage' # "missing" => maps[i][k].tag = "enc"
                    /\ data' = [maps EXCEPT ![i] = Damaged(@, k, damage')]
    /\ dest' = [i \in DOMAIN models |->
                  IF stale' THEN [j \in DOMAIN fields |-> Old] ELSE Fresh]
    /\ decrypted' = [i \in DOMAIN models |-> "running"]
    /\ stage' = "decrypt"
    /\ m' = 1 /\ f' = 0
    /\ fault' = FALSE
    /\ UNCHANGED <<args, single, bulk, payloads, bulkDest, bulkEnd>>

(***************************************************************************)
(* setFieldValue.                                                          *)
(***************************************************************************)

HasType(field, value) == value.tag = "raw" /\ fields[value.of[2]].base = field.base

(* A nil is skipped.  A value of the field's type is assigned, and for a   *)
(* pointer field something new to point to.  Anything else, Go pointers    *)
(* and the value of another field under the same key included, becomes its *)
(* %v text in a string, and nothing in a number.                           *)
SetField(field, old, value) ==
    CASE value.tag = "nil" -> old
      [] HasType(field, value) -> value.of
      [] value.tag # "nil" /\ ~HasType(field, value) /\ field.base = "string" -> Garbage
      [] value.tag # "nil" /\ ~HasType(field, value) /\ field.base = "number" ->
            (IF field.ptr THEN Zero ELSE old)

WithPlain(struct, map) ==
    [j \in DOMAIN fields |->
        IF j \in PlainFields /\ fields[j].key \in DOMAIN map
        THEN SetField(fields[j], struct[j], map[fields[j].key]) ELSE struct[j]]

(* A tagged field with something to decrypt.                               *)
ToDecrypt(map, j) ==
    j \in EncFields /\ fields[j].key \in DOMAIN map /\ map[fields[j].key].tag # "nil"

(***************************************************************************)
(* DecryptModel, for one map after the other.                              *)
(***************************************************************************)

StartDecrypt ==
    /\ stage = "decrypt" /\ m <= Len(data) /\ f = 0
    /\ dest' = [dest EXCEPT ![m] = WithPlain(@, data[m])]
    /\ f' = 1
    /\ UNCHANGED <<args, stage, m, single, bulk, payloads, fault, stored,
                   decrypted, bulkDest, bulkEnd>>

FinishDecrypt(status) ==
    /\ decrypted' = [decrypted EXCEPT ![m] = status]
    /\ m' = m + 1 /\ f' = 0

(* Mutant: an item that cannot be decrypted is skipped.                    *)
DecryptFieldSkipping ==
    /\ stage = "decrypt" /\ f \in DOMAIN fields
    /\ f' = f + 1
    /\ IF ToDecrypt(data[m], f) /\ data[m][fields[f].key].tag = "enc"
       THEN dest' = [dest EXCEPT
               ![m][f] = SetField(fields[f], @, Raw(data[m][fields[f].key].of))]
       ELSE UNCHANGED dest
    /\ UNCHANGED <<args, stage, m, single, bulk, payloads, fault, stored,
                   decrypted, bulkDest, bulkEnd>>

(* One field: nothing to decrypt, decrypted and set, or toEncrypted or the *)
(* nested Decrypt fails and what was set so far stays.                     *)
DecryptField ==
    /\ stage = "decrypt" /\ f \in DOMAIN fields
    /\ IF ~ToDecrypt(data[m], f)
       THEN f' = f + 1 /\ UNCHANGED <<m, dest, decrypted, fault>>
       ELSE LET value == data[m][fields[f].key]
            IN  \/ /\ value.tag = "enc"
                   /\ dest' = [dest EXCEPT ![m][f] = SetField(fields[f], @, Raw(value.of))]
                   /\ f' = f + 1
                   /\ UNCHANGED <<m, decrypted, fault>>
                \/ /\ FinishDecrypt("error")
                   /\ fault' = (fault \/ value.tag = "enc")
                   /\ UNCHANGED dest
    /\ UNCHANGED <<args, stage, single, bulk, payloads, stored, bulkDest, bulkEnd>>

EndDecrypt ==
    /\ stage = "decrypt" /\ f = Len(fields) + 1
    /\ FinishDecrypt("ok")
    /\ UNCHANGED <<args, stage, single, bulk, payloads, fault, stored, dest,
                   bulkDest, bulkEnd>>

(***************************************************************************)
(* BulkDecryptModels: collect, fill a slice, decrypt, distribute, assign.  *)
(***************************************************************************)

(* Mutant: the position kept is the field's place in the struct, not in    *)
(* the list of encrypted fields it is then looked up in.                   *)
DistributeAtIndex(struct, map) ==
    LET enc == SelectSeq([j \in DOMAIN fields |-> j], LAMBDA j : fields[j].enc)
    IN  [j \in DOMAIN fields |->
            IF \E x \in DOMAIN enc : enc[x] = j /\ ToDecrypt(map, x)
            THEN LET x == CHOOSE x \in DOMAIN enc : enc[x] = j /\ ToDecrypt(map, x)
                 IN  SetField(fields[j], struct[j], Raw(map[fields[x].key].of))
            ELSE struct[j]]

Distribute(struct, map) ==
    [j \in DOMAIN fields |->
        IF ToDecrypt(map, j)
        THEN SetField(fields[j], struct[j], Raw(map[fields[j].key].of)) ELSE struct[j]]

(* Mutant: the caller's slice is assigned before it is decrypted.          *)
BulkDecryptEarly ==
    /\ stage = "decrypt" /\ m = Len(data) + 1
    /\ LET asked == {p \in (DOMAIN data) \X (DOMAIN fields) : ToDecrypt(data[p[1]], p[2])}
           sound == \A p \in asked : data[p[1]][fields[p[2]].key].tag = "enc"
       IN  \/ /\ sound
              /\ bulkDest' = [i \in DOMAIN data |->
                    Distribute(WithPlain(Fresh, data[i]), data[i])]
              /\ bulkEnd' = "ok"
              /\ UNCHANGED fault
           \/ /\ asked # {}
              /\ bulkEnd' = "error"
              /\ fault' = (fault \/ sound)
              /\ bulkDest' = [i \in DOMAIN data |-> WithPlain(Fresh, data[i])]
    /\ stage' = "done"
    /\ UNCHANGED <<args, m, f, single, bulk, payloads, stored, dest, decrypted>>

BulkDecrypt ==
    /\ stage = "decrypt" /\ m = Len(data) + 1
    /\ LET asked == {p \in (DOMAIN data) \X (DOMAIN fields) : ToDecrypt(data[p[1]], p[2])}
           sound == \A p \in asked : data[p[1]][fields[p[2]].key].tag = "enc"
       IN  \/ /\ sound
              /\ bulkDest' = [i \in DOMAIN data |->
                    Distribute(WithPlain(Fresh, data[i]), data[i])]
              /\ bulkEnd' = "ok"
              /\ UNCHANGED fault
           \/ /\ asked # {}
              /\ bulkEnd' = "error"
              /\ fault' = (fault \/ sound)
              /\ UNCHANGED bulkDest
    /\ stage' = "done"
    /\ UNCHANGED <<args, m, f, single, bulk, payloads, stored, dest, decrypted>>

Next ==
    \/ EncryptNext /\ UNCHANGED <<stored, dest, decrypted, bulkDest, bulkEnd>>
    \/ Store
    \/ StartDecrypt
    \/ DecryptField
    \/ EndDecrypt
    \/ BulkDecrypt

Spec == DecryptInit /\ [][Next]_vars

-----------------------------------------------------------------------------
(* Properties.                                                             *)

Original(i, j) == IF models[i][j] = "nil" THEN Nil ELSE <<i, j>>

(* Models come back undamaged, into fresh structs, field for field, nils   *)
(* and pointers included, however nil models and nil fields shift what is  *)
(* sent to the key server, when no two fields share a map key.  Without    *)
(* JSON on the way all do but the plain pointers.                          *)
RoundTrip ==
    (damage = "none" /\ ~stale /\ Distinct(DOMAIN fields)) =>
        \A i \in Present \cap DOMAIN data : \A struct \in
              {x \in {dest[i]} : decrypted[i] = "ok"} \cup
              {x \in {IF bulkDest = NoSlice THEN NoSlice ELSE bulkDest[i]} : bulkEnd = "ok"} :
            \A j \in DOMAIN fields :
                (json \/ fields[j].enc \/ ~fields[j].ptr) => struct[j] = Original(i, j)

(* On maps that were damaged or not, through JSON or not, with keys shared *)
(* or not, BulkDecryptModels gives exactly what DecryptModel gives for     *)
(* each map into a fresh struct, and fails exactly when one of these does, *)
(* unless a native call failed by itself.                                  *)
BulkDecryptMatchesSingles ==
    (stage = "done" /\ ~fault) =>
        /\ bulkEnd = "ok" <=> \A i \in DOMAIN data : decrypted[i] = "ok"
        /\ bulkEnd = "ok" /\ ~stale => bulkDest = dest

(* Where DecryptModel stops, also with an error, the struct holds the new  *)
(* values of a prefix of its tagged fields and the old ones of the rest:   *)
(* no field is cleared or holds another's value.  After an error of        *)
(* BulkDecryptModels the caller's slice is as it was.  And every variable  *)
(* keeps its type.                                                         *)
PrefixFilled ==
    /\ DecryptTypeOK
    /\ stage \in {"decrypt", "done"} => \A i \in DOMAIN data :
          LET old == IF stale THEN [j \in DOMAIN fields |-> Old] ELSE Fresh
              plain == WithPlain(old, data[i])
              full == [j \in DOMAIN fields |->
                         IF ToDecrypt(data[i], j)
                         THEN SetField(fields[j], plain[j], Raw(data[i][fields[j].key].of))
                         ELSE plain[j]]
              upTo == IF i > m \/ (i = m /\ f = 0) THEN {0} ELSE 1..Len(fields) + 1
          IN  \E stop \in upTo :
                /\ decrypted[i] = "ok" => stop = Len(fields) + 1
                /\ \A j \in DOMAIN fields :
                      dest[i][j] = IF j < stop \/ (stop > 0 /\ j \in PlainFields)
                                   THEN full[j] ELSE old[j]
    /\ bulkEnd = "error" => bulkDest = NoSlice

(* README.md, "Fields with a cs tag are encrypted; everything else passes  *)
(* through", and DecryptModel "populates struct from encrypted map": the   *)
(* map of EncryptModel handed to DecryptModel gives the plain fields back. *)
PlainFieldsPassThrough ==
    (~json /\ damage = "none" /\ ~stale /\ Distinct(DOMAIN fields)) =>
        \A i \in Present \cap DOMAIN data : decrypted[i] = "ok" =>
            \A j \in PlainFields : dest[i][j] = Original(i, j)
=============================================================================
