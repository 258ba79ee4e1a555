---------------------------- MODULE ModelsProofs ----------------------------
(***************************************************************************)
(* The model operations (ModelEncrypt, ModelDecrypt), for any struct type, *)
(* any slice of models and any map keys: what is in each map and in each   *)
(* struct at every point of the loops, as functions of the models alone.   *)
(* After them the conversions (Conversions), for floats and integers of    *)
(* any width: what a field's number is at every point of its way, as a     *)
(* function of the one it held first.                                      *)
(***************************************************************************)
EXTENDS MCModels, FiniteSetTheorems, WellFoundedInduction, SequenceTheorems, TLAPS

(* What belongs under the key of a tagged field.                           *)
Sealing(i, j) == IF IsNil(i, j) THEN NilAny ELSE Enc(<<i, j>>)

EncBefore(n) == {j \in EncFields : j < n}
SentBefore(i, n) == {j \in EncBefore(n) : ~IsNil(i, j)}
NilBefore(i, n) == {j \in EncBefore(n) : IsNil(i, j)}
End == Len(fields) + 1

(* EncryptModel's map of model i after the fields before n ...             *)
Filled(i, n) ==
    Over([k \in KeysOf(EncBefore(n)) |-> Sealing(i, LastWith(EncBefore(n), k))], PlainMap(i))

(* ... BulkEncryptModels', before the ciphertexts arrive, and after.       *)
Skeleton(i, n) == Over([k \in KeysOf(NilBefore(i, n)) |-> NilAny], PlainMap(i))
Ciphertexts(i) ==
    [k \in KeysOf(SentBefore(i, End)) |-> Enc(<<i, LastWith(SentBefore(i, End), k)>>)]
BulkMap(i) == Over(Ciphertexts(i), Skeleton(i, End))

(* The values that are to be encrypted, and those collected already.       *)
Asked == {q \in (DOMAIN models) \X (DOMAIN fields) :
             models[q[1]] # NilModel /\ Sent(q[1], q[2])}
Taken == {q \in Asked : q[1] < m \/ (q[1] = m /\ q[2] < f)}
AllKnown == \A q \in Asked : fields[q[2]].known
AllGood == \A q \in Asked : models[q[1]][q[2]] = "good"

Early == stage \in {"single", "collect", "send", "encrypted"}

ShapeInv ==
    /\ DOMAIN models = 1..Len(models) /\ Len(models) \in Nat
    /\ single = [i \in DOMAIN models |-> [status |-> single[i].status, map |-> single[i].map]]
    /\ bulk = [status |-> bulk.status, maps |-> bulk.maps]
    /\ bulk.maps = [i \in DOMAIN models |-> bulk.maps[i]]
    /\ payloads \in Seq(Asked)

(* How EncryptModel ended for each model, and why.                         *)
SingleInv ==
    /\ \A i \in DOMAIN models :
          /\ single[i].status = "running" <=> stage = "single" /\ i >= m
          /\ single[i].status = "ok" =>
                /\ models[i] # NilModel /\ single[i].map = Filled(i, End)
                /\ \A j \in SentBefore(i, End) : fields[j].known /\ models[i][j] = "good"
          /\ single[i].status = "error" /\ Early /\ ~fault =>
                models[i] = NilModel \/ \E j \in SentBefore(i, End) : models[i][j] # "good"
          /\ single[i].status = "panic" => \E j \in SentBefore(i, End) : ~fields[j].known
    /\ stage = "single" /\ f > 0 =>
          /\ m \in DOMAIN models /\ models[m] # NilModel /\ single[m].map = Filled(m, f)
          /\ \A j \in SentBefore(m, f) : fields[j].known /\ models[m][j] = "good"

(* Where BulkEncryptModels is, and how it ended.                           *)
BulkInv ==
    /\ bulk.status = "running" <=> stage \in {"single", "collect", "send"}
    /\ stage = "single" => payloads = <<>>
    /\ stage \in {"collect", "send"} =>
          /\ {payloads[p] : p \in DOMAIN payloads} = Taken
          /\ \A q \in Taken : fields[q[2]].known
          /\ \A i \in Present : i < m => bulk.maps[i] = Skeleton(i, End)
    /\ stage = "collect" /\ f > 0 => m \in Present /\ bulk.maps[m] = Skeleton(m, f)
    /\ stage = "send" => m = Len(models) + 1 /\ f = 0
    /\ bulk.status = "ok" => AllKnown /\ AllGood /\ \A i \in Present : bulk.maps[i] = BulkMap(i)
    /\ bulk.status = "error" /\ Early /\ ~fault => AllKnown /\ ~AllGood
    /\ bulk.status = "panic" => ~AllKnown
    /\ bulk.status # "ok" => stage \notin {"decrypt", "done"}

EncryptIInv == TypeOK /\ ShapeInv /\ SingleInv /\ BulkInv

(* ModelDecrypt: the struct a map is decrypted into, after the plain       *)
(* fields, after the tagged ones before n, and at the end.                 *)
Before == IF stale THEN [j \in DOMAIN fields |-> Old] ELSE Fresh
Whole(i) == Distribute(WithPlain(Before, data[i]), data[i])
Partial(i, n) ==
    [j \in DOMAIN fields |-> IF j < n \/ (n > 0 /\ j \in PlainFields) THEN Whole(i)[j] ELSE Before[j]]

(* A value that has to be decrypted is still a ciphertext.                 *)
SoundMap(i) == \A j \in DOMAIN fields :
                  ToDecrypt(data[i], j) => data[i][fields[j].key].tag = "enc"

DataInv ==
    /\ stage \in {"decrypt", "done"} =>
          /\ DOMAIN data = DOMAIN models /\ data \in Seq({data[i] : i \in DOMAIN data})
          /\ Len(data) = Len(models)
    /\ \A i \in DOMAIN data : \A k \in DOMAIN data[i] :
          data[i][k] \in [tag : {"nil", "raw", "ptr", "enc", "undecryptable", "malformed"},
                          of : ((DOMAIN models) \X (DOMAIN fields)) \cup {Nil}]
    /\ damage = "none" /\ stage \in {"decrypt", "done"} =>
          \A i \in DOMAIN models :
              /\ DOMAIN data[i] = DOMAIN bulk.maps[i]
              /\ \A k \in DOMAIN data[i] :
                    data[i][k] = IF json THEN ThroughJson(bulk.maps[i][k]) ELSE bulk.maps[i][k]

(* How far DecryptModel got with each map, and why not further.            *)
DestInv ==
    /\ stage \in {"decrypt", "done"} => \A i \in DOMAIN data :
          /\ decrypted[i] \in {"running", "ok", "error"}
          /\ decrypted[i] = "running" <=> i >= m
          /\ i > m => dest[i] = Partial(i, 0)
          /\ i = m => dest[i] = Partial(i, f)
          /\ decrypted[i] = "ok" => dest[i] = Partial(i, End) /\ SoundMap(i)
          /\ decrypted[i] = "error" =>
                \E stop \in 1..End : dest[i] = Partial(i, stop)
          /\ decrypted[i] = "error" /\ ~fault => ~SoundMap(i)
    /\ stage = "decrypt" /\ f > 0 =>
          /\ m \in DOMAIN data
          /\ \A j \in DOMAIN fields : j < f /\ ToDecrypt(data[m], j) =>
                data[m][fields[j].key].tag = "enc"
    /\ stage = "done" => m = Len(data) + 1
    /\ stage \notin {"decrypt", "done"} => data = <<>>

BulkDestInv ==
    /\ bulkEnd \in {"running", "ok", "error"}
    /\ bulkEnd = "running" <=> stage # "done"
    /\ bulkEnd # "ok" => bulkDest = NoSlice
    /\ bulkEnd = "ok" =>
          /\ bulkDest = [i \in DOMAIN data |-> Distribute(WithPlain(Fresh, data[i]), data[i])]
          /\ \A i \in DOMAIN data : SoundMap(i)
    /\ bulkEnd = "error" /\ ~fault => \E i \in DOMAIN data : ~SoundMap(i)

IInv == EncryptIInv /\ DecryptTypeOK /\ DataInv /\ DestInv /\ BulkDestInv

-----------------------------------------------------------------------------
(* Maps by key.                                                            *)

(* The highest of several places.                                          *)
LEMMA Highest ==
    ASSUME NEW k \in Nat, NEW S \in SUBSET (1..k), S # {}
    PROVE  \E x \in S : \A y \in S : y <= x
<1> DEFINE flipped == {k - x : x \in S}
<1>1. flipped \in SUBSET Nat /\ flipped # {}
  <2>1. \A x \in S : k - x \in Nat
    OBVIOUS
  <2> QED
    BY <2>1
<1>2. \E low \in flipped : \A z \in flipped : <<z, low>> \notin OpToRel(<, Nat)
  <2> HIDE DEF flipped
  <2> QED
    BY <1>1, NatLessThanWellFounded, WFMin, Zenon
<1>3. \A a, b \in Nat : <<a, b>> \notin OpToRel(<, Nat) => b <= a
  BY DEF OpToRel
<1>4. PICK low \in flipped : \A z \in flipped : low <= z
  <2> HIDE DEF flipped
  <2> QED
    BY <1>1, <1>2, <1>3, Zenon
<1>5. PICK x \in S : low = k - x
  OBVIOUS
<1>6. \A y \in S : y <= x
  <2> TAKE y \in S
  <2>1. low <= k - y
    BY <1>4
  <2> QED
    BY <1>5, <2>1
<1> QED
  BY <1>6

(* Of several fields with one key the last counts.                         *)
LEMMA LastWithIs ==
    ASSUME fields \in Seq(Fields), NEW js \in SUBSET DOMAIN fields, NEW k \in KeysOf(js)
    PROVE  /\ LastWith(js, k) \in js /\ fields[LastWith(js, k)].key = k
           /\ \A x \in js : fields[x].key = k => x <= LastWith(js, k)
<1> DEFINE those == {j \in js : fields[j].key = k}
<1>1. those \in SUBSET (1..Len(fields)) /\ those # {} /\ Len(fields) \in Nat
  BY DEF KeysOf
<1>2. PICK j \in those : \A x \in those : x <= j
  <2> HIDE DEF those
  <2> QED
    BY <1>1, Highest
<1>3. j \in js /\ fields[j].key = k /\ \A x \in js : fields[x].key = k => x <= j
  BY <1>2
<1> QED
  BY <1>3 DEF LastWith

LEMMA LastWithThis ==
    ASSUME fields \in Seq(Fields), NEW js \in SUBSET DOMAIN fields, NEW j \in js,
           \A x \in js : fields[x].key = fields[j].key => x <= j
    PROVE  LastWith(js, fields[j].key) = j
<1> DEFINE k == fields[j].key
           last == LastWith(js, k)
<1>1. k \in KeysOf(js)
  BY DEF KeysOf
<1>2. last \in js /\ fields[last].key = k /\ j <= last
  BY <1>1, LastWithIs
<1>3. last <= j
  BY <1>2
<1> HIDE DEF last
<1>4. last \in Int /\ j \in Int
  BY <1>2
<1> QED
  BY <1>2, <1>3, <1>4 DEF last

LEMMA WithOneMore ==
    ASSUME fields \in Seq(Fields), NEW js \in SUBSET DOMAIN fields, NEW n \in DOMAIN fields,
           \A x \in js : x < n
    PROVE  /\ KeysOf(js \cup {n}) = KeysOf(js) \cup {fields[n].key}
           /\ LastWith(js \cup {n}, fields[n].key) = n
           /\ \A k \in KeysOf(js) : k # fields[n].key => LastWith(js \cup {n}, k) = LastWith(js, k)
<1> DEFINE more == js \cup {n}
<1>1. KeysOf(more) = KeysOf(js) \cup {fields[n].key}
  BY DEF KeysOf
<1>2. LastWith(more, fields[n].key) = n
  <2>1. n \in more /\ more \in SUBSET DOMAIN fields
    OBVIOUS
  <2>2. \A x \in more : x <= n
    OBVIOUS
  <2> HIDE DEF more
  <2> QED
    BY <2>1, <2>2, LastWithThis
<1>3. ASSUME NEW k \in KeysOf(js), k # fields[n].key
      PROVE  LastWith(more, k) = LastWith(js, k)
  <2> DEFINE last == LastWith(js, k)
  <2>1. last \in js /\ fields[last].key = k /\ \A x \in js : fields[x].key = k => x <= last
    BY LastWithIs
  <2> HIDE DEF last
  <2>2. last \in more /\ more \in SUBSET DOMAIN fields
    BY <2>1
  <2>3. \A x \in more : fields[x].key = fields[last].key => x <= last
    BY <1>3, <2>1
  <2> HIDE DEF more
  <2>4. LastWith(more, fields[last].key) = last
    BY <2>2, <2>3, LastWithThis
  <2> QED
    BY <2>1, <2>4 DEF last
<1> QED
  BY <1>1, <1>2, <1>3

LEMMA PlainKeys ==
    \A i : DOMAIN PlainMap(i) = KeysOf(PlainFields)
BY DEF PlainMap

(* One more field in EncryptModel's map.                                   *)
LEMMA FilledNext ==
    ASSUME fields \in Seq(Fields), NEW i, NEW n \in DOMAIN fields
    PROVE  /\ Filled(i, 1) = PlainMap(i)
           /\ ~fields[n].enc => Filled(i, n + 1) = Filled(i, n)
           /\ fields[n].enc => Filled(i, n + 1) = Put(Filled(i, n), fields[n].key, Sealing(i, n))
<1>1. DOMAIN fields = 1..Len(fields) /\ Len(fields) \in Nat
  OBVIOUS
<1>2. Filled(i, 1) = PlainMap(i)
  <2>1. EncBefore(1) = {}
    BY <1>1 DEF EncBefore, EncFields
  <2>2. PlainMap(i) = [k \in KeysOf(PlainFields) |-> PlainMap(i)[k]]
    BY DEF PlainMap
  <2> HIDE DEF Filled
  <2> QED
    BY <2>1, <2>2, PlainKeys DEF Filled, Over, KeysOf
<1>3. ASSUME ~fields[n].enc
      PROVE  Filled(i, n + 1) = Filled(i, n)
  <2>1. EncBefore(n + 1) = EncBefore(n)
    BY <1>1, <1>3 DEF EncBefore, EncFields
  <2> QED
    BY <2>1 DEF Filled
<1>4. ASSUME fields[n].enc
      PROVE  Filled(i, n + 1) = Put(Filled(i, n), fields[n].key, Sealing(i, n))
  <2> DEFINE js == EncBefore(n)
             more == js \cup {n}
             key == fields[n].key
  <2>1. EncBefore(n + 1) = more
    BY <1>1, <1>4 DEF EncBefore, EncFields
  <2>2. js \in SUBSET DOMAIN fields /\ \A x \in js : x < n
    BY DEF EncBefore, EncFields
  <2> HIDE DEF js
  <2>3. /\ KeysOf(more) = KeysOf(js) \cup {key}
        /\ LastWith(more, key) = n
        /\ \A k \in KeysOf(js) : k # key => LastWith(more, k) = LastWith(js, k)
    BY <2>2, WithOneMore
  <2> HIDE DEF more, key
  <2> DEFINE old == [k \in KeysOf(js) |-> Sealing(i, LastWith(js, k))]
             new == [k \in KeysOf(more) |-> Sealing(i, LastWith(more, k))]
             plain == PlainMap(i)
  <2>4. DOMAIN old = KeysOf(js) /\ DOMAIN new = KeysOf(js) \cup {key} /\ new[key] = Sealing(i, n)
    BY <2>3
  <2>5. \A k \in KeysOf(js) : k # key => new[k] = old[k]
    BY <2>3
  <2> HIDE DEF old, new, plain
  <2>6. Over(new, plain) = Put(Over(old, plain), key, Sealing(i, n))
    <3>1. DOMAIN Over(new, plain) = DOMAIN Over(old, plain) \cup {key}
      BY <2>4 DEF Over
    <3>2. \A k \in DOMAIN Over(new, plain) : Over(new, plain)[k] =
              IF k = key THEN Sealing(i, n) ELSE Over(old, plain)[k]
      BY <2>4, <2>5 DEF Over
    <3>3. Over(new, plain) = [k \in DOMAIN Over(new, plain) |-> Over(new, plain)[k]]
      BY DEF Over
    <3> HIDE DEF Over
    <3> QED
      BY <3>1, <3>2, <3>3 DEF Put
  <2> QED
    BY <2>1, <2>6 DEF Filled, js, key, old, new, plain
<1> QED
  BY <1>2, <1>3, <1>4

(* One more field in BulkEncryptModels' map.                               *)
LEMMA SkeletonNext ==
    ASSUME fields \in Seq(Fields), NEW i, NEW n \in DOMAIN fields
    PROVE  /\ Skeleton(i, 1) = PlainMap(i)
           /\ ~(fields[n].enc /\ IsNil(i, n)) => Skeleton(i, n + 1) = Skeleton(i, n)
           /\ fields[n].enc /\ IsNil(i, n) =>
                 Skeleton(i, n + 1) = Put(Skeleton(i, n), fields[n].key, NilAny)
<1>1. DOMAIN fields = 1..Len(fields) /\ Len(fields) \in Nat
  OBVIOUS
<1>2. Skeleton(i, 1) = PlainMap(i)
  <2>1. NilBefore(i, 1) = {}
    BY <1>1 DEF NilBefore, EncBefore, EncFields
  <2>2. PlainMap(i) = [k \in KeysOf(PlainFields) |-> PlainMap(i)[k]]
    BY DEF PlainMap
  <2> QED
    BY <2>1, <2>2, PlainKeys DEF Skeleton, Over, KeysOf
<1>3. ASSUME ~(fields[n].enc /\ IsNil(i, n))
      PROVE  Skeleton(i, n + 1) = Skeleton(i, n)
  <2>1. NilBefore(i, n + 1) = NilBefore(i, n)
    BY <1>1, <1>3 DEF NilBefore, EncBefore, EncFields
  <2> QED
    BY <2>1 DEF Skeleton
<1>4. ASSUME fields[n].enc, IsNil(i, n)
      PROVE  Skeleton(i, n + 1) = Put(Skeleton(i, n), fields[n].key, NilAny)
  <2> DEFINE js == KeysOf(NilBefore(i, n))
             more == KeysOf(NilBefore(i, n + 1))
             key == fields[n].key
             plain == PlainMap(i)
  <2>1. more = js \cup {key}
    <3>1. NilBefore(i, n + 1) = NilBefore(i, n) \cup {n}
      BY <1>1, <1>4 DEF NilBefore, EncBefore, EncFields
    <3> QED
      BY <3>1 DEF KeysOf
  <2> HIDE DEF js, more, key, plain
  <2>2. Over([k \in more |-> NilAny], plain) = Put(Over([k \in js |-> NilAny], plain), key, NilAny)
    BY <2>1 DEF Over, Put
  <2> QED
    BY <2>2 DEF Skeleton, js, more, key, plain
<1> QED
  BY <1>2, <1>3, <1>4

(* Everything here is a function of the struct type and the models.        *)
LEMMA ArgsSame ==
    ASSUME UNCHANGED args
    PROVE  /\ \A i, n : Filled(i, n)' = Filled(i, n) /\ Skeleton(i, n)' = Skeleton(i, n)
           /\ \A i, n : SentBefore(i, n)' = SentBefore(i, n)
           /\ \A i : BulkMap(i)' = BulkMap(i) /\ Ciphertexts(i)' = Ciphertexts(i)
           /\ End' = End /\ Asked' = Asked /\ Present' = Present
           /\ AllKnown' = AllKnown /\ AllGood' = AllGood
           /\ EncFields' = EncFields /\ PlainFields' = PlainFields
<1>1. fields' = fields /\ models' = models
  BY DEF args
<1>2. \A i, n : /\ EncBefore(n)' = EncBefore(n) /\ SentBefore(i, n)' = SentBefore(i, n)
                /\ NilBefore(i, n)' = NilBefore(i, n) /\ PlainMap(i)' = PlainMap(i)
                /\ Sealing(i, n)' = Sealing(i, n)
  BY <1>1 DEF EncBefore, SentBefore, NilBefore, EncFields, IsNil, PlainMap, PlainValue, PlainFields,
     KeysOf, LastWith, Sealing
<1>3. \A js, k : KeysOf(js)' = KeysOf(js) /\ LastWith(js, k)' = LastWith(js, k)
  BY <1>1 DEF KeysOf, LastWith
<1>4. \A i, n : Filled(i, n)' = Filled(i, n) /\ Skeleton(i, n)' = Skeleton(i, n)
  BY <1>1 DEF Filled, Skeleton, EncBefore, NilBefore, EncFields, IsNil, PlainMap, PlainValue,
     PlainFields, KeysOf, LastWith, Sealing, Over
<1>5. \A i : Ciphertexts(i)' = Ciphertexts(i) /\ BulkMap(i)' = BulkMap(i)
  BY <1>1, <1>4 DEF Ciphertexts, BulkMap, Skeleton, SentBefore, NilBefore, EncBefore, EncFields,
     IsNil, PlainMap, PlainValue, PlainFields, KeysOf, LastWith, End, Over
<1>6. /\ End' = End /\ Asked' = Asked /\ Present' = Present
      /\ EncFields' = EncFields /\ PlainFields' = PlainFields
  BY <1>1 DEF End, Asked, Sent, IsNil, Present, EncFields, PlainFields
<1>7. AllKnown' = AllKnown /\ AllGood' = AllGood
  BY <1>1, <1>6 DEF AllKnown, AllGood
<1> QED
  BY <1>2, <1>4, <1>5, <1>6, <1>7

Entries == [tag : {"nil", "raw", "ptr", "enc"}, of : ((DOMAIN models) \X (DOMAIN fields)) \cup {Nil}]

LEMMA FieldTyped ==
    ASSUME fields \in Seq(Fields), NEW j \in DOMAIN fields
    PROVE  /\ fields[j].enc \in BOOLEAN /\ fields[j].known \in BOOLEAN /\ fields[j].ptr \in BOOLEAN
           /\ fields[j].key \in Keys /\ fields[j].base \in {"string", "number"}
BY ModelAssumption DEF Field

LEMMA PlainIsMap ==
    ASSUME fields \in Seq(Fields), NEW i \in DOMAIN models
    PROVE  IsMap(PlainMap(i))
<1>1. DOMAIN PlainMap(i) \subseteq Keys
  BY FieldTyped DEF PlainMap, KeysOf, PlainFields
<1>2. ASSUME NEW k \in KeysOf(PlainFields)
      PROVE  PlainMap(i)[k] \in Entries
  <2>1. LastWith(PlainFields, k) \in DOMAIN fields
    BY LastWithIs DEF PlainFields
  <2>2. \A j \in DOMAIN fields : PlainValue(i, j) \in Entries
    BY DEF PlainValue, Raw, Ptr, Entries
  <2> QED
    BY <1>2, <2>1, <2>2 DEF PlainMap
<1> QED
  BY <1>1, <1>2, PlainKeys DEF IsMap, Entries

LEMMA PutIsMap ==
    ASSUME NEW map, IsMap(map), NEW k \in Keys, NEW x \in Entries
    PROVE  IsMap(Put(map, k, x))
BY DEF IsMap, Put, Entries

LEMMA OverIsMap ==
    ASSUME NEW top, NEW map, IsMap(top), IsMap(map)
    PROVE  IsMap(Over(top, map))
BY DEF IsMap, Over

LEMMA SealingTyped ==
    ASSUME NEW i \in DOMAIN models, NEW j \in DOMAIN fields
    PROVE  Sealing(i, j) \in Entries /\ NilAny \in Entries
BY DEF Sealing, Entries, NilAny, Enc

LEMMA CiphertextsAreMap ==
    ASSUME fields \in Seq(Fields), NEW i \in DOMAIN models, NEW js \in SUBSET DOMAIN fields
    PROVE  IsMap([k \in KeysOf(js) |-> Enc(<<i, LastWith(js, k)>>)])
<1>1. KeysOf(js) \subseteq Keys
  BY FieldTyped DEF KeysOf
<1>2. \A k \in KeysOf(js) : LastWith(js, k) \in DOMAIN fields
  BY LastWithIs
<1>3. \A j \in DOMAIN fields : Enc(<<i, j>>) \in Entries
  BY DEF Enc, Entries
<1> QED
  BY <1>1, <1>2, <1>3 DEF IsMap, Entries

-----------------------------------------------------------------------------
(* EncryptModel.                                                           *)

LEMMA Basics ==
    ASSUME EncryptIInv
    PROVE  /\ fields \in Seq(Fields) /\ Len(fields) \in Nat /\ DOMAIN fields = 1..Len(fields)
           /\ End = Len(fields) + 1 /\ Len(models) \in Nat /\ DOMAIN models = 1..Len(models)
           /\ m \in 1..Len(models) + 1 /\ f \in 0..End /\ fault \in BOOLEAN
BY DEF EncryptIInv, TypeOK, ShapeInv, End

LEMMA SinglesStay ==
    ASSUME EncryptIInv, stage # "single", stage' # "single", UNCHANGED <<args, single>>,
           Early' /\ ~fault' => Early /\ ~fault
    PROVE  SingleInv'
<1>1. fields' = fields /\ models' = models /\ single' = single
  BY DEF args
<1>2. \A i \in DOMAIN models :
          /\ single[i].status # "running"
          /\ single[i].status = "ok" =>
                /\ models[i] # NilModel /\ single[i].map = Filled(i, End)
                /\ \A j \in SentBefore(i, End) : fields[j].known /\ models[i][j] = "good"
          /\ single[i].status = "error" /\ Early' /\ ~fault' =>
                models[i] = NilModel \/ \E j \in SentBefore(i, End) : models[i][j] # "good"
          /\ single[i].status = "panic" => \E j \in SentBefore(i, End) : ~fields[j].known
  BY DEF EncryptIInv, SingleInv
<1>3. /\ \A i, n : Filled(i, n)' = Filled(i, n) /\ SentBefore(i, n)' = SentBefore(i, n)
      /\ End' = End
  BY ArgsSame
<1>4. \A i : Filled(i, End)' = Filled(i, End) /\ SentBefore(i, End)' = SentBefore(i, End)
  BY <1>1, <1>3
<1> QED
  BY <1>1, <1>2, <1>4 DEF SingleInv

(* The bulk operation has not begun.                                       *)
LEMMA BulkWaits ==
    ASSUME EncryptIInv, stage = "single", stage' = "single",
           UNCHANGED <<args, bulk, payloads>>
    PROVE  BulkInv'
BY DEF EncryptIInv, BulkInv

LEMMA SingleDone ==
    ASSUME EncryptIInv, stage = "single", m \in DOMAIN models,
           NEW st \in {"ok", "error", "panic"}, NEW mp, IsMap(mp), FinishSingle(st, mp),
           UNCHANGED <<args, stage, bulk, payloads>>, fault' \in BOOLEAN, fault => fault',
           st = "ok" =>
              /\ models[m] # NilModel /\ mp = Filled(m, End)
              /\ \A j \in SentBefore(m, End) : fields[j].known /\ models[m][j] = "good",
           st = "error" /\ ~fault' =>
              models[m] = NilModel \/ \E j \in SentBefore(m, End) : models[m][j] # "good",
           st = "panic" => \E j \in SentBefore(m, End) : ~fields[j].known
    PROVE  EncryptIInv'
<1>1. /\ single' = [single EXCEPT ![m] = [status |-> st, map |-> mp]] /\ m' = m + 1 /\ f' = 0
      /\ fields' = fields /\ models' = models
  BY DEF FinishSingle, args
<1>2. /\ single'[m].status = st /\ single'[m].map = mp
      /\ \A i \in DOMAIN models : i # m => single'[i] = single[i]
      /\ single' = [i \in DOMAIN models |-> [status |-> single'[i].status, map |-> single'[i].map]]
  BY <1>1 DEF EncryptIInv, ShapeInv
<1>3. TypeOK'
  <2>1. \A i \in DOMAIN models : single'[i].status \in Statuses /\ IsMap(single'[i].map)
    BY <1>2 DEF EncryptIInv, TypeOK, Statuses
  <2>2. \A i \in DOMAIN models : IsMap(single[i].map)'
    BY <1>1, <2>1 DEF IsMap
  <2>3. \A i \in DOMAIN models : IsMap(bulk.maps[i])'
    BY <1>1 DEF EncryptIInv, TypeOK, IsMap
  <2>4. m' \in 1..Len(models) + 1 /\ f' \in 0..Len(fields) + 1
    BY <1>1, Basics
  <2>5. \A i \in DOMAIN models : models'[i] = NilModel \/ Fits(models[i])'
    BY <1>1 DEF EncryptIInv, TypeOK, Fits
  <2> QED
    BY <1>1, <2>1, <2>2, <2>3, <2>4, <2>5 DEF EncryptIInv, TypeOK
<1>4. ShapeInv'
  <2>1. Asked' = Asked
    BY ArgsSame
  <2> QED
    BY <1>1, <1>2, <2>1 DEF EncryptIInv, ShapeInv
<1>5. SingleInv'
  <2>1. \A i \in DOMAIN models : i # m =>
          /\ single[i].status = "running" <=> i >= m
          /\ single[i].status = "ok" =>
                /\ models[i] # NilModel /\ single[i].map = Filled(i, End)
                /\ \A j \in SentBefore(i, End) : fields[j].known /\ models[i][j] = "good"
          /\ single[i].status = "error" /\ ~fault =>
                models[i] = NilModel \/ \E j \in SentBefore(i, End) : models[i][j] # "good"
          /\ single[i].status = "panic" => \E j \in SentBefore(i, End) : ~fields[j].known
    BY DEF EncryptIInv, SingleInv, Early
  <2>2. \A i \in DOMAIN models :
          /\ single'[i].status = "running" <=> i >= m + 1
          /\ single'[i].status = "ok" =>
                /\ models[i] # NilModel /\ single'[i].map = Filled(i, End)
                /\ \A j \in SentBefore(i, End) : fields[j].known /\ models[i][j] = "good"
          /\ single'[i].status = "error" /\ ~fault' =>
                models[i] = NilModel \/ \E j \in SentBefore(i, End) : models[i][j] # "good"
          /\ single'[i].status = "panic" => \E j \in SentBefore(i, End) : ~fields[j].known
    <3> TAKE i \in DOMAIN models
    <3>1. i \in Int /\ m \in Int
      BY Basics
    <3>2. CASE i = m
      BY <1>2, <3>1, <3>2
    <3>3. CASE i # m
      BY <1>2, <2>1, <3>1, <3>3
    <3> QED
      BY <3>2, <3>3
  <2>3. \A i : Filled(i, End)' = Filled(i, End) /\ SentBefore(i, End)' = SentBefore(i, End)
    BY <1>1, ArgsSame
  <2> QED
    BY <1>1, <2>2, <2>3 DEF SingleInv
<1>6. BulkInv'
  BY BulkWaits
<1> QED
  BY <1>3, <1>4, <1>5, <1>6 DEF EncryptIInv

LEMMA SingleGoes ==
    ASSUME EncryptIInv, stage = "single", m \in DOMAIN models, models[m] # NilModel,
           NEW mp, IsMap(mp), single' = [single EXCEPT ![m].map = mp],
           UNCHANGED <<args, stage, m, bulk, payloads, fault>>, f' \in 1..End,
           mp = Filled(m, f'),
           \A j \in SentBefore(m, f') : fields[j].known /\ models[m][j] = "good"
    PROVE  EncryptIInv'
<1>1. fields' = fields /\ models' = models /\ bulk' = bulk /\ m' = m /\ stage' = stage
      /\ fault' = fault /\ payloads' = payloads
  BY DEF args
<1>2. /\ single'[m].status = single[m].status /\ single'[m].map = mp
      /\ \A i \in DOMAIN models : i # m => single'[i] = single[i]
      /\ single' = [i \in DOMAIN models |-> [status |-> single'[i].status, map |-> single'[i].map]]
  <2> DEFINE st == [i \in DOMAIN models |-> single[i].status]
             mps == [i \in DOMAIN models |-> single[i].map]
  <2>1. single = [i \in DOMAIN models |-> [status |-> st[i], map |-> mps[i]]]
    BY DEF EncryptIInv, ShapeInv
  <2> HIDE DEF st, mps
  <2>2. single' = [i \in DOMAIN models |->
                      IF i = m THEN [status |-> st[i], map |-> mp] ELSE single[i]]
    BY <2>1
  <2> QED
    BY <2>1, <2>2
<1>3. TypeOK'
  <2>1. \A i \in DOMAIN models : single'[i].status \in Statuses /\ IsMap(single'[i].map)
    BY <1>2 DEF EncryptIInv, TypeOK
  <2>2. \A i \in DOMAIN models : IsMap(single[i].map)'
    BY <1>1, <2>1 DEF IsMap
  <2>3. \A i \in DOMAIN models : IsMap(bulk.maps[i])'
    BY <1>1 DEF EncryptIInv, TypeOK, IsMap
  <2>4. f' \in 0..Len(fields) + 1
    BY Basics
  <2>5. \A i \in DOMAIN models : models'[i] = NilModel \/ Fits(models[i])'
    BY <1>1 DEF EncryptIInv, TypeOK, Fits
  <2> QED
    BY <1>1, <2>1, <2>2, <2>3, <2>4, <2>5 DEF EncryptIInv, TypeOK
<1>4. ShapeInv'
  <2>1. Asked' = Asked
    BY ArgsSame
  <2> QED
    BY <1>1, <1>2, <2>1 DEF EncryptIInv, ShapeInv
<1>5. SingleInv'
  <2>1. single[m].status = "running"
    BY Basics DEF EncryptIInv, SingleInv
  <2>2. \A i \in DOMAIN models :
          /\ single'[i].status = "running" <=> i >= m
          /\ single'[i].status = "ok" =>
                /\ models[i] # NilModel /\ single'[i].map = Filled(i, End)
                /\ \A j \in SentBefore(i, End) : fields[j].known /\ models[i][j] = "good"
          /\ single'[i].status = "error" /\ ~fault =>
                models[i] = NilModel \/ \E j \in SentBefore(i, End) : models[i][j] # "good"
          /\ single'[i].status = "panic" => \E j \in SentBefore(i, End) : ~fields[j].known
    <3> TAKE i \in DOMAIN models
    <3>1. i \in Int /\ m \in Int
      BY Basics
    <3>2. CASE i = m
      BY <1>2, <2>1, <3>1, <3>2
    <3>3. CASE i # m
      BY <1>2, <3>1, <3>3 DEF EncryptIInv, SingleInv, Early
    <3> QED
      BY <3>2, <3>3
  <2>3. \A i : Filled(i, End)' = Filled(i, End) /\ SentBefore(i, End)' = SentBefore(i, End)
    BY <1>1, ArgsSame
  <2>4. Filled(m, f)' = Filled(m, f') /\ SentBefore(m, f)' = SentBefore(m, f')
    BY <1>1, ArgsSame
  <2> QED
    BY <1>1, <1>2, <2>2, <2>3, <2>4 DEF SingleInv
<1>6. BulkInv'
  BY <1>1, BulkWaits
<1> QED
  BY <1>3, <1>4, <1>5, <1>6 DEF EncryptIInv

LEMMA SinglesPreserved ==
    ASSUME EncryptIInv, StartSingle \/ EncryptField \/ EndSingle
    PROVE  EncryptIInv'
<1>1. CASE StartSingle
  <2>1. stage = "single" /\ m \in DOMAIN models /\ f = 0
        /\ UNCHANGED <<args, stage, bulk, payloads, fault>>
    BY <1>1, Basics DEF StartSingle
  <2>2. CASE models[m] = NilModel /\ FinishSingle("error", <<>>)
    <3>1. IsMap(<<>>)
      BY DEF IsMap
    <3> QED
      BY <2>1, <2>2, <3>1, Basics, SingleDone
  <2>3. CASE models[m] # NilModel /\ single' = [single EXCEPT ![m].map = PlainMap(m)]
             /\ f' = 1 /\ m' = m
    <3>1. IsMap(PlainMap(m)) /\ 1 \in 1..End
      BY <2>1, Basics, PlainIsMap
    <3>2. PlainMap(m) = Filled(m, 1) /\ SentBefore(m, 1) = {}
      <4>1. EncBefore(1) = {}
        BY Basics DEF EncBefore, EncFields
      <4>2. PlainMap(m) = [k \in KeysOf(PlainFields) |-> PlainMap(m)[k]]
        BY DEF PlainMap
      <4> QED
        BY <4>1, <4>2, PlainKeys DEF Filled, Over, KeysOf, SentBefore
    <3> QED
      BY <2>1, <2>3, <3>1, <3>2, SingleGoes
  <2> QED
    BY <1>1, <2>2, <2>3 DEF StartSingle
<1>2. CASE EncryptField
  <2>1. stage = "single" /\ f \in DOMAIN fields /\ UNCHANGED <<args, stage, bulk, payloads>>
    BY <1>2 DEF EncryptField
  <2>2. /\ m \in DOMAIN models /\ models[m] # NilModel /\ single[m].map = Filled(m, f)
        /\ \A j \in SentBefore(m, f) : fields[j].known /\ models[m][j] = "good"
    BY <2>1, Basics DEF EncryptIInv, SingleInv
  <2>3. IsMap(Filled(m, f)) /\ f + 1 \in 1..End /\ fields[f].key \in Keys
    BY <2>1, <2>2, Basics, FieldTyped DEF EncryptIInv, TypeOK
  <2>4. /\ ~fields[f].enc => Filled(m, f + 1) = Filled(m, f)
        /\ fields[f].enc => Filled(m, f + 1) = Put(Filled(m, f), fields[f].key, Sealing(m, f))
    BY <2>1, Basics, FilledNext
  <2>5. /\ ~Sent(m, f) => SentBefore(m, f + 1) = SentBefore(m, f)
        /\ Sent(m, f) => SentBefore(m, f + 1) = SentBefore(m, f) \cup {f}
        /\ Sent(m, f) => f \in SentBefore(m, End)
    BY <2>1, Basics DEF SentBefore, EncBefore, EncFields, Sent
  <2>6. CASE ~fields[f].enc
    <3>1. f' = f + 1 /\ m' = m /\ single' = single /\ fault' = fault
      BY <1>2, <2>6 DEF EncryptField
    <3>2. single' = [single EXCEPT ![m].map = Filled(m, f)]
      <4> DEFINE st == [i \in DOMAIN models |-> single[i].status]
                 mps == [i \in DOMAIN models |-> single[i].map]
      <4>1. single = [i \in DOMAIN models |-> [status |-> st[i], map |-> mps[i]]]
            /\ mps[m] = Filled(m, f)
        BY <2>2 DEF EncryptIInv, ShapeInv
      <4> HIDE DEF st, mps
      <4>2. [single EXCEPT ![m].map = Filled(m, f)] = single
        BY <2>2, <4>1
      <4> QED
        BY <3>1, <4>2
    <3>3. SentBefore(m, f + 1) = SentBefore(m, f)
      BY <2>5, <2>6 DEF Sent
    <3> QED
      BY <2>1, <2>2, <2>3, <2>4, <2>6, <3>1, <3>2, <3>3, SingleGoes
  <2>7. CASE fields[f].enc /\ IsNil(m, f)
    <3>1. PutSingle(fields[f].key, NilAny) /\ fault' = fault
      BY <1>2, <2>7 DEF EncryptField
    <3> DEFINE mp == Put(Filled(m, f), fields[f].key, NilAny)
    <3>2. f' = f + 1 /\ m' = m /\ single' = [single EXCEPT ![m].map = mp]
      BY <2>2, <3>1 DEF PutSingle
    <3>3. mp = Filled(m, f + 1) /\ SentBefore(m, f + 1) = SentBefore(m, f)
      BY <2>4, <2>5, <2>7 DEF Sealing, Sent
    <3>4. IsMap(mp)
      BY <2>1, <2>2, <2>3, SealingTyped, PutIsMap
    <3> HIDE DEF mp
    <3> QED
      BY <2>1, <2>2, <2>3, <3>1, <3>2, <3>3, <3>4, SingleGoes
  <2>8. CASE fields[f].enc /\ ~IsNil(m, f) /\ ~fields[f].known
    <3>1. FinishSingle("panic", <<>>) /\ fault' = fault
      BY <1>2, <2>8 DEF EncryptField
    <3>2. IsMap(<<>>)
      BY DEF IsMap
    <3>3. \E j \in SentBefore(m, End) : ~fields[j].known
      BY <2>5, <2>8 DEF Sent
    <3> QED
      BY <2>1, <2>2, <3>1, <3>2, <3>3, Basics, SingleDone
  <2>9. CASE fields[f].enc /\ ~IsNil(m, f) /\ fields[f].known /\ models[m][f] = "good"
             /\ PutSingle(fields[f].key, Enc(<<m, f>>)) /\ fault' = fault
    <3> DEFINE mp == Put(Filled(m, f), fields[f].key, Enc(<<m, f>>))
    <3>1. f' = f + 1 /\ m' = m /\ single' = [single EXCEPT ![m].map = mp]
      BY <2>2, <2>9 DEF PutSingle
    <3>2. Sealing(m, f) = Enc(<<m, f>>)
      BY <2>9 DEF Sealing
    <3>3. mp = Filled(m, f + 1)
      BY <2>4, <2>9, <3>2
    <3>4. \A j \in SentBefore(m, f + 1) : fields[j].known /\ models[m][j] = "good"
      BY <2>2, <2>5, <2>9 DEF Sent
    <3>5. IsMap(mp)
      <4>1. Enc(<<m, f>>) \in Entries
        BY <2>1, <2>2, <3>2, SealingTyped
      <4> QED
        BY <2>3, <4>1, PutIsMap
    <3> HIDE DEF mp
    <3> QED
      BY <2>1, <2>2, <2>3, <2>9, <3>1, <3>3, <3>4, <3>5, SingleGoes
  <2>10. CASE fields[f].enc /\ ~IsNil(m, f) /\ fields[f].known /\ FinishSingle("error", <<>>)
              /\ fault' = (fault \/ models[m][f] = "good")
    <3>1. IsMap(<<>>)
      BY DEF IsMap
    <3>2. f \in SentBefore(m, End)
      BY <2>5, <2>10 DEF Sent
    <3>3. fault' \in BOOLEAN /\ (fault => fault') /\ (~fault' => models[m][f] # "good")
      BY <2>10, Basics
    <3>4. ~fault' => models[m] = NilModel \/ \E j \in SentBefore(m, End) : models[m][j] # "good"
      BY <3>2, <3>3
    <3> QED
      BY <2>1, <2>2, <2>10, <3>1, <3>3, <3>4, SingleDone
  <2> QED
    BY <1>2, <2>6, <2>7, <2>8, <2>9, <2>10 DEF EncryptField
<1>3. CASE EndSingle
  <2>1. stage = "single" /\ f = End /\ FinishSingle("ok", single[m].map)
        /\ UNCHANGED <<args, stage, bulk, payloads, fault>>
    BY <1>3, Basics DEF EndSingle
  <2>2. /\ m \in DOMAIN models /\ models[m] # NilModel /\ single[m].map = Filled(m, End)
        /\ \A j \in SentBefore(m, End) : fields[j].known /\ models[m][j] = "good"
    <3>1. f > 0
      BY <2>1, Basics
    <3> QED
      BY <2>1, <3>1 DEF EncryptIInv, SingleInv
  <2>3. IsMap(single[m].map)
    BY <2>2 DEF EncryptIInv, TypeOK
  <2> QED
    BY <2>1, <2>2, <2>3, Basics, SingleDone
<1> QED
  BY <1>1, <1>2, <1>3

LEMMA StartBulkPreserved ==
    ASSUME EncryptIInv, StartBulk
    PROVE  EncryptIInv'
<1>1. /\ stage = "single" /\ m = Len(models) + 1 /\ f = 0
      /\ stage' = "collect" /\ m' = 1 /\ f' = 0
      /\ fields' = fields /\ models' = models /\ UNCHANGED <<single, bulk, payloads, fault>>
  <2>1. f > 0 => m \in 1..Len(models)
    BY Basics DEF StartBulk, EncryptIInv, SingleInv
  <2> QED
    BY <2>1, Basics DEF StartBulk, args
<1>2. TypeOK'
  <2>1. \A i \in DOMAIN models : IsMap(single[i].map)' /\ IsMap(bulk.maps[i])'
    BY <1>1 DEF EncryptIInv, TypeOK, IsMap
  <2>2. \A i \in DOMAIN models : models'[i] = NilModel \/ Fits(models[i])'
    BY <1>1 DEF EncryptIInv, TypeOK, Fits
  <2> QED
    BY <1>1, <2>1, <2>2, Basics DEF EncryptIInv, TypeOK
<1>3. UNCHANGED args
  BY <1>1 DEF args
<1>4. ShapeInv'
  <2>1. Asked' = Asked
    BY <1>3, ArgsSame
  <2> QED
    BY <1>1, <2>1 DEF EncryptIInv, ShapeInv
<1>5. SingleInv'
  <2>1. \A i : Filled(i, End)' = Filled(i, End) /\ SentBefore(i, End)' = SentBefore(i, End)
    BY <1>3, ArgsSame
  <2>2. \A i \in DOMAIN models : single[i].status # "running"
    BY <1>1, Basics DEF EncryptIInv, SingleInv
  <2> QED
    BY <1>1, <2>1, <2>2 DEF EncryptIInv, SingleInv, Early
<1>6. BulkInv'
  <2>1. payloads = <<>> /\ bulk.status = "running"
    BY <1>1 DEF EncryptIInv, BulkInv
  <2>2. Taken' = {}
    BY <1>1, <1>3, ArgsSame, Basics DEF Taken, Asked
  <2>3. \A i \in Present' : ~(i < 1)
    BY <1>1, Basics DEF Present
  <2>4. {payloads[p] : p \in DOMAIN payloads} = {}
    BY <2>1
  <2> QED
    BY <1>1, <2>1, <2>2, <2>3, <2>4 DEF BulkInv
<1> QED
  BY <1>2, <1>4, <1>5, <1>6 DEF EncryptIInv

-----------------------------------------------------------------------------
(* BulkEncryptModels.                                                      *)

(* A step of it, as far as it does not matter here what it collects.       *)
LEMMA CollectTypes ==
    ASSUME EncryptIInv, stage \in {"collect", "send"}, stage' \in {"collect", "send", "encrypted"},
           UNCHANGED <<args, single>>, m' \in 1..Len(models) + 1, f' \in 0..End,
           fault' \in BOOLEAN, fault => fault', payloads' \in Seq(Asked),
           NEW st \in Statuses, NEW mps, bulk' = [status |-> st, maps |-> mps],
           mps = [i \in DOMAIN models |-> mps[i]], \A i \in DOMAIN models : IsMap(mps[i])
    PROVE  TypeOK' /\ ShapeInv' /\ SingleInv'
<1>1. fields' = fields /\ models' = models /\ single' = single /\ Asked' = Asked
  BY ArgsSame DEF args
<1>2. bulk'.status = st /\ bulk'.maps = mps
  OBVIOUS
<1>3. TypeOK'
  <2>1. \A i \in DOMAIN models : IsMap(single[i].map)' /\ IsMap(bulk.maps[i])'
    BY <1>1, <1>2 DEF EncryptIInv, TypeOK, IsMap
  <2>2. \A i \in DOMAIN models : models'[i] = NilModel \/ Fits(models[i])'
    BY <1>1 DEF EncryptIInv, TypeOK, Fits
  <2>3. \A p \in DOMAIN payloads' : payloads'[p] \in (DOMAIN models) \X (DOMAIN fields)
    BY DEF Asked
  <2> QED
    BY <1>1, <1>2, <2>1, <2>2, <2>3, Basics DEF EncryptIInv, TypeOK
<1>4. ShapeInv'
  BY <1>1, <1>2 DEF EncryptIInv, ShapeInv
<1>5. SingleInv'
  BY Basics, SinglesStay DEF Early
<1> QED
  BY <1>3, <1>4, <1>5

(* One more field of the model at hand has been collected.                 *)
LEMMA MapsSet ==
    ASSUME EncryptIInv, NEW i \in DOMAIN models, NEW mp, bulk' = [bulk EXCEPT !.maps[i] = mp]
    PROVE  /\ bulk'.status = bulk.status /\ bulk'.maps[i] = mp
           /\ bulk'.maps = [j \in DOMAIN models |-> bulk'.maps[j]]
           /\ \A j \in DOMAIN models : j # i => bulk'.maps[j] = bulk.maps[j]
           /\ bulk' = [status |-> bulk.status, maps |-> bulk'.maps]
<1> DEFINE st == bulk.status
           mps == bulk.maps
<1>1. bulk = [status |-> st, maps |-> mps] /\ mps = [j \in DOMAIN models |-> mps[j]]
  BY DEF EncryptIInv, ShapeInv
<1> HIDE DEF st, mps
<1>2. bulk' = [status |-> st, maps |-> [mps EXCEPT ![i] = mp]]
  BY <1>1
<1> QED
  BY <1>1, <1>2

LEMMA StartCollectPreserved ==
    ASSUME EncryptIInv, StartCollect
    PROVE  EncryptIInv'
<1>1. /\ stage = "collect" /\ stage' = stage /\ m \in DOMAIN models /\ f = 0
      /\ payloads' = payloads /\ fault' = fault /\ UNCHANGED <<args, single>>
  BY Basics DEF StartCollect
<1>2. bulk.status = "running" /\ payloads \in Seq(Asked)
      /\ {payloads[p] : p \in DOMAIN payloads} = Taken
      /\ \A q \in Taken : fields[q[2]].known
  BY <1>1 DEF EncryptIInv, BulkInv, ShapeInv
<1>3. \A i \in Present : i < m => bulk.maps[i] = Skeleton(i, End)
  BY <1>1 DEF EncryptIInv, BulkInv
<1>4. fields' = fields /\ models' = models /\ Asked' = Asked /\ Present' = Present /\ End' = End
      /\ \A i, n : Skeleton(i, n)' = Skeleton(i, n)
  BY <1>1, ArgsSame DEF args
<1>5. CASE models[m] = NilModel /\ m' = m + 1 /\ f' = f /\ bulk' = bulk
  <2>1. TypeOK' /\ ShapeInv' /\ SingleInv'
    <3> DEFINE mps == bulk.maps
    <3>1. /\ bulk' = [status |-> "running", maps |-> mps] /\ mps = [i \in DOMAIN models |-> mps[i]]
          /\ \A i \in DOMAIN models : IsMap(mps[i])
      BY <1>2, <1>5 DEF EncryptIInv, ShapeInv, TypeOK
    <3> HIDE DEF mps
    <3>2. m' \in 1..Len(models) + 1 /\ f' \in 0..End /\ fault' \in BOOLEAN /\ "running" \in Statuses
      BY <1>1, <1>5, Basics DEF Statuses
    <3> QED
      BY <1>1, <1>2, <3>1, <3>2, CollectTypes
  <2>2. Taken' = Taken
    BY <1>1, <1>4, <1>5, Basics DEF Taken, Asked
  <2>3. \A i \in Present : i < m' => bulk'.maps[i] = Skeleton(i, End)
    BY <1>1, <1>3, <1>5, Basics DEF Present
  <2>4. \A i : Skeleton(i, End)' = Skeleton(i, End)
    BY <1>1, ArgsSame
  <2>5. BulkInv'
    BY <1>1, <1>2, <1>4, <1>5, <2>2, <2>3, <2>4 DEF BulkInv
  <2> QED
    BY <2>1, <2>5 DEF EncryptIInv
<1>6. CASE models[m] # NilModel /\ bulk' = [bulk EXCEPT !.maps[m] = PlainMap(m)] /\ f' = 1 /\ m' = m
  <2>1. /\ bulk'.status = "running" /\ bulk'.maps[m] = PlainMap(m)
        /\ bulk'.maps = [j \in DOMAIN models |-> bulk'.maps[j]]
        /\ \A j \in DOMAIN models : j # m => bulk'.maps[j] = bulk.maps[j]
        /\ bulk' = [status |-> "running", maps |-> bulk'.maps]
    BY <1>1, <1>2, <1>6, MapsSet
  <2>2. TypeOK' /\ ShapeInv' /\ SingleInv'
    <3>1. \A i \in DOMAIN models : IsMap(bulk'.maps[i])
      BY <1>1, <2>1, Basics, PlainIsMap DEF EncryptIInv, TypeOK
    <3>2. m' \in 1..Len(models) + 1 /\ f' \in 0..End /\ fault' \in BOOLEAN /\ "running" \in Statuses
      BY <1>1, <1>6, Basics DEF Statuses
    <3> DEFINE mps == bulk'.maps
    <3>3. /\ bulk' = [status |-> "running", maps |-> mps] /\ mps = [i \in DOMAIN models |-> mps[i]]
          /\ \A i \in DOMAIN models : IsMap(mps[i])
      BY <2>1, <3>1
    <3> HIDE DEF mps
    <3> QED
      BY <1>1, <1>2, <3>2, <3>3, CollectTypes
  <2>3. Taken' = Taken
    BY <1>1, <1>4, <1>6, Basics DEF Taken, Asked
  <2>4. \A i \in Present : i < m' => bulk'.maps[i] = Skeleton(i, End)
    BY <1>1, <1>3, <1>6, <2>1, Basics DEF Present
  <2>5. m \in Present /\ bulk'.maps[m] = Skeleton(m, 1)
    <3>1. NilBefore(m, 1) = {}
      BY Basics DEF NilBefore, EncBefore, EncFields
    <3>2. PlainMap(m) = [k \in KeysOf(PlainFields) |-> PlainMap(m)[k]]
      BY DEF PlainMap
    <3>3. PlainMap(m) = Skeleton(m, 1)
      BY <3>1, <3>2, PlainKeys DEF Skeleton, Over, KeysOf
    <3> QED
      BY <1>1, <1>6, <2>1, <3>3 DEF Present
  <2>6. \A i : Skeleton(i, End)' = Skeleton(i, End)
    BY <1>1, ArgsSame
  <2>7. Skeleton(m, f)' = Skeleton(m, 1)
    BY <1>4, <1>6
  <2>8. BulkInv'
    BY <1>1, <1>2, <1>4, <1>6, <2>1, <2>3, <2>4, <2>5, <2>6, <2>7 DEF BulkInv
  <2> QED
    BY <2>2, <2>8 DEF EncryptIInv
<1> QED
  BY <1>5, <1>6 DEF StartCollect

LEMMA CollectFieldPreserved ==
    ASSUME EncryptIInv, CollectField
    PROVE  EncryptIInv'
<1>1. /\ stage = "collect" /\ f \in DOMAIN fields /\ f > 0
      /\ m' = m /\ fault' = fault /\ UNCHANGED <<args, single>>
  BY Basics DEF CollectField
<1>2. m \in Present /\ m \in DOMAIN models /\ models[m] # NilModel /\ bulk.maps[m] = Skeleton(m, f)
  BY <1>1 DEF EncryptIInv, BulkInv, Present
<1>3. bulk.status = "running" /\ payloads \in Seq(Asked)
      /\ {payloads[p] : p \in DOMAIN payloads} = Taken
      /\ \A q \in Taken : fields[q[2]].known
  BY <1>1 DEF EncryptIInv, BulkInv, ShapeInv
<1>4. \A i \in Present : i < m => bulk.maps[i] = Skeleton(i, End)
  BY <1>1 DEF EncryptIInv, BulkInv
<1>5. fields' = fields /\ models' = models /\ Asked' = Asked /\ Present' = Present /\ End' = End
      /\ AllKnown' = AllKnown /\ \A i, n : Skeleton(i, n)' = Skeleton(i, n)
  BY <1>1, ArgsSame DEF args
<1>6. Sent(m, f) => <<m, f>> \in Asked
  BY <1>1, <1>2 DEF Asked
<1>7. CASE Sent(m, f) /\ ~fields[f].known
  <2> DEFINE mps == [i \in DOMAIN models |-> <<>>]
  <2>1. bulk' = [status |-> "panic", maps |-> mps] /\ stage' = "encrypted"
        /\ f' = f /\ payloads' = payloads
    BY <1>7 DEF CollectField, EndBulk
  <2>2. \A i \in DOMAIN models : IsMap(mps[i])
    BY DEF IsMap
  <2>3. mps = [i \in DOMAIN models |-> mps[i]]
    OBVIOUS
  <2> HIDE DEF mps
  <2>4. m' \in 1..Len(models) + 1 /\ f' \in 0..End /\ fault' \in BOOLEAN /\ "panic" \in Statuses
    BY <1>1, <2>1, Basics DEF Statuses
  <2>5. TypeOK' /\ ShapeInv' /\ SingleInv'
    BY <1>1, <1>3, <2>1, <2>2, <2>3, <2>4, CollectTypes
  <2>6. ~AllKnown
    BY <1>6, <1>7 DEF AllKnown
  <2>7. BulkInv'
    BY <1>5, <2>1, <2>6 DEF BulkInv
  <2> QED
    BY <2>5, <2>7 DEF EncryptIInv
<1>8. CASE ~(Sent(m, f) /\ ~fields[f].known)
  <2>1. /\ payloads' = IF Sent(m, f) THEN Append(payloads, <<m, f>>) ELSE payloads
        /\ bulk' = IF fields[f].enc /\ IsNil(m, f)
                   THEN [bulk EXCEPT !.maps[m] = Put(@, fields[f].key, NilAny)] ELSE bulk
        /\ f' = f + 1 /\ stage' = stage
    BY <1>8 DEF CollectField
  <2>2. Taken' = IF Sent(m, f) THEN Taken \cup {<<m, f>>} ELSE Taken
    <3>1. Taken' = {q \in Asked : q[1] < m \/ (q[1] = m /\ q[2] < f + 1)}
      BY <1>1, <1>5, <2>1 DEF Taken
    <3>2. \A q \in Asked : q[2] \in Int /\ q[1] \in Int /\ Sent(q[1], q[2]) /\ q = <<q[1], q[2]>>
      BY Basics DEF Asked
    <3>3. \A q \in Asked : (q[1] = m /\ q[2] = f) => Sent(m, f) /\ q = <<m, f>>
      BY <3>2
    <3>4. \A q \in Asked : (q[1] = m /\ q[2] < f + 1) <=> (q[1] = m /\ q[2] < f) \/ (q[1] = m /\ q[2] = f)
      BY <1>1, <3>2, Basics
    <3> QED
      BY <1>6, <3>1, <3>3, <3>4 DEF Taken
  <2>3. payloads' \in Seq(Asked) /\ {payloads'[p] : p \in DOMAIN payloads'} = Taken'
    <3>1. CASE ~Sent(m, f)
      BY <1>3, <2>1, <2>2, <3>1
    <3>2. CASE Sent(m, f)
      <4> DEFINE x == <<m, f>>
                 longer == Append(payloads, x)
      <4>1. x \in Asked
        BY <1>6, <3>2
      <4> HIDE DEF x
      <4>2. /\ longer \in Seq(Asked) /\ Len(longer) = Len(payloads) + 1
            /\ \A p \in 1..Len(payloads) : longer[p] = payloads[p]
            /\ longer[Len(payloads) + 1] = x
        BY <1>3, <4>1, AppendProperties
      <4> HIDE DEF longer
      <4>3. Len(payloads) \in Nat /\ DOMAIN payloads = 1..Len(payloads)
            /\ DOMAIN longer = 1..Len(payloads) + 1
        BY <1>3, <4>2
      <4>4. {longer[p] : p \in DOMAIN longer} = {payloads[p] : p \in DOMAIN payloads} \cup {x}
        BY <4>2, <4>3
      <4> QED
        BY <1>3, <2>1, <2>2, <3>2, <4>2, <4>4 DEF x, longer
    <3> QED
      BY <3>1, <3>2
  <2>4. \A q \in Taken' : fields[q[2]].known
    BY <1>3, <1>8, <2>2
  <2>5. /\ bulk'.status = "running" /\ bulk'.maps[m] = Skeleton(m, f + 1)
        /\ bulk'.maps = [j \in DOMAIN models |-> bulk'.maps[j]]
        /\ \A j \in DOMAIN models : j # m => bulk'.maps[j] = bulk.maps[j]
        /\ bulk' = [status |-> "running", maps |-> bulk'.maps]
        /\ IsMap(bulk'.maps[m])
    <3>1. /\ ~(fields[f].enc /\ IsNil(m, f)) => Skeleton(m, f + 1) = Skeleton(m, f)
          /\ fields[f].enc /\ IsNil(m, f) =>
                Skeleton(m, f + 1) = Put(Skeleton(m, f), fields[f].key, NilAny)
      BY <1>1, Basics, SkeletonNext
    <3>2. CASE fields[f].enc /\ IsNil(m, f)
      <4> DEFINE mp == Put(Skeleton(m, f), fields[f].key, NilAny)
      <4>1. bulk' = [bulk EXCEPT !.maps[m] = mp]
        BY <1>2, <2>1, <3>2
      <4>2. IsMap(mp)
        <5>1. IsMap(Skeleton(m, f)) /\ fields[f].key \in Keys /\ NilAny \in Entries
          BY <1>1, <1>2, Basics, FieldTyped, SealingTyped DEF EncryptIInv, TypeOK
        <5> QED
          BY <5>1, PutIsMap
      <4> HIDE DEF mp
      <4>3. /\ bulk'.status = "running" /\ bulk'.maps[m] = mp
            /\ bulk'.maps = [j \in DOMAIN models |-> bulk'.maps[j]]
            /\ \A j \in DOMAIN models : j # m => bulk'.maps[j] = bulk.maps[j]
            /\ bulk' = [status |-> "running", maps |-> bulk'.maps]
        BY <1>2, <1>3, <4>1, MapsSet
      <4> QED
        BY <3>1, <3>2, <4>2, <4>3 DEF mp
    <3>3. CASE ~(fields[f].enc /\ IsNil(m, f))
      BY <1>2, <1>3, <2>1, <3>1, <3>3 DEF EncryptIInv, ShapeInv, TypeOK
    <3> QED
      BY <3>2, <3>3
  <2>6. TypeOK' /\ ShapeInv' /\ SingleInv'
    <3>1. \A i \in DOMAIN models : IsMap(bulk'.maps[i])
      BY <2>5 DEF EncryptIInv, TypeOK
    <3>2. m' \in 1..Len(models) + 1 /\ f' \in 0..End /\ fault' \in BOOLEAN /\ "running" \in Statuses
      BY <1>1, <2>1, Basics DEF Statuses
    <3> DEFINE mps == bulk'.maps
    <3>3. /\ bulk' = [status |-> "running", maps |-> mps] /\ mps = [i \in DOMAIN models |-> mps[i]]
          /\ \A i \in DOMAIN models : IsMap(mps[i])
      BY <2>5, <3>1
    <3> HIDE DEF mps
    <3> QED
      BY <1>1, <2>1, <2>3, <3>2, <3>3, CollectTypes
  <2>7. \A i \in Present : i < m => bulk'.maps[i] = Skeleton(i, End)
    BY <1>2, <1>4, <2>5, Basics DEF Present
  <2>8. \A i : Skeleton(i, End)' = Skeleton(i, End)
    BY <1>1, ArgsSame
  <2>9. Skeleton(m, f)' = Skeleton(m, f + 1)
    BY <1>1, <1>5, <2>1
  <2>10. BulkInv'
    BY <1>1, <1>2, <1>5, <2>1, <2>3, <2>4, <2>5, <2>7, <2>8, <2>9 DEF BulkInv
  <2> QED
    BY <2>6, <2>10 DEF EncryptIInv
<1> QED
  BY <1>7, <1>8

LEMMA EndCollectPreserved ==
    ASSUME EncryptIInv, EndCollect \/ Collected
    PROVE  EncryptIInv'
<1>1. /\ stage = "collect" /\ UNCHANGED <<args, single, bulk, payloads, fault>>
      /\ stage' \in {"collect", "send"}
  BY DEF EndCollect, Collected
<1>2. bulk.status = "running" /\ payloads \in Seq(Asked)
      /\ {payloads[p] : p \in DOMAIN payloads} = Taken
      /\ \A q \in Taken : fields[q[2]].known
  BY <1>1 DEF EncryptIInv, BulkInv, ShapeInv
<1>3. (\A i \in Present : i < m => bulk.maps[i] = Skeleton(i, End))
      /\ (f > 0 => m \in Present /\ bulk.maps[m] = Skeleton(m, f))
  BY <1>1 DEF EncryptIInv, BulkInv
<1>4. fields' = fields /\ models' = models /\ Asked' = Asked /\ Present' = Present /\ End' = End
  BY <1>1, ArgsSame DEF args
<1>5. \A i : Skeleton(i, End)' = Skeleton(i, End)
  BY <1>1, ArgsSame
<1>6. ASSUME m' \in 1..Len(models) + 1, f' \in 0..End
      PROVE  TypeOK' /\ ShapeInv' /\ SingleInv'
  <2> DEFINE mps == bulk.maps
  <2>1. /\ bulk' = [status |-> "running", maps |-> mps] /\ mps = [i \in DOMAIN models |-> mps[i]]
        /\ \A i \in DOMAIN models : IsMap(mps[i])
    BY <1>1, <1>2 DEF EncryptIInv, ShapeInv, TypeOK
  <2>2. fault' \in BOOLEAN /\ "running" \in Statuses
    BY <1>1, Basics DEF Statuses
  <2> HIDE DEF mps
  <2> QED
    BY <1>1, <1>2, <1>6, <2>1, <2>2, CollectTypes
<1>7. CASE EndCollect
  <2>1. f = End /\ f > 0 /\ m' = m + 1 /\ f' = 0 /\ stage' = "collect"
    BY <1>1, <1>7, Basics DEF EndCollect
  <2>2. m \in Present /\ m \in DOMAIN models /\ bulk.maps[m] = Skeleton(m, End)
    BY <1>3, <2>1 DEF Present
  <2>3. Taken' = Taken
    <3>1. \A q \in Asked : q[2] < End /\ q[1] \in Int /\ q[2] \in Int
      BY Basics DEF Asked
    <3>2. \A q \in Asked : (q[1] < m + 1 \/ (q[1] = m + 1 /\ q[2] < 0))
                              <=> (q[1] < m \/ (q[1] = m /\ q[2] < End))
      <4> TAKE q \in Asked
      <4>1. q[2] >= 1 /\ q[2] < End /\ q[1] \in Int /\ q[2] \in Int /\ m \in Int
        BY <3>1, Basics DEF Asked
      <4> QED
        BY <4>1
    <3> QED
      BY <1>4, <2>1, <3>2 DEF Taken
  <2>4. \A i \in Present : i < m' => bulk.maps[i] = Skeleton(i, End)
    <3>1. \A i \in Present : i \in Int
      BY Basics DEF Present
    <3> QED
      BY <1>3, <2>1, <2>2, <3>1, Basics
  <2>5. BulkInv'
    BY <1>1, <1>2, <1>4, <1>5, <2>1, <2>3, <2>4 DEF BulkInv
  <2> QED
    BY <1>6, <2>1, <2>2, <2>5, Basics DEF EncryptIInv
<1>8. CASE Collected
  <2>1. m = Len(models) + 1 /\ m' = m /\ f' = f /\ stage' = "send"
    BY <1>8 DEF Collected
  <2>2. f = 0
    BY <1>3, <2>1, Basics DEF Present
  <2>3. Taken' = Taken
    BY <1>4, <2>1 DEF Taken
  <2>4. BulkInv'
    BY <1>1, <1>2, <1>3, <1>4, <1>5, <2>1, <2>2, <2>3 DEF BulkInv
  <2> QED
    BY <1>6, <2>1, <2>4, Basics DEF EncryptIInv
<1> QED
  BY <1>7, <1>8

LEMMA SendBulkPreserved ==
    ASSUME EncryptIInv, SendBulk
    PROVE  EncryptIInv'
<1>1. /\ stage = "send" /\ stage' = "encrypted" /\ m' = m /\ f' = f
      /\ payloads' = payloads /\ UNCHANGED <<args, single>>
  BY DEF SendBulk, EndBulk
<1>2. m = Len(models) + 1 /\ f = 0 /\ payloads \in Seq(Asked)
      /\ {payloads[p] : p \in DOMAIN payloads} = Taken
  BY <1>1 DEF EncryptIInv, BulkInv, ShapeInv
<1>3. Taken = Asked /\ AllKnown
  <2>1. \A q \in Asked : q[1] < m
    BY <1>2, Basics DEF Asked
  <2>2. Taken = Asked
    BY <2>1 DEF Taken
  <2> QED
    BY <1>1, <2>2 DEF EncryptIInv, BulkInv, AllKnown
<1>4. (\A p \in DOMAIN payloads : models[payloads[p][1]][payloads[p][2]] = "good") <=> AllGood
  BY <1>2, <1>3 DEF AllGood
<1>5. fields' = fields /\ models' = models /\ Asked' = Asked /\ Present' = Present
      /\ AllKnown' = AllKnown /\ AllGood' = AllGood
  BY <1>1, ArgsSame DEF args
<1>6. CASE AllGood /\ EndBulk("ok", [i \in DOMAIN models |-> Over(Distributed(i), bulk.maps[i])])
           /\ fault' = fault
  <2> DEFINE mps == [i \in DOMAIN models |-> Over(Distributed(i), bulk.maps[i])]
             Mine(i) == {payloads[p][2] : p \in {x \in DOMAIN payloads : payloads[x][1] = i}}
  <2>1. \A i \in DOMAIN models : Mine(i) \in SUBSET DOMAIN fields
    BY <1>2 DEF Asked
  <2>2. \A i : Distributed(i) = [k \in KeysOf(Mine(i)) |-> Enc(<<i, LastWith(Mine(i), k)>>)]
    BY DEF Distributed
  <2>3. \A i \in Present : Mine(i) = SentBefore(i, End)
    <3> TAKE i \in Present
    <3>1. Mine(i) = {q[2] : q \in {x \in Asked : x[1] = i}}
      BY <1>2, <1>3
    <3>2. \A j \in DOMAIN fields : j < End
      BY Basics
    <3>3. {q[2] : q \in {x \in Asked : x[1] = i}} = {j \in DOMAIN fields : Sent(i, j)}
      <4>1. \A j \in DOMAIN fields : Sent(i, j) => <<i, j>> \in Asked
        BY DEF Asked, Present
      <4>2. \A q \in Asked : q[1] = i => q[2] \in DOMAIN fields /\ Sent(i, q[2])
        BY DEF Asked
      <4>3. \A j \in DOMAIN fields : Sent(i, j) => \E q \in {x \in Asked : x[1] = i} : j = q[2]
        <5> TAKE j \in DOMAIN fields
        <5>1. <<i, j>>[1] = i /\ <<i, j>>[2] = j
          OBVIOUS
        <5> QED
          BY <4>1, <5>1
      <4> QED
        BY <4>2, <4>3
    <3>4. SentBefore(i, End) = {j \in DOMAIN fields : Sent(i, j)}
      BY <3>2 DEF SentBefore, EncBefore, EncFields, Sent
    <3> QED
      BY <3>1, <3>3, <3>4
  <2> HIDE DEF Mine
  <2>4. \A i \in Present : mps[i] = BulkMap(i)
    <3> TAKE i \in Present
    <3>1. bulk.maps[i] = Skeleton(i, End) /\ i \in DOMAIN models
      BY <1>1, <1>2, Basics DEF EncryptIInv, BulkInv, Present
    <3>2. Distributed(i) = Ciphertexts(i)
      BY <2>2, <2>3 DEF Ciphertexts
    <3> QED
      BY <3>1, <3>2 DEF BulkMap
  <2>5. \A i \in DOMAIN models : IsMap(mps[i])
    <3> TAKE i \in DOMAIN models
    <3>1. IsMap(Distributed(i))
      BY <2>1, <2>2, Basics, CiphertextsAreMap
    <3>2. IsMap(bulk.maps[i])
      BY DEF EncryptIInv, TypeOK
    <3> QED
      BY <3>1, <3>2, OverIsMap
  <2>6. bulk' = [status |-> "ok", maps |-> mps] /\ mps = [i \in DOMAIN models |-> mps[i]]
    BY <1>6 DEF EndBulk
  <2> HIDE DEF mps
  <2>7. TypeOK' /\ ShapeInv' /\ SingleInv'
    <3>1. m' \in 1..Len(models) + 1 /\ f' \in 0..End /\ fault' \in BOOLEAN /\ "ok" \in Statuses
      BY <1>1, <1>6, Basics DEF Statuses
    <3> QED
      BY <1>1, <1>2, <1>6, <2>5, <2>6, <3>1, CollectTypes
  <2>8. \A i : BulkMap(i)' = BulkMap(i)
    BY <1>1, ArgsSame
  <2>9. BulkInv'
    BY <1>1, <1>3, <1>5, <1>6, <2>4, <2>6, <2>8 DEF BulkInv
  <2> QED
    BY <2>7, <2>9 DEF EncryptIInv
<1>7. CASE EndBulk("error", [i \in DOMAIN models |-> <<>>]) /\ fault' = (fault \/ AllGood)
  <2> DEFINE mps == [i \in DOMAIN models |-> <<>>]
  <2>1. bulk' = [status |-> "error", maps |-> mps] /\ mps = [i \in DOMAIN models |-> mps[i]]
    BY <1>7 DEF EndBulk
  <2>2. \A i \in DOMAIN models : IsMap(mps[i])
    BY DEF IsMap
  <2> HIDE DEF mps
  <2>3. m' \in 1..Len(models) + 1 /\ f' \in 0..End /\ "error" \in Statuses
    BY <1>1, Basics DEF Statuses
  <2>4. fault' \in BOOLEAN /\ (fault => fault') /\ (~fault' => ~AllGood)
    BY <1>7, Basics DEF AllGood
  <2>5. TypeOK' /\ ShapeInv' /\ SingleInv'
    BY <1>1, <1>2, <2>1, <2>2, <2>3, <2>4, CollectTypes
  <2>6. BulkInv'
    BY <1>1, <1>3, <1>5, <2>1, <2>4 DEF BulkInv
  <2> QED
    BY <2>5, <2>6 DEF EncryptIInv
<1>8. fault' = fault \/ fault' = (fault \/ AllGood)
  BY <1>4 DEF SendBulk
<1>9. \/ AllGood /\ EndBulk("ok", [i \in DOMAIN models |-> Over(Distributed(i), bulk.maps[i])])
           /\ fault' = fault
      \/ EndBulk("error", [i \in DOMAIN models |-> <<>>]) /\ fault' = (fault \/ AllGood)
  BY <1>4, Zenon DEF SendBulk
<1> QED
  BY <1>6, <1>7, <1>9

-----------------------------------------------------------------------------
(* The structs maps are decrypted into.                                    *)

StoredEntries == [tag : {"nil", "raw", "ptr", "enc", "undecryptable", "malformed"},
                  of : ((DOMAIN models) \X (DOMAIN fields)) \cup {Nil}]

LEMMA SetFieldTyped ==
    ASSUME fields \in Seq(Fields), NEW j \in DOMAIN fields, NEW old \in GoValues,
           NEW entry \in StoredEntries
    PROVE  SetField(fields[j], old, entry) \in GoValues
<1>1. fields[j].base \in {"string", "number"}
  BY FieldTyped
<1>2. entry.of \in GoValues /\ Garbage \in GoValues /\ Zero \in GoValues
  BY DEF StoredEntries, GoValues
<1> QED
  BY <1>1, <1>2 DEF SetField, HasType

LEMMA StructsTyped ==
    ASSUME fields \in Seq(Fields), NEW map, \A k \in DOMAIN map : map[k] \in StoredEntries
    PROVE  /\ Before \in [DOMAIN fields -> GoValues] /\ Fresh \in [DOMAIN fields -> GoValues]
           /\ \A struct \in [DOMAIN fields -> GoValues] :
                 /\ WithPlain(struct, map) \in [DOMAIN fields -> GoValues]
                 /\ Distribute(struct, map) \in [DOMAIN fields -> GoValues]
<1>1. Before \in [DOMAIN fields -> GoValues] /\ Fresh \in [DOMAIN fields -> GoValues]
  BY DEF Before, Fresh, GoValues
<1>2. ASSUME NEW struct \in [DOMAIN fields -> GoValues]
      PROVE  WithPlain(struct, map) \in [DOMAIN fields -> GoValues]
  <2>1. \A j \in DOMAIN fields : fields[j].key \in DOMAIN map =>
            SetField(fields[j], struct[j], map[fields[j].key]) \in GoValues
    BY SetFieldTyped
  <2> QED
    BY <2>1 DEF WithPlain
<1>3. ASSUME NEW struct \in [DOMAIN fields -> GoValues]
      PROVE  Distribute(struct, map) \in [DOMAIN fields -> GoValues]
  <2>1. \A j \in DOMAIN fields : ToDecrypt(map, j) => Raw(map[fields[j].key].of) \in StoredEntries
    BY DEF ToDecrypt, StoredEntries, Raw
  <2>2. \A j \in DOMAIN fields : ToDecrypt(map, j) =>
            SetField(fields[j], struct[j], Raw(map[fields[j].key].of)) \in GoValues
    BY <2>1, SetFieldTyped
  <2> QED
    BY <2>2 DEF Distribute
<1> QED
  BY <1>1, <1>2, <1>3

(* One more field of a struct.                                             *)
LEMMA PartialNext ==
    ASSUME fields \in Seq(Fields), NEW i, NEW n \in DOMAIN fields
    PROVE  /\ Partial(i, 0) = Before
           /\ Partial(i, 1) = WithPlain(Before, data[i])
           /\ ~ToDecrypt(data[i], n) => Partial(i, n + 1) = Partial(i, n)
           /\ ToDecrypt(data[i], n) => Partial(i, n + 1) =
                 [Partial(i, n) EXCEPT ![n] =
                      SetField(fields[n], @, Raw(data[i][fields[n].key].of))]
           /\ Partial(i, End) = Whole(i)
<1>1. DOMAIN fields = 1..Len(fields) /\ Len(fields) \in Nat /\ n \in Int
      /\ PlainFields \in SUBSET DOMAIN fields
      /\ \A j \in DOMAIN fields : j \in PlainFields <=> j \notin EncFields
  BY DEF PlainFields, EncFields
<1> DEFINE map == data[i]
           plain == WithPlain(Before, map)
           whole == Whole(i)
<1>2. /\ DOMAIN Before = DOMAIN fields /\ Before = [j \in DOMAIN fields |-> Before[j]]
      /\ \A j \in DOMAIN fields : j \notin PlainFields => plain[j] = Before[j]
      /\ plain = [j \in DOMAIN fields |-> plain[j]]
  BY DEF Before, Fresh, WithPlain
<1>3. /\ \A j \in DOMAIN fields : whole[j] = IF ToDecrypt(map, j)
             THEN SetField(fields[j], plain[j], Raw(map[fields[j].key].of)) ELSE plain[j]
      /\ whole = [j \in DOMAIN fields |-> whole[j]]
  BY DEF Whole, Distribute
<1>4. \A j \in PlainFields : ~ToDecrypt(map, j)
  BY <1>1 DEF ToDecrypt
<1>5. \A x : Partial(i, x) = [j \in DOMAIN fields |->
             IF j < x \/ (x > 0 /\ j \in PlainFields) THEN whole[j] ELSE Before[j]]
  BY DEF Partial
<1>6. ToDecrypt(map, n) => n \notin PlainFields
  BY <1>4
<1> HIDE DEF map, plain, whole
<1>7. Partial(i, 0) = Before
  BY <1>1, <1>2, <1>5
<1>8. Partial(i, 1) = plain
  <2>1. \A j \in DOMAIN fields : (j < 1 \/ (1 > 0 /\ j \in PlainFields)) <=> j \in PlainFields
    BY <1>1
  <2>2. \A j \in DOMAIN fields : plain[j] = IF j \in PlainFields THEN whole[j] ELSE Before[j]
    BY <1>2, <1>3, <1>4
  <2>3. Partial(i, 1) = [j \in DOMAIN fields |-> IF j \in PlainFields THEN whole[j] ELSE Before[j]]
    BY <1>5, <2>1
  <2> QED
    BY <1>2, <2>2, <2>3
<1>9. ASSUME ~ToDecrypt(map, n)
      PROVE  Partial(i, n + 1) = Partial(i, n)
  <2>1. n \in PlainFields \/ whole[n] = Before[n]
    BY <1>2, <1>3, <1>9
  <2>2. \A j \in DOMAIN fields : j < n + 1 <=> j < n \/ j = n
    BY <1>1
  <2>3. n > 0 /\ n + 1 > 0
    BY <1>1
  <2> QED
    BY <1>5, <2>1, <2>2, <2>3
<1>10. ASSUME ToDecrypt(map, n)
       PROVE  Partial(i, n + 1) =
                 [Partial(i, n) EXCEPT ![n] = SetField(fields[n], @, Raw(map[fields[n].key].of))]
  <2>1. n \notin PlainFields /\ ~(n < n)
    BY <1>1, <1>6, <1>10
  <2>2. whole[n] = SetField(fields[n], Before[n], Raw(map[fields[n].key].of))
    BY <1>2, <1>3, <1>10, <2>1
  <2>3. Partial(i, n)[n] = Before[n]
    BY <1>5, <2>1
  <2>4. \A j \in DOMAIN fields : j < n + 1 <=> j < n \/ j = n
    BY <1>1
  <2>5. n > 0 /\ n + 1 > 0
    BY <1>1
  <2>6. Partial(i, n + 1) = [j \in DOMAIN fields |-> IF j = n THEN whole[n] ELSE Partial(i, n)[j]]
    BY <1>5, <2>4, <2>5
  <2>7. DOMAIN Partial(i, n) = DOMAIN fields
    BY <1>5
  <2> QED
    BY <2>2, <2>3, <2>6, <2>7
<1>11. Partial(i, End) = whole
  <2>1. \A j \in DOMAIN fields : j < End
    BY <1>1 DEF End
  <2> QED
    BY <1>3, <1>5, <2>1
<1> QED
  BY <1>7, <1>8, <1>9, <1>10, <1>11 DEF map, plain, whole

(* Nothing of this changes once the maps are stored.                       *)
LEMMA StoredSame ==
    ASSUME UNCHANGED <<args, stored>>
    PROVE  /\ \A i, n : Partial(i, n)' = Partial(i, n)
           /\ \A i : SoundMap(i)' = SoundMap(i)
           /\ \A i : (Distribute(WithPlain(Fresh, data[i]), data[i]))'
                        = Distribute(WithPlain(Fresh, data[i]), data[i])
           /\ GoValues' = GoValues /\ End' = End
<1>1. fields' = fields /\ models' = models /\ data' = data /\ stale' = stale
  BY DEF args, stored
<1>2. EncFields' = EncFields /\ PlainFields' = PlainFields /\ Fresh' = Fresh /\ End' = End
      /\ Before' = Before /\ GoValues' = GoValues
  BY <1>1 DEF EncFields, PlainFields, Fresh, Before, GoValues, End
<1>3. \A map, j : ToDecrypt(map, j)' = ToDecrypt(map, j)
  BY <1>1, <1>2 DEF ToDecrypt
<1>4. \A struct, map : WithPlain(struct, map)' = WithPlain(struct, map)
  BY <1>1, <1>2 DEF WithPlain, SetField, HasType
<1>5. \A struct, map : Distribute(struct, map)' = Distribute(struct, map)
  BY <1>1, <1>2 DEF Distribute, ToDecrypt, SetField, HasType
<1>6. \A i : /\ Whole(i)' = Whole(i)
             /\ (Distribute(WithPlain(Fresh, data[i]), data[i]))'
                   = Distribute(WithPlain(Fresh, data[i]), data[i])
  BY <1>1, <1>2, <1>3 DEF Whole, WithPlain, Distribute, ToDecrypt, SetField, HasType
<1>7. \A i, n : Partial(i, n)' = Partial(i, n)
  BY <1>1, <1>2, <1>6 DEF Partial
<1>8. \A i : SoundMap(i)' = SoundMap(i)
  BY <1>1, <1>2 DEF SoundMap, ToDecrypt
<1> QED
  BY <1>2, <1>6, <1>7, <1>8

-----------------------------------------------------------------------------
(* Storage and decryption.                                                 *)

(* BulkEncryptModels and EncryptModel are over.                            *)
LEMMA EncryptedStays ==
    ASSUME EncryptIInv, stage \in {"encrypted", "decrypt"}, stage' \in {"decrypt", "done"},
           bulk.status = "ok", UNCHANGED <<args, single, bulk, payloads>>,
           m' \in 1..Len(models) + 1, f' \in 0..End, fault' \in BOOLEAN
    PROVE  EncryptIInv'
<1>1. fields' = fields /\ models' = models /\ single' = single /\ bulk' = bulk
      /\ payloads' = payloads /\ Asked' = Asked
  BY ArgsSame DEF args
<1>2. TypeOK'
  <2>1. \A i \in DOMAIN models : IsMap(single[i].map)' /\ IsMap(bulk.maps[i])'
    BY <1>1 DEF EncryptIInv, TypeOK, IsMap
  <2>2. \A i \in DOMAIN models : models'[i] = NilModel \/ Fits(models[i])'
    BY <1>1 DEF EncryptIInv, TypeOK, Fits
  <2> QED
    BY <1>1, <2>1, <2>2, Basics DEF EncryptIInv, TypeOK
<1>3. ShapeInv'
  BY <1>1 DEF EncryptIInv, ShapeInv
<1>4. SingleInv'
  BY SinglesStay DEF Early
<1>5. BulkInv'
  <2>1. /\ \A i : BulkMap(i)' = BulkMap(i)
        /\ AllKnown' = AllKnown /\ AllGood' = AllGood /\ Present' = Present
    BY ArgsSame
  <2> QED
    BY <1>1, <2>1 DEF EncryptIInv, BulkInv
<1> QED
  BY <1>2, <1>3, <1>4, <1>5 DEF EncryptIInv

(* Nothing has been stored yet.                                            *)
LEMMA NothingStored ==
    ASSUME IInv, EncryptIInv', stage \notin {"decrypt", "done"}, stage' \notin {"decrypt", "done"},
           UNCHANGED <<args, stored, dest, decrypted, bulkDest, bulkEnd>>
    PROVE  IInv'
<1>1. fields' = fields /\ data = <<>> /\ data' = <<>> /\ GoValues' = GoValues
      /\ UNCHANGED <<json, damage, stale, dest, decrypted, bulkDest, bulkEnd>>
  BY StoredSame DEF IInv, DestInv, args, stored
<1>2. DecryptTypeOK'
  BY <1>1 DEF IInv, DecryptTypeOK, EncryptIInv
<1>3. DataInv' /\ DestInv'
  BY <1>1 DEF DataInv, DestInv
<1>4. BulkDestInv'
  BY <1>1 DEF IInv, BulkDestInv
<1> QED
  BY <1>2, <1>3, <1>4 DEF IInv

LEMMA DamagedIsStored ==
    ASSUME NEW map, NEW key \in DOMAIN map, \A k \in DOMAIN map : map[k] \in StoredEntries,
           NEW how \in Damages \ {"none"}
    PROVE  /\ DOMAIN Damaged(map, key, how) \subseteq DOMAIN map
           /\ \A k \in DOMAIN Damaged(map, key, how) : Damaged(map, key, how)[k] \in StoredEntries
<1>1. CASE how = "missing"
  BY <1>1 DEF Damaged
<1>2. CASE how # "missing"
  <2>1. how \in {"undecryptable", "malformed"}
    BY <1>2 DEF Damages
  <2> DEFINE old == map[key]
             broken == [old EXCEPT !.tag = how]
  <2>2. old \in StoredEntries
    OBVIOUS
  <2> HIDE DEF old
  <2>3. broken \in StoredEntries
    BY <2>1, <2>2 DEF StoredEntries
  <2> HIDE DEF broken
  <2>4. Damaged(map, key, how) = [map EXCEPT ![key] = broken]
    BY <1>2 DEF Damaged, broken, old
  <2> QED
    BY <2>3, <2>4
<1> QED
  BY <1>1, <1>2

LEMMA ThroughJsonTyped ==
    ASSUME NEW entry \in Entries
    PROVE  ThroughJson(entry) \in StoredEntries /\ entry \in StoredEntries
BY DEF Entries, StoredEntries, ThroughJson, NilAny, Raw

LEMMA StorePreserved ==
    ASSUME IInv, Store
    PROVE  IInv'
<1>1. /\ stage = "encrypted" /\ bulk.status = "ok" /\ stage' = "decrypt" /\ m' = 1 /\ f' = 0
      /\ fault' = FALSE /\ json' \in BOOLEAN /\ stale' \in BOOLEAN
      /\ UNCHANGED <<args, single, bulk, payloads, bulkDest, bulkEnd>>
      /\ dest' = [i \in DOMAIN models |-> IF stale' THEN [j \in DOMAIN fields |-> Old] ELSE Fresh]
      /\ decrypted' = [i \in DOMAIN models |-> "running"]
  BY DEF Store
<1>2. EncryptIInv
  BY DEF IInv
<1>3. fields' = fields /\ models' = models /\ bulk' = bulk
  BY <1>1 DEF args
<1>4. EncryptIInv'
  <2>1. 1 \in 1..Len(models) + 1 /\ 0 \in 0..End
    BY <1>2, Basics
  <2> QED
    BY <1>1, <1>2, <2>1, EncryptedStays
<1> DEFINE maps == IF json' THEN [i \in DOMAIN models |->
                            [k \in DOMAIN bulk.maps[i] |-> ThroughJson(bulk.maps[i][k])]]
                   ELSE bulk.maps
<1>5. /\ DOMAIN maps = DOMAIN models /\ maps = [i \in DOMAIN models |-> maps[i]]
      /\ \A i \in DOMAIN models :
            /\ DOMAIN maps[i] = DOMAIN bulk.maps[i] /\ DOMAIN maps[i] \subseteq Keys
            /\ \A k \in DOMAIN maps[i] :
                  /\ maps[i][k] = IF json' THEN ThroughJson(bulk.maps[i][k]) ELSE bulk.maps[i][k]
                  /\ maps[i][k] \in StoredEntries
  <2>1. bulk.maps = [i \in DOMAIN models |-> bulk.maps[i]]
    BY <1>2 DEF EncryptIInv, ShapeInv
  <2>2. \A i \in DOMAIN models : /\ DOMAIN bulk.maps[i] \subseteq Keys
                                 /\ \A k \in DOMAIN bulk.maps[i] : bulk.maps[i][k] \in Entries
    BY <1>2 DEF EncryptIInv, TypeOK, IsMap, Entries
  <2>3. \A i \in DOMAIN models : \A k \in DOMAIN bulk.maps[i] :
            ThroughJson(bulk.maps[i][k]) \in StoredEntries /\ bulk.maps[i][k] \in StoredEntries
    BY <2>2, ThroughJsonTyped
  <2>4. CASE json'
    BY <2>2, <2>3, <2>4
  <2>5. CASE ~json'
    BY <2>1, <2>2, <2>3, <2>5
  <2> QED
    BY <2>4, <2>5
<1>6. \/ data' = maps /\ damage' = "none"
      \/ /\ damage' \in Damages \ {"none"}
         /\ \E i \in DOMAIN maps : \E k \in DOMAIN maps[i] :
               data' = [maps EXCEPT ![i] = Damaged(@, k, damage')]
  <2> DEFINE HowStored(x) ==
                \/ data' = x /\ damage' = "none"
                \/ /\ damage' \in Damages \ {"none"}
                   /\ \E i \in DOMAIN x : \E k \in DOMAIN x[i] :
                         /\ damage' # "missing" => x[i][k].tag = "enc"
                         /\ data' = [x EXCEPT ![i] = Damaged(@, k, damage')]
  <2>1. HowStored(maps)
    BY Zenon DEF Store
  <2> HIDE DEF maps
  <2> QED
    BY <2>1
<1> HIDE DEF maps
<1>7. /\ DOMAIN data' = DOMAIN models /\ data' = [i \in DOMAIN models |-> data'[i]]
      /\ \A i \in DOMAIN models :
            /\ DOMAIN data'[i] \subseteq Keys
            /\ \A k \in DOMAIN data'[i] : data'[i][k] \in StoredEntries
      /\ damage' = "none" => data' = maps
  <2>1. CASE data' = maps /\ damage' = "none"
    BY <1>5, <2>1
  <2>2. CASE damage' \in Damages \ {"none"}
             /\ \E i \in DOMAIN maps : \E k \in DOMAIN maps[i] :
                   data' = [maps EXCEPT ![i] = Damaged(@, k, damage')]
    <3>0. PICK i \in DOMAIN maps : \E k \in DOMAIN maps[i] :
                data' = [maps EXCEPT ![i] = Damaged(@, k, damage')]
      BY <2>2
    <3>1. PICK k \in DOMAIN maps[i] : data' = [maps EXCEPT ![i] = Damaged(@, k, damage')]
      BY <3>0
    <3> DEFINE map == Damaged(maps[i], k, damage')
    <3>2. DOMAIN map \subseteq DOMAIN maps[i] /\ \A y \in DOMAIN map : map[y] \in StoredEntries
      BY <1>5, <2>2, DamagedIsStored
    <3>3. data' = [x \in DOMAIN models |-> IF x = i THEN map ELSE maps[x]]
      BY <1>5, <3>1
    <3> HIDE DEF map
    <3> QED
      BY <1>5, <2>2, <3>2, <3>3
  <2> QED
    BY <1>6, <2>1, <2>2
<1>8. data' \in Seq({data'[i] : i \in DOMAIN data'}) /\ Len(data') = Len(models)
  <2> DEFINE S == {data'[i] : i \in DOMAIN data'}
             n == Len(models)
  <2>1. n \in Nat /\ DOMAIN models = 1..n
    BY <1>2, Basics
  <2>2. data' \in [1..n -> S]
    BY <1>7, <2>1
  <2> HIDE DEF S, n
  <2>3. data' \in Seq(S) /\ Len(data') = n
    BY <2>1, <2>2, SeqDef, LenProperties
  <2> QED
    BY <2>3 DEF S, n
<1>9. DecryptTypeOK'
  <2>1. Fresh \in [DOMAIN fields -> GoValues] /\ GoValues' = GoValues
    BY <1>3 DEF Fresh, GoValues
  <2>2. [j \in DOMAIN fields |-> Old] \in [DOMAIN fields -> GoValues]
    BY DEF GoValues
  <2>3. dest' \in [DOMAIN data' -> [DOMAIN fields -> GoValues]]
    BY <1>1, <1>7, <2>1, <2>2
  <2>4. decrypted' \in [DOMAIN data' -> Statuses]
    BY <1>1, <1>7 DEF Statuses
  <2>5. bulkDest' = NoSlice /\ bulkEnd' \in Statuses
    BY <1>1 DEF IInv, DecryptTypeOK, BulkDestInv
  <2>6. damage' \in Damages
    BY <1>6 DEF Damages
  <2> QED
    BY <1>1, <1>3, <1>4, <1>7, <2>1, <2>3, <2>4, <2>5, <2>6 DEF DecryptTypeOK, EncryptIInv
<1>10. DataInv'
  BY <1>1, <1>3, <1>5, <1>7, <1>8 DEF DataInv, StoredEntries
<1>11. DestInv'
  <2>1. Len(data') \in Nat /\ DOMAIN data' = 1..Len(data') /\ DOMAIN fields = 1..Len(fields)
    BY <1>2, <1>7, <1>8, Basics
  <2>2. \A i \in DOMAIN data' : dest'[i] = Before'
    BY <1>1, <1>3, <1>7 DEF Before, Fresh
  <2>3. \A i \in DOMAIN data' : Partial(i, 0)' = Before'
    <3>1. \A j \in DOMAIN fields : ~(j < 0)
      BY <2>1
    <3>2. Before' = [j \in DOMAIN fields |-> Before'[j]]
      BY <1>3 DEF Before, Fresh
    <3> HIDE DEF Before
    <3> QED
      BY <1>3, <3>1, <3>2 DEF Partial
  <2>4. \A i \in DOMAIN data' : dest'[i] = Partial(i, 0)' /\ decrypted'[i] = "running" /\ i >= m'
    BY <1>1, <1>7, <2>1, <2>2, <2>3
  <2>5. Partial(1, f)' = Partial(1, 0)' /\ \A i \in DOMAIN data' : i = m' => Partial(i, f)' = Partial(i, 0)'
    BY <1>1 DEF Partial
  <2> QED
    BY <1>1, <2>4, <2>5 DEF DestInv
<1>12. BulkDestInv'
  BY <1>1 DEF IInv, BulkDestInv
<1> QED
  BY <1>4, <1>9, <1>10, <1>11, <1>12 DEF IInv

LEMMA StoredBasics ==
    ASSUME IInv, stage = "decrypt"
    PROVE  /\ EncryptIInv /\ bulk.status = "ok" /\ fields \in Seq(Fields)
           /\ DOMAIN data = DOMAIN models /\ Len(data) = Len(models)
           /\ DOMAIN data = 1..Len(data) /\ Len(data) \in Nat
           /\ \A i \in DOMAIN data : \A k \in DOMAIN data[i] : data[i][k] \in StoredEntries
           /\ dest \in [DOMAIN data -> [DOMAIN fields -> GoValues]]
           /\ decrypted \in [DOMAIN data -> Statuses]
           /\ bulkDest = NoSlice /\ bulkEnd = "running"
<1>1. EncryptIInv /\ bulk.status = "ok"
  BY DEF IInv, EncryptIInv, BulkInv
<1>2. DOMAIN data = DOMAIN models /\ Len(data) = Len(models)
  BY DEF IInv, DataInv
<1>3. \A i \in DOMAIN data : \A k \in DOMAIN data[i] : data[i][k] \in StoredEntries
  BY DEF IInv, DataInv, StoredEntries
<1>4. bulkDest = NoSlice /\ bulkEnd = "running"
  BY DEF IInv, BulkDestInv
<1> QED
  BY <1>1, <1>2, <1>3, <1>4, Basics DEF IInv, DecryptTypeOK

(* What does not depend on how far the decryption got.                     *)
LEMMA DecryptTypes ==
    ASSUME IInv, stage = "decrypt", stage' \in {"decrypt", "done"},
           UNCHANGED <<args, single, bulk, payloads, stored>>,
           m' \in 1..Len(models) + 1, f' \in 0..End, fault' \in BOOLEAN,
           dest' \in [DOMAIN data -> [DOMAIN fields -> GoValues]],
           decrypted' \in [DOMAIN data -> Statuses],
           bulkDest' = NoSlice \/ bulkDest' \in [DOMAIN data -> [DOMAIN fields -> GoValues]],
           bulkEnd' \in Statuses
    PROVE  EncryptIInv' /\ DecryptTypeOK' /\ DataInv'
<1>1. EncryptIInv'
  BY StoredBasics, EncryptedStays
<1>2. /\ fields' = fields /\ models' = models /\ bulk' = bulk /\ data' = data /\ json' = json
      /\ damage' = damage /\ stale' = stale /\ GoValues' = GoValues
  BY StoredSame DEF args, stored
<1>3. DecryptTypeOK'
  BY <1>1, <1>2 DEF IInv, DecryptTypeOK, EncryptIInv
<1>4. DataInv'
  BY <1>2 DEF IInv, DataInv
<1> QED
  BY <1>1, <1>3, <1>4

(* DecryptModel goes on to another field, or it ends.                      *)
LEMMA DecryptGoes ==
    ASSUME IInv, stage = "decrypt", m \in DOMAIN data, f' \in 1..End,
           UNCHANGED <<args, stage, m, single, bulk, payloads, fault, stored, decrypted,
                       bulkDest, bulkEnd>>,
           NEW struct \in [DOMAIN fields -> GoValues], struct = Partial(m, f'),
           dest' = [dest EXCEPT ![m] = struct],
           \A j \in DOMAIN fields : j < f' /\ ToDecrypt(data[m], j) =>
               data[m][fields[j].key].tag = "enc"
    PROVE  IInv'
<1>1. /\ dest' \in [DOMAIN data -> [DOMAIN fields -> GoValues]] /\ dest'[m] = struct
      /\ \A i \in DOMAIN data : i # m => dest'[i] = dest[i]
  BY StoredBasics
<1>2. /\ fields' = fields /\ data' = data /\ m' = m /\ stage' = "decrypt" /\ decrypted' = decrypted
      /\ fault' = fault /\ bulkDest' = bulkDest /\ bulkEnd' = bulkEnd
      /\ \A i, n : Partial(i, n)' = Partial(i, n)
      /\ \A i : SoundMap(i)' = SoundMap(i)
      /\ End' = End /\ \A i \in DOMAIN data : i \in Int
  BY StoredSame, StoredBasics DEF args, stored
<1>3. EncryptIInv' /\ DecryptTypeOK' /\ DataInv'
  <2>1. /\ m' \in 1..Len(models) + 1 /\ f' \in 0..End /\ fault' \in BOOLEAN /\ stage' = "decrypt"
        /\ decrypted' \in [DOMAIN data -> Statuses] /\ bulkDest' = NoSlice /\ bulkEnd' \in Statuses
    BY StoredBasics, Basics DEF Statuses
  <2> QED
    BY <1>1, <2>1, DecryptTypes
<1>4. DestInv'
  <2>1. \A i \in DOMAIN data :
          /\ decrypted[i] \in {"running", "ok", "error"}
          /\ decrypted[i] = "running" <=> i >= m
          /\ i > m => dest[i] = Partial(i, 0)
          /\ decrypted[i] = "ok" => dest[i] = Partial(i, End) /\ SoundMap(i)
          /\ decrypted[i] = "error" => \E stop \in 1..End : dest[i] = Partial(i, stop)
          /\ decrypted[i] = "error" /\ ~fault => ~SoundMap(i)
    BY DEF IInv, DestInv
  <2>2. \A i \in DOMAIN data :
          /\ i > m => dest'[i] = Partial(i, 0)
          /\ i = m => dest'[i] = Partial(i, f')
          /\ decrypted[i] = "ok" => dest'[i] = Partial(i, End) /\ SoundMap(i)
          /\ decrypted[i] = "error" => \E stop \in 1..End : dest'[i] = Partial(i, stop)
    <3> TAKE i \in DOMAIN data
    <3>1. CASE i = m
      BY <1>1, <1>2, <2>1, <3>1
    <3>2. CASE i # m
      BY <1>1, <2>1, <3>2
    <3> QED
      BY <3>1, <3>2
  <2>3. \A i : Partial(i, f)' = Partial(i, f') /\ Partial(i, End)' = Partial(i, End)
    BY <1>2
  <2>4. \A i, j : ToDecrypt(data[i], j)' = ToDecrypt(data[i], j)
    BY <1>2 DEF ToDecrypt, EncFields
  <2>5. stage' = "decrypt" /\ f' > 0 =>
          /\ m' \in DOMAIN data'
          /\ \A j \in DOMAIN fields' : j < f' /\ ToDecrypt(data[m], j)' =>
                data'[m'][fields'[j].key].tag = "enc"
    BY <1>2, <2>4
  <2> QED
    BY <1>2, <2>1, <2>2, <2>3, <2>5 DEF DestInv, ToDecrypt, EncFields
<1>5. BulkDestInv'
  BY <1>2, StoredBasics DEF BulkDestInv
<1> QED
  BY <1>3, <1>4, <1>5 DEF IInv

LEMMA DecryptEnds ==
    ASSUME IInv, stage = "decrypt", m \in DOMAIN data, f > 0,
           NEW st \in {"ok", "error"}, FinishDecrypt(st), fault' \in BOOLEAN, fault => fault',
           UNCHANGED <<args, stage, single, bulk, payloads, stored, dest, bulkDest, bulkEnd>>,
           st = "ok" => f = End /\ SoundMap(m),
           st = "error" /\ ~fault' => ~SoundMap(m)
    PROVE  IInv'
<1>1. /\ decrypted' = [decrypted EXCEPT ![m] = st] /\ m' = m + 1 /\ f' = 0
  BY DEF FinishDecrypt
<1>2. /\ decrypted' \in [DOMAIN data -> Statuses] /\ decrypted'[m] = st
      /\ \A i \in DOMAIN data : i # m => decrypted'[i] = decrypted[i]
  BY <1>1, StoredBasics DEF Statuses
<1>3. /\ fields' = fields /\ data' = data /\ stage' = "decrypt" /\ dest' = dest
      /\ bulkDest' = bulkDest /\ bulkEnd' = bulkEnd
      /\ \A i, n : Partial(i, n)' = Partial(i, n)
      /\ \A i : SoundMap(i)' = SoundMap(i)
      /\ End' = End /\ (\A i \in DOMAIN data : i \in Int) /\ m \in Int
  BY StoredSame, StoredBasics, Basics DEF args, stored
<1>4. EncryptIInv' /\ DecryptTypeOK' /\ DataInv'
  <2>1. /\ m' \in 1..Len(models) + 1 /\ f' \in 0..End /\ stage' = "decrypt"
        /\ dest' \in [DOMAIN data -> [DOMAIN fields -> GoValues]]
        /\ bulkDest' = NoSlice /\ bulkEnd' \in Statuses
    BY <1>1, StoredBasics, Basics DEF Statuses
  <2> QED
    BY <1>2, <2>1, DecryptTypes
<1>5. DestInv'
  <2>1. \A i \in DOMAIN data :
          /\ decrypted[i] \in {"running", "ok", "error"}
          /\ decrypted[i] = "running" <=> i >= m
          /\ i > m => dest[i] = Partial(i, 0)
          /\ i = m => dest[i] = Partial(i, f)
          /\ decrypted[i] = "ok" => dest[i] = Partial(i, End) /\ SoundMap(i)
          /\ decrypted[i] = "error" => \E stop \in 1..End : dest[i] = Partial(i, stop)
          /\ decrypted[i] = "error" /\ ~fault => ~SoundMap(i)
    BY DEF IInv, DestInv
  <2>2. f \in 1..End
    BY StoredBasics, Basics
  <2>3. \A i \in DOMAIN data :
          /\ decrypted'[i] \in {"running", "ok", "error"}
          /\ decrypted'[i] = "running" <=> i >= m + 1
          /\ i >= m + 1 => dest[i] = Partial(i, 0)
          /\ decrypted'[i] = "ok" => dest[i] = Partial(i, End) /\ SoundMap(i)
          /\ decrypted'[i] = "error" => \E stop \in 1..End : dest[i] = Partial(i, stop)
          /\ decrypted'[i] = "error" /\ ~fault' => ~SoundMap(i)
    <3> TAKE i \in DOMAIN data
    <3>1. i \in Int /\ m \in Int
      BY <1>3
    <3>2. CASE i = m
      BY <1>2, <2>1, <2>2, <3>1, <3>2
    <3>3. CASE i # m
      BY <1>2, <2>1, <3>1, <3>3
    <3> QED
      BY <3>2, <3>3
  <2>4. \A i : Partial(i, f)' = Partial(i, 0) /\ Partial(i, End)' = Partial(i, End)
    BY <1>1, <1>3
  <2> QED
    BY <1>1, <1>3, <2>3, <2>4 DEF DestInv
<1>6. BulkDestInv'
  BY <1>3, StoredBasics DEF BulkDestInv
<1> QED
  BY <1>4, <1>5, <1>6 DEF IInv

LEMMA DecryptPreserved ==
    ASSUME IInv, StartDecrypt \/ DecryptField \/ EndDecrypt
    PROVE  IInv'
<1>1. CASE StartDecrypt
  <2>1. /\ stage = "decrypt" /\ m \in DOMAIN data /\ f = 0 /\ f' = 1
        /\ dest' = [dest EXCEPT ![m] = WithPlain(@, data[m])]
        /\ UNCHANGED <<args, stage, m, single, bulk, payloads, fault, stored, decrypted,
                       bulkDest, bulkEnd>>
    BY <1>1, StoredBasics, Basics DEF StartDecrypt
  <2> DEFINE struct == WithPlain(dest[m], data[m])
  <2>2. dest[m] = Before /\ struct = Partial(m, 1)
    <3>1. \A j \in DOMAIN fields : ~(j < 0)
      BY <2>1, StoredBasics, Basics
    <3>2. dest[m] = Partial(m, 0)
      BY <2>1 DEF IInv, DestInv
    <3>3. Partial(m, 0) = Before
      <4>1. Before = [j \in DOMAIN fields |-> Before[j]]
        BY DEF Before, Fresh
      <4> HIDE DEF Before
      <4> QED
        BY <3>1, <4>1 DEF Partial
    <3>4. WithPlain(Before, data[m]) = Partial(m, 1)
      <4>1. \E j : j \in DOMAIN fields
        <5>1. Len(fields) \in 1..MaxFields
          BY DEF IInv, EncryptIInv, TypeOK
        <5>2. 1 \in DOMAIN fields
          BY <2>1, <5>1, StoredBasics, Basics
        <5> QED
          BY <5>2
      <4> QED
        BY <2>1, <4>1, StoredBasics, PartialNext
    <3> QED
      BY <3>2, <3>3, <3>4
  <2>3. struct \in [DOMAIN fields -> GoValues]
    BY <2>1, <2>2, StoredBasics, StructsTyped
  <2>4. dest' = [dest EXCEPT ![m] = struct] /\ f' \in 1..End
    BY <2>1, StoredBasics, Basics
  <2>5. \A j \in DOMAIN fields : ~(j < f')
    BY <2>1, StoredBasics, Basics
  <2> HIDE DEF struct
  <2> QED
    BY <2>1, <2>2, <2>3, <2>4, <2>5, DecryptGoes
<1>2. CASE DecryptField
  <2>1. /\ stage = "decrypt" /\ f \in DOMAIN fields /\ f > 0
        /\ UNCHANGED <<args, stage, single, bulk, payloads, stored, bulkDest, bulkEnd>>
    BY <1>2, StoredBasics, Basics DEF DecryptField
  <2>2. /\ m \in DOMAIN data /\ dest[m] = Partial(m, f)
        /\ \A j \in DOMAIN fields : j < f /\ ToDecrypt(data[m], j) =>
              data[m][fields[j].key].tag = "enc"
    BY <2>1 DEF IInv, DestInv
  <2>3. f + 1 \in 1..End /\ \A j \in DOMAIN fields : j < f + 1 <=> j < f \/ j = f
    BY <2>1, StoredBasics, Basics
  <2>4. /\ ~ToDecrypt(data[m], f) => Partial(m, f + 1) = Partial(m, f)
        /\ ToDecrypt(data[m], f) => Partial(m, f + 1) =
              [Partial(m, f) EXCEPT ![f] = SetField(fields[f], @, Raw(data[m][fields[f].key].of))]
    BY <2>1, StoredBasics, PartialNext
  <2>5. dest[m] \in [DOMAIN fields -> GoValues]
    BY <2>1, <2>2, StoredBasics
  <2>6. CASE ~ToDecrypt(data[m], f) /\ f' = f + 1 /\ UNCHANGED <<m, dest, decrypted, fault>>
    <3> DEFINE struct == dest[m]
    <3>1. struct = Partial(m, f') /\ dest' = [dest EXCEPT ![m] = struct]
      BY <2>1, <2>2, <2>4, <2>6, StoredBasics
    <3>2. \A j \in DOMAIN fields : j < f' /\ ToDecrypt(data[m], j) =>
              data[m][fields[j].key].tag = "enc"
      BY <2>2, <2>3, <2>6
    <3> HIDE DEF struct
    <3>3. struct \in [DOMAIN fields -> GoValues]
      BY <2>5 DEF struct
    <3> QED
      BY <2>1, <2>2, <2>3, <2>6, <3>1, <3>2, <3>3, DecryptGoes
  <2>7. CASE /\ ToDecrypt(data[m], f) /\ data[m][fields[f].key].tag = "enc"
             /\ dest' = [dest EXCEPT
                    ![m][f] = SetField(fields[f], @, Raw(data[m][fields[f].key].of))]
             /\ f' = f + 1 /\ UNCHANGED <<m, decrypted, fault>>
    <3> DEFINE opened == Raw(data[m][fields[f].key].of)
               struct == [dest[m] EXCEPT ![f] = SetField(fields[f], dest[m][f], opened)]
    <3>1. struct = Partial(m, f')
      BY <2>2, <2>4, <2>7
    <3>2. struct \in [DOMAIN fields -> GoValues]
      <4>1. opened \in StoredEntries
        BY <2>1, <2>2, <2>7, StoredBasics DEF ToDecrypt, StoredEntries, Raw
      <4>2. dest[m][f] \in GoValues
        BY <2>1, <2>5
      <4> HIDE DEF opened
      <4>3. SetField(fields[f], dest[m][f], opened) \in GoValues
        BY <2>1, <4>1, <4>2, StoredBasics, SetFieldTyped
      <4> QED
        BY <2>1, <2>5, <4>3
    <3>3. dest' = [dest EXCEPT ![m] = struct]
      BY <2>7
    <3>4. \A j \in DOMAIN fields : j < f' /\ ToDecrypt(data[m], j) =>
              data[m][fields[j].key].tag = "enc"
      BY <2>2, <2>3, <2>7
    <3> HIDE DEF struct
    <3> QED
      BY <2>1, <2>2, <2>3, <2>7, <3>1, <3>2, <3>3, <3>4, DecryptGoes
  <2>8. CASE /\ ToDecrypt(data[m], f) /\ FinishDecrypt("error") /\ UNCHANGED dest
             /\ fault' = (fault \/ data[m][fields[f].key].tag = "enc")
    <3>1. fault' \in BOOLEAN /\ (fault => fault') /\ (~fault' => data[m][fields[f].key].tag # "enc")
      BY <2>1, <2>8, StoredBasics, Basics
    <3>2. ~fault' => ~SoundMap(m)
      BY <2>1, <2>8, <3>1 DEF SoundMap
    <3> QED
      BY <2>1, <2>2, <2>8, <3>1, <3>2, DecryptEnds
  <2> QED
    BY <1>2, <2>6, <2>7, <2>8 DEF DecryptField
<1>3. CASE EndDecrypt
  <2>1. /\ stage = "decrypt" /\ f = End /\ f > 0 /\ FinishDecrypt("ok")
        /\ UNCHANGED <<args, stage, single, bulk, payloads, fault, stored, dest, bulkDest, bulkEnd>>
    BY <1>3, StoredBasics, Basics DEF EndDecrypt
  <2>2. /\ m \in DOMAIN data
        /\ \A j \in DOMAIN fields : j < f /\ ToDecrypt(data[m], j) =>
              data[m][fields[j].key].tag = "enc"
    BY <2>1 DEF IInv, DestInv
  <2>3. SoundMap(m)
    BY <2>1, <2>2, StoredBasics, Basics DEF SoundMap
  <2>4. fault' \in BOOLEAN
    BY <2>1, StoredBasics, Basics
  <2> QED
    BY <2>1, <2>2, <2>3, <2>4, DecryptEnds
<1> QED
  BY <1>1, <1>2, <1>3

LEMMA BulkDecryptPreserved ==
    ASSUME IInv, BulkDecrypt
    PROVE  IInv'
<1> DEFINE asked == {p \in (DOMAIN data) \X (DOMAIN fields) : ToDecrypt(data[p[1]], p[2])}
           sound == \A p \in asked : data[p[1]][fields[p[2]].key].tag = "enc"
           all == [i \in DOMAIN data |-> Distribute(WithPlain(Fresh, data[i]), data[i])]
<1>1. /\ stage = "decrypt" /\ m = Len(data) + 1 /\ stage' = "done"
      /\ UNCHANGED <<args, m, f, single, bulk, payloads, stored, dest, decrypted>>
  BY DEF BulkDecrypt
<1>2. \/ sound /\ bulkDest' = all /\ bulkEnd' = "ok" /\ fault' = fault
      \/ bulkEnd' = "error" /\ fault' = (fault \/ sound) /\ bulkDest' = bulkDest
  BY Zenon DEF BulkDecrypt
<1>3. sound <=> \A i \in DOMAIN data : SoundMap(i)
  <2>1. ASSUME sound, NEW i \in DOMAIN data, NEW j \in DOMAIN fields, ToDecrypt(data[i], j)
        PROVE  data[i][fields[j].key].tag = "enc"
    <3>1. <<i, j>> \in asked /\ <<i, j>>[1] = i /\ <<i, j>>[2] = j
      BY <2>1
    <3> QED
      BY <2>1, <3>1
  <2>2. ASSUME \A i \in DOMAIN data : SoundMap(i)
        PROVE  sound
    BY <2>2 DEF SoundMap
  <2> QED
    BY <2>1, <2>2 DEF SoundMap
<1>4. sound \in BOOLEAN
  OBVIOUS
<1>5. all \in [DOMAIN data -> [DOMAIN fields -> GoValues]]
  BY <1>1, StoredBasics, StructsTyped
<1> HIDE DEF sound, all
<1>6. /\ m' \in 1..Len(models) + 1 /\ f' \in 0..End /\ bulkEnd' \in {"ok", "error"}
      /\ bulkDest' = NoSlice \/ bulkDest' = all
      /\ dest' \in [DOMAIN data -> [DOMAIN fields -> GoValues]]
      /\ decrypted' \in [DOMAIN data -> Statuses]
      /\ fault' \in BOOLEAN /\ (fault => fault')
  BY <1>1, <1>2, <1>4, StoredBasics, Basics
<1>7. EncryptIInv' /\ DecryptTypeOK' /\ DataInv'
  <2>1. bulkEnd' \in Statuses /\ stage' = "done"
    BY <1>1, <1>6 DEF Statuses
  <2> QED
    BY <1>1, <1>5, <1>6, <2>1, DecryptTypes
<1>8. /\ fields' = fields /\ data' = data /\ dest' = dest /\ decrypted' = decrypted
      /\ \A i, n : Partial(i, n)' = Partial(i, n)
      /\ \A i : SoundMap(i)' = SoundMap(i)
      /\ \A i : (Distribute(WithPlain(Fresh, data[i]), data[i]))'
                   = Distribute(WithPlain(Fresh, data[i]), data[i])
      /\ End' = End
  BY <1>1, StoredSame DEF args, stored
<1>9. DestInv'
  <2>1. \A i : Partial(i, f)' = Partial(i, f) /\ Partial(i, End)' = Partial(i, End)
    BY <1>1, <1>8
  <2>2. \A i \in DOMAIN data :
          /\ decrypted[i] \in {"running", "ok", "error"}
          /\ decrypted[i] = "running" <=> i >= m
          /\ i > m => dest[i] = Partial(i, 0)
          /\ i = m => dest[i] = Partial(i, f)
          /\ decrypted[i] = "ok" => dest[i] = Partial(i, End) /\ SoundMap(i)
          /\ decrypted[i] = "error" => \E stop \in 1..End : dest[i] = Partial(i, stop)
          /\ decrypted[i] = "error" /\ ~fault => ~SoundMap(i)
    BY <1>1 DEF IInv, DestInv
  <2> QED
    BY <1>1, <1>6, <1>8, <2>1, <2>2 DEF DestInv
<1>10. BulkDestInv'
  <2>1. bulkEnd' = "ok" => bulkDest' = all /\ \A i \in DOMAIN data : SoundMap(i)
    BY <1>2, <1>3
  <2>2. bulkEnd' = "error" /\ ~fault' => \E i \in DOMAIN data : ~SoundMap(i)
    BY <1>2, <1>3, <1>4
  <2>3. bulkEnd' # "ok" => bulkDest' = NoSlice
    BY <1>1, <1>2, StoredBasics
  <2>4. all = [i \in DOMAIN data' |-> (Distribute(WithPlain(Fresh, data[i]), data[i]))']
    BY <1>8 DEF all
  <2> QED
    BY <1>1, <1>6, <1>8, <2>1, <2>2, <2>3, <2>4 DEF BulkDestInv
<1> QED
  BY <1>7, <1>9, <1>10 DEF IInv

-----------------------------------------------------------------------------
(* The invariant.                                                          *)

LEMMA IInvInit ==
    ASSUME DecryptInit
    PROVE  IInv
<1>1. PICK n \in 1..MaxFields : fields \in [1..n -> Fields]
  BY DEF DecryptInit, Init
<1>2. PICK k \in 0..MaxModels :
          models \in [1..k -> {NilModel} \cup
             {model \in [DOMAIN fields -> {"nil", "good", "bad"}] : Fits(model)}]
  BY DEF DecryptInit, Init
<1>3. n \in Nat /\ k \in Nat /\ MaxFields \in Nat /\ MaxModels \in Nat
  BY ModelAssumption
<1>4. fields \in Seq(Fields) /\ Len(fields) = n
  BY <1>1, <1>3, SeqDef, LenProperties
<1>5. DOMAIN models = 1..Len(models) /\ Len(models) = k
      /\ \A i \in DOMAIN models : models[i] = NilModel \/ Fits(models[i])
  <2> DEFINE S == {NilModel} \cup {model \in [DOMAIN fields -> {"nil", "good", "bad"}] : Fits(model)}
  <2>1. models \in [1..k -> S] /\ \A x \in S : x = NilModel \/ Fits(x)
    BY <1>2
  <2> HIDE DEF S
  <2>2. models \in Seq(S) /\ Len(models) = k
    BY <1>3, <2>1, SeqDef, LenProperties
  <2> QED
    BY <2>1, <2>2
<1>6. /\ stage = "single" /\ m = 1 /\ f = 0 /\ payloads = <<>> /\ fault = FALSE
      /\ single = [i \in DOMAIN models |-> [status |-> "running", map |-> <<>>]]
      /\ bulk = [status |-> "running", maps |-> [i \in DOMAIN models |-> <<>>]]
      /\ data = <<>> /\ json = FALSE /\ damage = "none" /\ stale = FALSE
      /\ dest = <<>> /\ decrypted = <<>> /\ bulkDest = NoSlice /\ bulkEnd = "running"
  BY DEF DecryptInit, Init
<1>7. TypeOK
  <2>1. \A i \in DOMAIN models : IsMap(single[i].map) /\ IsMap(bulk.maps[i])
    BY <1>6 DEF IsMap
  <2>2. \A i \in DOMAIN models : single[i].status = "running"
    BY <1>6
  <2>3. m \in 1..Len(models) + 1 /\ f \in 0..Len(fields) + 1 /\ Len(models) <= MaxModels
        /\ Len(fields) \in 1..MaxFields
    BY <1>3, <1>4, <1>5, <1>6
  <2>4. bulk.status = "running" /\ DOMAIN payloads = {}
    BY <1>6
  <2> QED
    BY <1>4, <1>5, <1>6, <2>1, <2>2, <2>3, <2>4 DEF TypeOK, Statuses
<1>8. ShapeInv
  BY <1>3, <1>5, <1>6 DEF ShapeInv
<1>9. SingleInv
  BY <1>5, <1>6 DEF SingleInv
<1>10. BulkInv
  BY <1>6 DEF BulkInv
<1>11. DecryptTypeOK
  <2>1. DOMAIN data = {}
    BY <1>6
  <2>2. dest \in [DOMAIN data -> [DOMAIN fields -> GoValues]] /\ decrypted \in [DOMAIN data -> Statuses]
    BY <1>6, <2>1
  <2> QED
    BY <1>6, <1>7, <2>1, <2>2 DEF DecryptTypeOK, Damages, Statuses
<1>12. DataInv /\ DestInv /\ BulkDestInv
  BY <1>6 DEF DataInv, DestInv, BulkDestInv
<1> QED
  BY <1>7, <1>8, <1>9, <1>10, <1>11, <1>12 DEF IInv, EncryptIInv

LEMMA IInvStutters ==
    ASSUME IInv, UNCHANGED vars
    PROVE  IInv'
<1>1. /\ fields' = fields /\ models' = models /\ stage' = stage /\ m' = m /\ f' = f
      /\ single' = single /\ bulk' = bulk /\ payloads' = payloads /\ fault' = fault
      /\ data' = data /\ json' = json /\ damage' = damage /\ stale' = stale /\ dest' = dest
      /\ decrypted' = decrypted /\ bulkDest' = bulkDest /\ bulkEnd' = bulkEnd
  BY DEF vars, encryptVars
<1>2. UNCHANGED <<args, stored>>
  BY <1>1 DEF args, stored
<1>3. /\ \A i, n : Filled(i, n)' = Filled(i, n) /\ Skeleton(i, n)' = Skeleton(i, n)
      /\ \A i, n : SentBefore(i, n)' = SentBefore(i, n)
      /\ \A i : BulkMap(i)' = BulkMap(i)
      /\ End' = End /\ Asked' = Asked /\ Present' = Present
      /\ AllKnown' = AllKnown /\ AllGood' = AllGood
  BY <1>2, ArgsSame
<1>4. TypeOK'
  <2>1. \A i \in DOMAIN models : IsMap(single[i].map)' /\ IsMap(bulk.maps[i])'
    BY <1>1 DEF IInv, EncryptIInv, TypeOK, IsMap
  <2>2. \A i \in DOMAIN models : models'[i] = NilModel \/ Fits(models[i])'
    BY <1>1 DEF IInv, EncryptIInv, TypeOK, Fits
  <2> QED
    BY <1>1, <2>1, <2>2 DEF IInv, EncryptIInv, TypeOK
<1>5. ShapeInv'
  BY <1>1, <1>3 DEF IInv, EncryptIInv, ShapeInv
<1>6. SingleInv'
  <2>1. \A i : /\ Filled(i, End)' = Filled(i, End) /\ SentBefore(i, End)' = SentBefore(i, End)
               /\ Filled(i, f)' = Filled(i, f) /\ SentBefore(i, f)' = SentBefore(i, f)
    BY <1>1, <1>3
  <2> QED
    BY <1>1, <2>1 DEF IInv, EncryptIInv, SingleInv, Early
<1>7. BulkInv'
  <2>1. \A i : Skeleton(i, End)' = Skeleton(i, End) /\ Skeleton(i, f)' = Skeleton(i, f)
    BY <1>1, <1>3
  <2>2. Taken' = Taken
    BY <1>1, <1>3 DEF Taken
  <2> QED
    BY <1>1, <1>3, <2>1, <2>2 DEF IInv, EncryptIInv, BulkInv, Early
<1>8. DecryptTypeOK'
  BY <1>1, <1>2, <1>4, StoredSame DEF IInv, DecryptTypeOK
<1>9. DataInv'
  BY <1>1 DEF IInv, DataInv
<1>10. DestInv'
  <2>1. \A i : /\ Partial(i, 0)' = Partial(i, 0) /\ Partial(i, f)' = Partial(i, f)
               /\ Partial(i, End)' = Partial(i, End) /\ SoundMap(i)' = SoundMap(i)
    BY <1>1, <1>2, StoredSame
  <2>2. \A i, n : Partial(i, n)' = Partial(i, n)
    BY <1>2, StoredSame
  <2>3. EncFields' = EncFields
    BY <1>1 DEF EncFields
  <2> QED
    BY <1>1, <1>3, <2>1, <2>2, <2>3 DEF IInv, DestInv, ToDecrypt
<1>11. BulkDestInv'
  BY <1>1, <1>2, StoredSame DEF IInv, BulkDestInv
<1> QED
  BY <1>4, <1>5, <1>6, <1>7, <1>8, <1>9, <1>10, <1>11 DEF IInv, EncryptIInv

LEMMA IInvPreserved ==
    ASSUME IInv, [ModelsNext]_allVars
    PROVE  IInv'
<1>1. Next \/ UNCHANGED vars
  BY DEF ModelsNext, Models, Values, allVars
<1>2. ASSUME EncryptNext, UNCHANGED <<stored, dest, decrypted, bulkDest, bulkEnd>>
      PROVE  IInv'
  <2>1. EncryptIInv
    BY DEF IInv
  <2>2. CASE StartSingle \/ EncryptField \/ EndSingle
    <3>1. EncryptIInv'
      BY <2>1, <2>2, SinglesPreserved
    <3>2. stage = "single" /\ stage' = "single" /\ UNCHANGED args
      BY <2>2 DEF StartSingle, EncryptField, EndSingle
    <3> QED
      BY <1>2, <3>1, <3>2, NothingStored
  <2>3. CASE StartBulk
    <3>1. stage = "single" /\ stage' = "collect" /\ UNCHANGED args
      BY <2>3 DEF StartBulk
    <3> QED
      BY <1>2, <2>1, <2>3, <3>1, StartBulkPreserved, NothingStored
  <2>4. CASE StartCollect
    <3>1. stage = "collect" /\ stage' = "collect" /\ UNCHANGED args
      BY <2>4 DEF StartCollect
    <3> QED
      BY <1>2, <2>1, <2>4, <3>1, StartCollectPreserved, NothingStored
  <2>5. CASE CollectField
    <3>1. stage = "collect" /\ stage' \in {"collect", "encrypted"} /\ UNCHANGED args
      BY <2>5 DEF CollectField, EndBulk
    <3> QED
      BY <1>2, <2>1, <2>5, <3>1, CollectFieldPreserved, NothingStored
  <2>6. CASE EndCollect \/ Collected
    <3>1. stage = "collect" /\ stage' \in {"collect", "send"} /\ UNCHANGED args
      BY <2>6 DEF EndCollect, Collected
    <3> QED
      BY <1>2, <2>1, <2>6, <3>1, EndCollectPreserved, NothingStored
  <2>7. CASE SendBulk
    <3>1. stage = "send" /\ stage' = "encrypted" /\ UNCHANGED args
      BY <2>7 DEF SendBulk, EndBulk
    <3> QED
      BY <1>2, <2>1, <2>7, <3>1, SendBulkPreserved, NothingStored
  <2> QED
    BY <1>2, <2>2, <2>3, <2>4, <2>5, <2>6, <2>7 DEF EncryptNext
<1> QED
  BY <1>1, <1>2, StorePreserved, DecryptPreserved, BulkDecryptPreserved, IInvStutters DEF Next

(* At every point of the model operations, everything in the maps and in   *)
(* the structs is the function of the models that IInv says it is.         *)
THEOREM Invariance == ModelsSpec => []IInv
<1>1. ModelsInit => IInv
  BY IInvInit DEF ModelsInit
<1>2. IInv /\ [ModelsNext]_allVars => IInv'
  BY IInvPreserved
<1> QED
  BY <1>1, <1>2, PTL DEF ModelsSpec

-----------------------------------------------------------------------------
(* What the invariant says of the results.                                 *)

LEMMA FilledSeals ==
    ASSUME fields \in Seq(Fields), NEW i, NEW j \in EncFields
    PROVE  /\ fields[j].key \in DOMAIN Filled(i, End)
           /\ Filled(i, End)[fields[j].key].tag \in {"enc", "nil"}
           /\ Distinct(EncFields) => Filled(i, End)[fields[j].key] = Sealing(i, j)
<1> DEFINE key == fields[j].key
           last == LastWith(EncFields, key)
<1>1. EncBefore(End) = EncFields
  BY DEF EncBefore, EncFields, End
<1>2. key \in KeysOf(EncFields) /\ EncFields \in SUBSET DOMAIN fields
  BY DEF KeysOf, EncFields
<1>3. last \in EncFields /\ fields[last].key = key
  BY <1>2, LastWithIs
<1>4. key \in DOMAIN Filled(i, End) /\ Filled(i, End)[key] = Sealing(i, last)
  BY <1>1, <1>2 DEF Filled, Over
<1>5. Sealing(i, last).tag \in {"enc", "nil"}
  BY DEF Sealing, NilAny, Enc
<1>6. Distinct(EncFields) => last = j
  BY <1>3 DEF Distinct
<1> QED
  BY <1>4, <1>5, <1>6

LEMMA BulkSeals ==
    ASSUME fields \in Seq(Fields), NEW i, NEW j \in EncFields
    PROVE  /\ fields[j].key \in DOMAIN BulkMap(i)
           /\ BulkMap(i)[fields[j].key].tag \in {"enc", "nil"}
           /\ Distinct(EncFields) => BulkMap(i)[fields[j].key] = Sealing(i, j)
<1> DEFINE key == fields[j].key
           sent == SentBefore(i, End)
           nils == NilBefore(i, End)
<1>1. EncBefore(End) = EncFields
  BY DEF EncBefore, EncFields, End
<1>2. /\ sent \in SUBSET DOMAIN fields
      /\ sent \subseteq EncFields /\ \A x \in sent : ~IsNil(i, x)
      /\ IsNil(i, j) => j \in nils
      /\ ~IsNil(i, j) => j \in sent
  BY <1>1 DEF SentBefore, NilBefore, EncFields
<1>3. CASE key \in KeysOf(sent)
  <2> DEFINE last == LastWith(sent, key)
  <2>1. last \in sent /\ fields[last].key = key
    BY <1>2, <1>3, LastWithIs
  <2>2. key \in DOMAIN BulkMap(i) /\ BulkMap(i)[key] = Enc(<<i, last>>)
    BY <1>3 DEF BulkMap, Ciphertexts, Over
  <2>3. Distinct(EncFields) => last = j
    BY <1>2, <2>1 DEF Distinct
  <2>4. Enc(<<i, last>>).tag = "enc"
    BY DEF Enc
  <2> HIDE DEF last
  <2> QED
    BY <1>2, <2>1, <2>2, <2>3, <2>4 DEF Sealing
<1>4. CASE key \notin KeysOf(sent)
  <2>1. IsNil(i, j) /\ j \in nils
    BY <1>2, <1>4 DEF KeysOf
  <2>2. key \in KeysOf(nils)
    BY <2>1 DEF KeysOf
  <2>3. key \in DOMAIN BulkMap(i) /\ BulkMap(i)[key] = NilAny
    BY <1>4, <2>2 DEF BulkMap, Ciphertexts, Skeleton, Over
  <2> QED
    BY <2>1, <2>3 DEF Sealing, NilAny
<1> QED
  BY <1>3, <1>4

LEMMA PlainsPass ==
    ASSUME fields \in Seq(Fields), NEW i, NEW k, k \notin KeysOf(EncFields)
    PROVE  /\ k \in DOMAIN BulkMap(i) <=> k \in KeysOf(PlainFields)
           /\ k \in DOMAIN Filled(i, End) <=> k \in KeysOf(PlainFields)
           /\ k \in KeysOf(PlainFields) =>
                 BulkMap(i)[k] = PlainMap(i)[k] /\ Filled(i, End)[k] = PlainMap(i)[k]
<1>1. /\ EncBefore(End) \subseteq EncFields /\ SentBefore(i, End) \subseteq EncFields
      /\ NilBefore(i, End) \subseteq EncFields
  BY DEF EncBefore, SentBefore, NilBefore
<1>2. /\ k \notin KeysOf(EncBefore(End)) /\ k \notin KeysOf(SentBefore(i, End))
      /\ k \notin KeysOf(NilBefore(i, End))
  BY <1>1 DEF KeysOf
<1>3. DOMAIN PlainMap(i) = KeysOf(PlainFields)
  BY PlainKeys
<1> QED
  BY <1>2, <1>3 DEF BulkMap, Ciphertexts, Skeleton, Filled, Over

LEMMA BulkIsFilled ==
    ASSUME fields \in Seq(Fields), NEW i, Distinct(EncFields)
    PROVE  BulkMap(i) = Filled(i, End)
<1> DEFINE bulkMap == BulkMap(i)
           filled == Filled(i, End)
<1>1. bulkMap = [k \in DOMAIN bulkMap |-> bulkMap[k]] /\ filled = [k \in DOMAIN filled |-> filled[k]]
  BY DEF BulkMap, Filled, Over
<1>2. ASSUME NEW k, k \in KeysOf(EncFields)
      PROVE  k \in DOMAIN bulkMap /\ k \in DOMAIN filled /\ bulkMap[k] = filled[k]
  <2>1. PICK j \in EncFields : k = fields[j].key
    BY <1>2 DEF KeysOf
  <2> QED
    BY <2>1, FilledSeals, BulkSeals
<1>3. ASSUME NEW k, k \notin KeysOf(EncFields)
      PROVE  /\ k \in DOMAIN bulkMap <=> k \in DOMAIN filled
             /\ k \in DOMAIN filled => bulkMap[k] = filled[k]
  BY <1>3, PlainsPass
<1> HIDE DEF bulkMap, filled
<1>4. DOMAIN bulkMap = DOMAIN filled /\ \A k \in DOMAIN filled : bulkMap[k] = filled[k]
  BY <1>2, <1>3
<1>5. bulkMap = filled
  BY <1>1, <1>4
<1> QED
  BY <1>5 DEF bulkMap, filled

LEMMA SealedHolds ==
    ASSUME IInv
    PROVE  Sealed
<1>1. fields \in Seq(Fields) /\ \A i \in Present : i \in DOMAIN models
  BY Basics DEF IInv, Present
<1>2. ASSUME NEW i \in Present, NEW map \in {x \in {single[i].map} : single[i].status = "ok"} \cup
                                             {x \in {bulk.maps[i]} : bulk.status = "ok"}
      PROVE  map = Filled(i, End) \/ map = BulkMap(i)
  <2>1. single[i].status = "ok" => single[i].map = Filled(i, End)
    BY <1>1 DEF IInv, EncryptIInv, SingleInv
  <2>2. bulk.status = "ok" => bulk.maps[i] = BulkMap(i)
    BY DEF IInv, EncryptIInv, BulkInv
  <2> QED
    BY <2>1, <2>2
<1>3. ASSUME NEW i \in Present, NEW map, map = Filled(i, End) \/ map = BulkMap(i),
             NEW j \in EncFields
      PROVE  /\ fields[j].key \in DOMAIN map
             /\ map[fields[j].key].tag \in {"enc", "nil"}
             /\ Distinct(EncFields) =>
                   map[fields[j].key] = IF IsNil(i, j) THEN NilAny ELSE Enc(<<i, j>>)
  <2>1. CASE map = Filled(i, End)
    BY <1>1, <2>1, FilledSeals DEF Sealing
  <2>2. CASE map = BulkMap(i)
    BY <1>1, <2>2, BulkSeals DEF Sealing
  <2> QED
    BY <1>3, <2>1, <2>2
<1> QED
  BY <1>2, <1>3 DEF Sealed

LEMMA BulkMatchesSinglesHolds ==
    ASSUME IInv
    PROVE  BulkMatchesSingles
<1> SUFFICES ASSUME stage = "encrypted", ~fault, Distinct(EncFields)
             PROVE  CASE bulk.status = "ok" -> \A i \in Present :
                             single[i] = [status |-> "ok", map |-> bulk.maps[i]]
                      [] bulk.status = "error" -> \E i \in Present : single[i].status = "error"
                      [] bulk.status = "panic" ->
                             \E i \in Present : single[i].status \in {"error", "panic"}
  BY DEF BulkMatchesSingles
<1>1. /\ EncryptIInv /\ fields \in Seq(Fields)
      /\ \A i \in Present : i \in DOMAIN models /\ models[i] # NilModel
  BY Basics DEF IInv, Present
<1>2. ASSUME NEW i \in Present
      PROVE  /\ single[i].status \in {"ok", "error", "panic"}
             /\ single[i].status = "ok" =>
                   /\ single[i].map = Filled(i, End)
                   /\ \A j \in SentBefore(i, End) : fields[j].known /\ models[i][j] = "good"
             /\ single[i].status = "error" => \E j \in SentBefore(i, End) : models[i][j] # "good"
             /\ single[i].status = "panic" => \E j \in SentBefore(i, End) : ~fields[j].known
  BY <1>1 DEF EncryptIInv, SingleInv, TypeOK, Statuses, Early
<1>3. ASSUME NEW i \in Present
      PROVE  SentBefore(i, End) = {j \in DOMAIN fields : <<i, j>> \in Asked}
  <2>1. \A j \in DOMAIN fields : j < End
    BY <1>1, Basics
  <2>2. \A j \in DOMAIN fields : <<i, j>> \in Asked <=> Sent(i, j)
    BY <1>1 DEF Asked
  <2> QED
    BY <2>1, <2>2 DEF SentBefore, EncBefore, EncFields, Sent
<1>4. ASSUME NEW q \in Asked
      PROVE  q[1] \in Present /\ q[2] \in SentBefore(q[1], End)
  <2>1. q[1] \in Present /\ q[2] \in DOMAIN fields /\ q = <<q[1], q[2]>>
    BY DEF Asked, Present
  <2> QED
    BY <1>3, <2>1
<1>5. bulk.status \in {"ok", "error", "panic"}
  BY <1>1 DEF EncryptIInv, BulkInv, TypeOK, Statuses
<1>6. CASE bulk.status = "ok"
  <2>1. AllKnown /\ AllGood /\ \A i \in Present : bulk.maps[i] = BulkMap(i)
    BY <1>1, <1>6 DEF EncryptIInv, BulkInv
  <2>2. ASSUME NEW i \in Present
        PROVE  single[i] = [status |-> "ok", map |-> bulk.maps[i]]
    <3>1. \A j \in SentBefore(i, End) : fields[j].known /\ models[i][j] = "good"
      <4> TAKE j \in SentBefore(i, End)
      <4>1. <<i, j>> \in Asked /\ <<i, j>>[1] = i /\ <<i, j>>[2] = j
        BY <1>3
      <4> QED
        BY <2>1, <4>1 DEF AllKnown, AllGood
    <3>2. single[i].status = "ok" /\ single[i].map = Filled(i, End)
      BY <1>2, <3>1
    <3>3. single[i].map = bulk.maps[i]
      BY <1>1, <2>1, <3>2, BulkIsFilled
    <3> DEFINE st == [x \in DOMAIN models |-> single[x].status]
               mps == [x \in DOMAIN models |-> single[x].map]
    <3>4. single = [x \in DOMAIN models |-> [status |-> st[x], map |-> mps[x]]]
      BY <1>1 DEF EncryptIInv, ShapeInv
    <3>5. st[i] = "ok" /\ mps[i] = bulk.maps[i]
      BY <1>1, <3>2, <3>3
    <3> HIDE DEF st, mps
    <3> QED
      BY <1>1, <3>4, <3>5
  <2> QED
    BY <1>6, <2>2
<1>7. CASE bulk.status = "error"
  <2>1. AllKnown /\ ~AllGood
    BY <1>1, <1>7 DEF EncryptIInv, BulkInv, Early
  <2>2. PICK q \in Asked : models[q[1]][q[2]] # "good"
    BY <2>1 DEF AllGood
  <2>3. q[1] \in Present /\ q[2] \in SentBefore(q[1], End)
    BY <1>4
  <2>4. single[q[1]].status # "ok"
    BY <1>2, <2>2, <2>3
  <2>5. single[q[1]].status # "panic"
    <3>1. ASSUME NEW j \in SentBefore(q[1], End)
          PROVE  fields[j].known
      <4>1. <<q[1], j>> \in Asked /\ <<q[1], j>>[2] = j
        BY <1>3, <2>3
      <4> QED
        BY <2>1, <4>1 DEF AllKnown
    <3> QED
      BY <1>2, <2>3, <3>1
  <2>6. single[q[1]].status = "error"
    BY <1>2, <2>3, <2>4, <2>5
  <2> QED
    BY <1>7, <2>3, <2>6
<1>8. CASE bulk.status = "panic"
  <2>1. PICK q \in Asked : ~fields[q[2]].known
    BY <1>1, <1>8 DEF EncryptIInv, BulkInv, AllKnown
  <2>2. q[1] \in Present /\ q[2] \in SentBefore(q[1], End)
    BY <1>4
  <2>3. single[q[1]].status \in {"error", "panic"}
    BY <1>2, <2>1, <2>2
  <2> QED
    BY <1>8, <2>2, <2>3
<1> QED
  BY <1>5, <1>6, <1>7, <1>8

LEMMA PlainIsKept ==
    ASSUME fields \in Seq(Fields), NEW i, NEW j \in PlainFields, Distinct(DOMAIN fields)
    PROVE  fields[j].key \in DOMAIN BulkMap(i) /\ BulkMap(i)[fields[j].key] = PlainValue(i, j)
<1> DEFINE key == fields[j].key
           last == LastWith(PlainFields, key)
<1>1. key \in KeysOf(PlainFields) /\ PlainFields \in SUBSET DOMAIN fields
  BY DEF KeysOf, PlainFields
<1>2. last \in PlainFields /\ fields[last].key = key
  BY <1>1, LastWithIs
<1>3. last = j
  BY <1>1, <1>2 DEF Distinct
<1>4. key \notin KeysOf(EncFields)
  <2>1. ASSUME NEW x \in EncFields, fields[x].key = key
        PROVE  FALSE
    <3>1. x \in DOMAIN fields /\ j \in DOMAIN fields /\ x # j
      BY DEF PlainFields, EncFields
    <3> QED
      BY <2>1, <3>1 DEF Distinct
  <2> QED
    BY <2>1 DEF KeysOf
<1>5. PlainMap(i)[key] = PlainValue(i, j)
  BY <1>1, <1>3 DEF PlainMap
<1> QED
  BY <1>1, <1>4, <1>5, PlainsPass

LEMMA RoundTripHolds ==
    ASSUME IInv
    PROVE  RoundTrip
<1> SUFFICES ASSUME damage = "none", ~stale, Distinct(DOMAIN fields),
                    NEW i \in Present \cap DOMAIN data
             PROVE  \A struct \in
                        {x \in {dest[i]} : decrypted[i] = "ok"} \cup
                        {x \in {IF bulkDest = NoSlice THEN NoSlice ELSE bulkDest[i]} : bulkEnd = "ok"} :
                      \A j \in DOMAIN fields :
                          (json \/ fields[j].enc \/ ~fields[j].ptr) => struct[j] = Original(i, j)
  BY DEF RoundTrip
<1>1. /\ EncryptIInv /\ fields \in Seq(Fields) /\ i \in DOMAIN models /\ models[i] # NilModel
      /\ i \in 1..Len(models) /\ Len(models) \in Nat
  BY Basics DEF IInv, Present
<1>2. stage \in {"decrypt", "done"}
  BY DEF IInv, DestInv
<1>3. /\ DOMAIN data[i] = DOMAIN BulkMap(i)
      /\ \A k \in DOMAIN data[i] :
            data[i][k] = IF json THEN ThroughJson(BulkMap(i)[k]) ELSE BulkMap(i)[k]
  <2>1. bulk.status = "ok" /\ bulk.maps[i] = BulkMap(i)
    BY <1>1, <1>2 DEF EncryptIInv, BulkInv
  <2> QED
    BY <1>1, <1>2, <2>1 DEF IInv, DataInv
<1>4. Before = Fresh
  BY DEF Before
<1>5. decrypted[i] = "ok" => dest[i] = Whole(i)
  <2>1. decrypted[i] = "ok" => dest[i] = Partial(i, End)
    BY <1>2 DEF IInv, DestInv
  <2>2. \E j : j \in DOMAIN fields
    <3>1. Len(fields) \in 1..MaxFields /\ DOMAIN fields = 1..Len(fields) /\ Len(fields) \in Nat
      BY <1>1, Basics DEF EncryptIInv, TypeOK
    <3>2. 1 \in DOMAIN fields
      BY <3>1
    <3> QED
      BY <3>2
  <2> QED
    BY <1>1, <2>1, <2>2, PartialNext
<1>6. bulkEnd = "ok" => bulkDest # NoSlice /\ bulkDest[i] = Whole(i)
  BY <1>4 DEF IInv, BulkDestInv, Whole, NoSlice
<1>7. ASSUME NEW j \in DOMAIN fields, json \/ fields[j].enc \/ ~fields[j].ptr
      PROVE  Whole(i)[j] = Original(i, j)
  <2> DEFINE key == fields[j].key
             plain == WithPlain(Fresh, data[i])
  <2>1. Whole(i)[j] = IF ToDecrypt(data[i], j)
                      THEN SetField(fields[j], plain[j], Raw(data[i][key].of)) ELSE plain[j]
    BY <1>4 DEF Whole, Distribute
  <2>2. models[i][j] = "nil" => fields[j].ptr /\ Fresh[j] = Nil
    BY <1>1 DEF EncryptIInv, TypeOK, Fits, Fresh
  <2>3. CASE j \in EncFields
    <3>1. key \in DOMAIN BulkMap(i) /\ BulkMap(i)[key] = Sealing(i, j)
      <4>1. Distinct(EncFields)
        BY DEF Distinct, EncFields
      <4> QED
        BY <1>1, <2>3, <4>1, BulkSeals
    <3>2. key \in DOMAIN data[i] /\ data[i][key] = Sealing(i, j)
      BY <1>3, <3>1 DEF ThroughJson, Sealing, NilAny, Enc
    <3>3. plain[j] = Fresh[j]
      BY <2>3 DEF WithPlain, PlainFields
    <3>4. CASE models[i][j] = "nil"
      BY <2>1, <2>2, <3>2, <3>3, <3>4 DEF ToDecrypt, Sealing, IsNil, NilAny, Original
    <3>5. CASE models[i][j] # "nil"
      <4>1. data[i][key] = Enc(<<i, j>>)
        BY <3>2, <3>5 DEF Sealing, IsNil
      <4>2. data[i][key].tag # "nil" /\ data[i][key].of = <<i, j>>
        BY <4>1 DEF Enc
      <4>3. ToDecrypt(data[i], j)
        BY <2>3, <3>2, <4>2 DEF ToDecrypt
      <4>4. \A old : SetField(fields[j], old, Raw(<<i, j>>)) = <<i, j>>
        BY DEF SetField, HasType, Raw
      <4>5. Whole(i)[j] = <<i, j>>
        BY <2>1, <4>2, <4>3, <4>4
      <4> QED
        BY <3>5, <4>5 DEF Original
    <3> QED
      BY <3>4, <3>5
  <2>4. CASE j \in PlainFields
    <3>1. ~fields[j].enc /\ ~ToDecrypt(data[i], j)
      BY <2>4 DEF PlainFields, EncFields, ToDecrypt
    <3>2. key \in DOMAIN BulkMap(i) /\ BulkMap(i)[key] = PlainValue(i, j)
      BY <1>1, <2>4, PlainIsKept
    <3>3. key \in DOMAIN data[i]
          /\ data[i][key] = IF json THEN ThroughJson(PlainValue(i, j)) ELSE PlainValue(i, j)
      BY <1>3, <3>2
    <3>4. Whole(i)[j] = SetField(fields[j], Fresh[j], data[i][key])
      BY <2>1, <2>4, <3>1, <3>3 DEF WithPlain
    <3>5. CASE ~fields[j].ptr
      <4>1. data[i][key] = Raw(<<i, j>>)
        BY <3>3, <3>5 DEF PlainValue, ThroughJson, Raw
      <4>2. SetField(fields[j], Fresh[j], Raw(<<i, j>>)) = <<i, j>>
        BY DEF SetField, HasType, Raw
      <4> QED
        BY <2>2, <3>4, <3>5, <4>1, <4>2 DEF Original
    <3>6. CASE fields[j].ptr /\ models[i][j] = "nil"
      <4>1. json /\ PlainValue(i, j) = Ptr(Nil)
        BY <1>7, <3>1, <3>6 DEF PlainValue
      <4>2. data[i][key] = NilAny
        BY <3>3, <4>1 DEF ThroughJson, Ptr
      <4>3. SetField(fields[j], Fresh[j], NilAny) = Fresh[j]
        BY DEF SetField, HasType, NilAny
      <4> QED
        BY <2>2, <3>4, <3>6, <4>2, <4>3 DEF Original
    <3>7. CASE fields[j].ptr /\ models[i][j] # "nil"
      <4>1. json /\ PlainValue(i, j) = Ptr(<<i, j>>)
        BY <1>7, <3>1, <3>7 DEF PlainValue
      <4>2. <<i, j>> # Nil
        BY <1>1 DEF Nil
      <4>3. data[i][key] = Raw(<<i, j>>)
        BY <3>3, <4>1, <4>2 DEF ThroughJson, Ptr
      <4>4. SetField(fields[j], Fresh[j], Raw(<<i, j>>)) = <<i, j>>
        BY DEF SetField, HasType, Raw
      <4> QED
        BY <3>4, <3>7, <4>3, <4>4 DEF Original
    <3> QED
      BY <3>5, <3>6, <3>7
  <2> QED
    BY <2>3, <2>4 DEF PlainFields
<1> QED
  BY <1>5, <1>6, <1>7

LEMMA BulkDecryptMatchesSinglesHolds ==
    ASSUME IInv
    PROVE  BulkDecryptMatchesSingles
<1> SUFFICES ASSUME stage = "done", ~fault
             PROVE  /\ bulkEnd = "ok" <=> \A i \in DOMAIN data : decrypted[i] = "ok"
                    /\ bulkEnd = "ok" /\ ~stale => bulkDest = dest
  BY DEF BulkDecryptMatchesSingles
<1>1. /\ EncryptIInv /\ fields \in Seq(Fields) /\ m = Len(data) + 1 /\ DOMAIN data = 1..Len(data)
      /\ Len(data) \in Nat /\ dest \in [DOMAIN data -> [DOMAIN fields -> GoValues]]
  BY Basics DEF IInv, DestInv, DataInv, DecryptTypeOK
<1>2. \A i \in DOMAIN data :
          /\ decrypted[i] \in {"ok", "error"}
          /\ decrypted[i] = "ok" => dest[i] = Partial(i, End) /\ SoundMap(i)
          /\ decrypted[i] = "error" => ~SoundMap(i)
  <2>1. \A i \in DOMAIN data : ~(i >= m)
    BY <1>1
  <2> QED
    BY <2>1 DEF IInv, DestInv
<1>3. /\ bulkEnd \in {"ok", "error"}
      /\ bulkEnd = "ok" =>
            /\ bulkDest = [i \in DOMAIN data |-> Distribute(WithPlain(Fresh, data[i]), data[i])]
            /\ \A i \in DOMAIN data : SoundMap(i)
      /\ bulkEnd = "error" => \E i \in DOMAIN data : ~SoundMap(i)
  BY DEF IInv, BulkDestInv
<1>4. bulkEnd = "ok" <=> \A i \in DOMAIN data : decrypted[i] = "ok"
  BY <1>2, <1>3
<1>5. ASSUME bulkEnd = "ok", ~stale
      PROVE  bulkDest = dest
  <2>1. \E j : j \in DOMAIN fields
    <3>1. Len(fields) \in 1..MaxFields /\ DOMAIN fields = 1..Len(fields) /\ Len(fields) \in Nat
      BY <1>1, Basics DEF EncryptIInv, TypeOK
    <3>2. 1 \in DOMAIN fields
      BY <3>1
    <3> QED
      BY <3>2
  <2>2. \A i \in DOMAIN data : dest[i] = Whole(i)
    BY <1>1, <1>2, <1>4, <1>5, <2>1, PartialNext
  <2>3. \A i : Whole(i) = Distribute(WithPlain(Fresh, data[i]), data[i])
    BY <1>5 DEF Whole, Before
  <2>4. bulkDest = [i \in DOMAIN data |-> dest[i]]
    BY <1>3, <1>5, <2>2, <2>3
  <2> QED
    BY <1>1, <2>4
<1> QED
  BY <1>4, <1>5

LEMMA PrefixFilledHolds ==
    ASSUME IInv
    PROVE  PrefixFilled
<1>1. DecryptTypeOK /\ (bulkEnd = "error" => bulkDest = NoSlice)
  BY DEF IInv, BulkDestInv
<1>2. ASSUME stage \in {"decrypt", "done"}, NEW i \in DOMAIN data
      PROVE  LET old == IF stale THEN [j \in DOMAIN fields |-> Old] ELSE Fresh
                 plain == WithPlain(old, data[i])
                 full == [j \in DOMAIN fields |->
                            IF ToDecrypt(data[i], j)
                            THEN SetField(fields[j], plain[j], Raw(data[i][fields[j].key].of))
                            ELSE plain[j]]
                 upTo == IF i > m \/ (i = m /\ f = 0) THEN {0} ELSE 1..Len(fields) + 1
             IN  \E stop \in upTo :
                   /\ decrypted[i] = "ok" => stop = Len(fields) + 1
                   /\ \A j \in DOMAIN fields :
                         dest[i][j] = IF j < stop \/ (stop > 0 /\ j \in PlainFields)
                                      THEN full[j] ELSE old[j]
  <2> DEFINE upTo == IF i > m \/ (i = m /\ f = 0) THEN {0} ELSE 1..Len(fields) + 1
  <2>1. /\ i \in Int /\ m \in Int /\ f \in 0..End /\ End = Len(fields) + 1 /\ Len(fields) \in Nat
    BY <1>2, Basics DEF IInv, DataInv
  <2>2. /\ decrypted[i] \in {"running", "ok", "error"}
        /\ decrypted[i] = "running" <=> i >= m
        /\ i > m => dest[i] = Partial(i, 0)
        /\ i = m => dest[i] = Partial(i, f)
        /\ decrypted[i] = "ok" => dest[i] = Partial(i, End)
        /\ decrypted[i] = "error" => \E stop \in 1..End : dest[i] = Partial(i, stop)
    BY <1>2 DEF IInv, DestInv
  <2>3. \E stop \in upTo : dest[i] = Partial(i, stop) /\ (decrypted[i] = "ok" => stop = End)
    <3>1. CASE i > m \/ (i = m /\ f = 0)
      BY <2>1, <2>2, <3>1
    <3>2. CASE i = m /\ f # 0
      <4>1. f \in upTo /\ decrypted[i] = "running"
        BY <2>1, <2>2, <3>2
      <4> QED
        BY <2>2, <3>2, <4>1
    <3>3. CASE i < m
      <4>1. upTo = 1..End /\ End \in upTo /\ decrypted[i] \in {"ok", "error"}
        BY <2>1, <2>2, <3>3
      <4> QED
        BY <2>2, <4>1
    <3> QED
      BY <2>1, <3>1, <3>2, <3>3
  <2>4. PICK stop \in upTo : dest[i] = Partial(i, stop) /\ (decrypted[i] = "ok" => stop = End)
    BY <2>3
  <2>5. \A j \in DOMAIN fields :
            dest[i][j] = IF j < stop \/ (stop > 0 /\ j \in PlainFields) THEN Whole(i)[j] ELSE Before[j]
    BY <2>4 DEF Partial
  <2> QED
    BY <2>1, <2>4, <2>5 DEF Whole, Before, Distribute
<1> QED
  BY <1>1, <1>2 DEF PrefixFilled

(* Under the key of a tagged field both operations return a ciphertext or  *)
(* nil, whichever fields share the key, and its own where none does.       *)
THEOREM NothingInTheClear == ModelsSpec => []Sealed
<1>1. IInv => Sealed
  BY SealedHolds
<1> QED
  BY <1>1, Invariance, PTL

(* BulkEncryptModels does what EncryptModel does for each model.           *)
THEOREM BulkEncryptsAlike == ModelsSpec => []BulkMatchesSingles
<1>1. IInv => BulkMatchesSingles
  BY BulkMatchesSinglesHolds
<1> QED
  BY <1>1, Invariance, PTL

(* What was encrypted, stored and decrypted is what it was, also through   *)
(* JSON.                                                                   *)
THEOREM ModelsComeBack == ModelsSpec => []RoundTrip
<1>1. IInv => RoundTrip
  BY RoundTripHolds
<1> QED
  BY <1>1, Invariance, PTL

(* BulkDecryptModels does what DecryptModel does for each map.             *)
THEOREM BulkDecryptsAlike == ModelsSpec => []BulkDecryptMatchesSingles
<1>1. IInv => BulkDecryptMatchesSingles
  BY BulkDecryptMatchesSinglesHolds
<1> QED
  BY <1>1, Invariance, PTL

(* Every variable keeps its type, and a decryption that fails leaves a     *)
(* prefix of new values and otherwise the old ones.                        *)
THEOREM FailuresLeavePrefix == ModelsSpec => []PrefixFilled
<1>1. IInv => PrefixFilled
  BY PrefixFilledHolds
<1> QED
  BY <1>1, Invariance, PTL

-----------------------------------------------------------------------------
(* The encrypting operations implement ModelSpec.                          *)

(* A nil model has no map in bulk.                                         *)
NilMaps == \A i \in DOMAIN models : models[i] = NilModel => bulk.maps[i] = <<>>

(* A function of nothing is the empty map.                                 *)
LEMMA EmptyMap ==
    ASSUME NEW map, DOMAIN map = {}, map = [k \in DOMAIN map |-> map[k]]
    PROVE  map = <<>>
<1>1. map = [k \in 1..0 |-> map[k]]
  <2>1. 1..0 = {}
    OBVIOUS
  <2> QED
    BY <2>1
<1>2. map \in Seq({}) /\ Len(map) = 0
  BY <1>1
<1> QED
  BY <1>2, EmptySeq

(* No step puts anything into a nil map.                                   *)
LEMMA NilMapsPreserved ==
    ASSUME IInv, NilMaps, [ModelsNext]_allVars
    PROVE  NilMaps'
<1>0. DOMAIN models = 1..Len(models) /\ DOMAIN bulk.maps = DOMAIN models
      /\ payloads \in Seq(Asked) /\ UNCHANGED args
  <2>1. UNCHANGED args
    BY DEF ModelsNext, Models, Values, allVars, vars, encryptVars, Next, EncryptNext, StartSingle,
       EncryptField, EndSingle, StartBulk, StartCollect, CollectField, EndCollect, Collected,
       SendBulk, Store, StartDecrypt, DecryptField, EndDecrypt, BulkDecrypt, args
  <2> QED
    BY <2>1 DEF IInv, EncryptIInv, ShapeInv
<1>1. CASE UNCHANGED bulk
  BY <1>0, <1>1 DEF NilMaps, args
<1>2. CASE StartCollect
  <2>1. CASE UNCHANGED bulk
    BY <1>0, <2>1 DEF NilMaps, args
  <2>2. CASE models[m] # NilModel /\ bulk' = [bulk EXCEPT !.maps[m] = PlainMap(m)]
    BY <1>0, <2>2 DEF NilMaps, args
  <2> QED
    BY <1>2, <2>1, <2>2 DEF StartCollect
<1>3. CASE CollectField
  <2>1. models[m] # NilModel
    BY <1>3, Basics DEF CollectField, IInv, EncryptIInv, BulkInv, Present
  <2>2. CASE EndBulk("panic", [i \in DOMAIN models |-> <<>>])
    BY <1>0, <2>2 DEF NilMaps, args, EndBulk
  <2>3. CASE bulk' = IF fields[f].enc /\ IsNil(m, f)
                     THEN [bulk EXCEPT !.maps[m] = Put(@, fields[f].key, NilAny)] ELSE bulk
    BY <1>0, <2>1, <2>3 DEF NilMaps, args
  <2> QED
    BY <1>3, <2>2, <2>3 DEF CollectField
<1>4. CASE SendBulk
  <2>1. CASE EndBulk("error", [i \in DOMAIN models |-> <<>>])
    BY <1>0, <2>1 DEF NilMaps, args, EndBulk
  <2>2. CASE EndBulk("ok", [i \in DOMAIN models |-> Over(Distributed(i), bulk.maps[i])])
    <3> SUFFICES ASSUME NEW i \in DOMAIN models, models[i] = NilModel
                 PROVE  Over(Distributed(i), bulk.maps[i]) = <<>>
      BY <1>0, <2>2 DEF NilMaps, args, EndBulk
    <3> DEFINE map == Over(Distributed(i), bulk.maps[i])
    <3>1. \A p \in DOMAIN payloads : payloads[p][1] # i
      BY <1>0 DEF Asked
    <3>2. DOMAIN Distributed(i) = {}
      BY <3>1 DEF Distributed, KeysOf
    <3>3. bulk.maps[i] = <<>>
      BY DEF NilMaps
    <3>4. DOMAIN map = {} /\ map = [k \in DOMAIN map |-> map[k]]
      BY <3>2, <3>3 DEF Over
    <3> HIDE DEF map
    <3>5. map = <<>>
      BY <3>4, EmptyMap
    <3> QED
      BY <3>5 DEF map
  <2> QED
    BY <1>4, <2>1, <2>2 DEF SendBulk
<1> QED
  BY <1>1, <1>2, <1>3, <1>4 DEF ModelsNext, Models, Values, allVars, vars, encryptVars, Next,
     EncryptNext, StartSingle, EncryptField, EndSingle, StartBulk, EndCollect, Collected, Store,
     StartDecrypt, DecryptField, EndDecrypt, BulkDecrypt

(* BulkEncryptModels returns a nil map for a nil model.                    *)
THEOREM NilsStayNil == ModelsSpec => []NilMaps
<1>1. ModelsInit => NilMaps
  BY DEF ModelsInit, DecryptInit, Init, NilMaps
<1>2. IInv /\ NilMaps /\ [ModelsNext]_allVars => NilMaps'
  BY NilMapsPreserved
<1> QED
  BY <1>1, <1>2, Invariance, PTL DEF ModelsSpec

(* The maps of the loops are those of ModelSpec.                           *)
LEMMA MapsAlike ==
    ASSUME fields \in Seq(Fields), NEW i \in DOMAIN models
    PROVE  Abstract!SingleMap(i) = Filled(i, End) /\ Abstract!BulkMap(i) = BulkMap(i)
<1>1. /\ Abstract!Tagged = EncFields /\ Abstract!Plain = PlainFields
      /\ Abstract!Sent(i) = SentBefore(i, End) /\ EncBefore(End) = EncFields
      /\ EncFields \in SUBSET DOMAIN fields /\ PlainFields \in SUBSET DOMAIN fields
      /\ SentBefore(i, End) \in SUBSET EncFields
      /\ \A j \in EncFields : j \in SentBefore(i, End) \/ j \in NilBefore(i, End)
      /\ NilBefore(i, End) \in SUBSET EncFields
  <2>1. \A j \in DOMAIN fields : j < End
    BY DEF End
  <2>2. Abstract!Tagged = EncFields
    BY DEF Abstract!Tagged, EncFields
  <2>3. EncBefore(End) = EncFields
    BY <2>1 DEF EncBefore, EncFields
  <2> QED
    BY <2>2, <2>3 DEF Abstract!Plain, PlainFields, Abstract!Sent, SentBefore, NilBefore,
       EncFields, IsNil
<1>2. ASSUME NEW js
      PROVE  /\ Abstract!KeysOf(js) = KeysOf(js)
             /\ \A k : Abstract!Last(js, k) = LastWith(js, k)
  BY DEF Abstract!KeysOf, KeysOf, Abstract!Last, LastWith
<1>3. \A k : k \in KeysOf(DOMAIN fields) <=> k \in KeysOf(EncFields) \/ k \in KeysOf(PlainFields)
  BY DEF KeysOf, EncFields, PlainFields
<1>4. \A j \in EncFields : Abstract!Kept(i, j) = Sealing(i, j)
  BY DEF Abstract!Kept, Sealing, EncFields, IsNil, NilAny, Nil, Enc, Abstract!NilAny
<1>5. \A j \in PlainFields : Abstract!Kept(i, j) = PlainValue(i, j)
  BY DEF Abstract!Kept, PlainValue, EncFields, PlainFields, Raw, Ptr, Nil
<1>6. /\ \A k \in KeysOf(EncFields) : LastWith(EncFields, k) \in EncFields
      /\ \A k \in KeysOf(PlainFields) : LastWith(PlainFields, k) \in PlainFields
      /\ \A k \in KeysOf(SentBefore(i, End)) : LastWith(SentBefore(i, End), k) \in SentBefore(i, End)
  <2>1. SentBefore(i, End) \in SUBSET DOMAIN fields
    BY <1>1
  <2> QED
    BY <1>1, <2>1, LastWithIs
<1>7. Abstract!SingleMap(i) = Filled(i, End)
  <2>1. Filled(i, End) = [k \in KeysOf(DOMAIN fields) |->
            IF k \in KeysOf(EncFields) THEN Sealing(i, LastWith(EncFields, k))
            ELSE PlainValue(i, LastWith(PlainFields, k))]
    BY <1>1, <1>3 DEF Filled, Over, PlainMap
  <2>2. Abstract!SingleMap(i) = [k \in KeysOf(DOMAIN fields) |->
            IF k \in KeysOf(EncFields) THEN Abstract!Kept(i, LastWith(EncFields, k))
            ELSE Abstract!Kept(i, LastWith(PlainFields, k))]
    <3> DEFINE js(k) == IF k \in KeysOf(EncFields) THEN EncFields ELSE PlainFields
    <3>1. \A k : Abstract!Last(IF k \in Abstract!KeysOf(Abstract!Tagged)
                              THEN Abstract!Tagged ELSE Abstract!Plain, k) = LastWith(js(k), k)
      BY <1>1, <1>2
    <3>2. Abstract!KeysOf(DOMAIN fields) = KeysOf(DOMAIN fields)
      BY <1>2
    <3>3. Abstract!SingleMap(i) =
              [k \in KeysOf(DOMAIN fields) |-> Abstract!Kept(i, LastWith(js(k), k))]
      BY <3>1, <3>2 DEF Abstract!SingleMap
    <3> QED
      BY <3>3
  <2> QED
    BY <1>3, <1>4, <1>5, <1>6, <2>1, <2>2
<1>8. Abstract!BulkMap(i) = BulkMap(i)
  <2>1. \A k : /\ k \in KeysOf(SentBefore(i, End)) => k \in KeysOf(EncFields)
               /\ k \in KeysOf(NilBefore(i, End)) => k \in KeysOf(EncFields)
               /\ k \in KeysOf(EncFields) /\ k \notin KeysOf(SentBefore(i, End)) =>
                     k \in KeysOf(NilBefore(i, End)) /\ Sealing(i, LastWith(EncFields, k)) = NilAny
    <3>1. ASSUME NEW k \in KeysOf(EncFields), k \notin KeysOf(SentBefore(i, End))
          PROVE  k \in KeysOf(NilBefore(i, End)) /\ Sealing(i, LastWith(EncFields, k)) = NilAny
      <4>1. LastWith(EncFields, k) \in EncFields /\ fields[LastWith(EncFields, k)].key = k
        BY <1>1, LastWithIs
      <4>2. LastWith(EncFields, k) \in NilBefore(i, End)
        BY <1>1, <3>1, <4>1 DEF KeysOf
      <4> QED
        BY <4>1, <4>2 DEF KeysOf, NilBefore, Sealing
    <3> QED
      BY <1>1, <3>1 DEF KeysOf
  <2>2. BulkMap(i) = [k \in KeysOf(DOMAIN fields) |->
            IF k \in KeysOf(SentBefore(i, End)) THEN Enc(<<i, LastWith(SentBefore(i, End), k)>>)
            ELSE IF k \in KeysOf(EncFields) THEN NilAny
            ELSE PlainValue(i, LastWith(PlainFields, k))]
    <3> DEFINE skeleton == Skeleton(i, End)
               ciphertexts == Ciphertexts(i)
    <3>1. /\ DOMAIN skeleton = KeysOf(NilBefore(i, End)) \cup KeysOf(PlainFields)
          /\ \A k \in DOMAIN skeleton : skeleton[k] =
                IF k \in KeysOf(NilBefore(i, End)) THEN NilAny
                ELSE PlainValue(i, LastWith(PlainFields, k))
      BY DEF Skeleton, Over, PlainMap
    <3>2. /\ DOMAIN ciphertexts = KeysOf(SentBefore(i, End))
          /\ \A k \in DOMAIN ciphertexts :
                ciphertexts[k] = Enc(<<i, LastWith(SentBefore(i, End), k)>>)
      BY DEF Ciphertexts
    <3>3. BulkMap(i) = [k \in DOMAIN ciphertexts \cup DOMAIN skeleton |->
              IF k \in DOMAIN ciphertexts THEN ciphertexts[k] ELSE skeleton[k]]
      BY DEF BulkMap, Over
    <3> HIDE DEF skeleton, ciphertexts
    <3>4. DOMAIN ciphertexts \cup DOMAIN skeleton = KeysOf(DOMAIN fields)
      BY <1>3, <2>1, <3>1, <3>2
    <3>5. \A k \in KeysOf(DOMAIN fields) :
              (IF k \in DOMAIN ciphertexts THEN ciphertexts[k] ELSE skeleton[k]) =
              IF k \in KeysOf(SentBefore(i, End)) THEN Enc(<<i, LastWith(SentBefore(i, End), k)>>)
              ELSE IF k \in KeysOf(EncFields) THEN NilAny
              ELSE PlainValue(i, LastWith(PlainFields, k))
      BY <1>3, <2>1, <3>1, <3>2
    <3> QED
      BY <3>3, <3>4, <3>5
  <2>3. Abstract!BulkMap(i) = [k \in KeysOf(DOMAIN fields) |->
            IF k \in KeysOf(SentBefore(i, End))
            THEN Abstract!Kept(i, LastWith(SentBefore(i, End), k))
            ELSE IF k \in KeysOf(EncFields) THEN Abstract!Kept(i, LastWith(EncFields, k))
            ELSE Abstract!Kept(i, LastWith(PlainFields, k))]
    <3> DEFINE js(k) == IF k \in KeysOf(SentBefore(i, End)) THEN SentBefore(i, End)
                        ELSE IF k \in KeysOf(EncFields) THEN EncFields ELSE PlainFields
    <3>1. \A k : Abstract!Last(IF k \in Abstract!KeysOf(Abstract!Sent(i)) THEN Abstract!Sent(i)
                              ELSE IF k \in Abstract!KeysOf(Abstract!Tagged) THEN Abstract!Tagged
                              ELSE Abstract!Plain, k) = LastWith(js(k), k)
      BY <1>1, <1>2
    <3>2. Abstract!KeysOf(DOMAIN fields) = KeysOf(DOMAIN fields)
      BY <1>2
    <3>3. Abstract!BulkMap(i) =
              [k \in KeysOf(DOMAIN fields) |-> Abstract!Kept(i, LastWith(js(k), k))]
      BY <3>1, <3>2 DEF Abstract!BulkMap
    <3> QED
      BY <3>3
  <2>4. \A j \in SentBefore(i, End) : Abstract!Kept(i, j) = Enc(<<i, j>>)
    BY <1>1, <1>4 DEF Sealing, SentBefore
  <2>5. \A k \in KeysOf(DOMAIN fields) :
            (IF k \in KeysOf(SentBefore(i, End))
             THEN Abstract!Kept(i, LastWith(SentBefore(i, End), k))
             ELSE IF k \in KeysOf(EncFields) THEN Abstract!Kept(i, LastWith(EncFields, k))
             ELSE Abstract!Kept(i, LastWith(PlainFields, k))) =
            IF k \in KeysOf(SentBefore(i, End)) THEN Enc(<<i, LastWith(SentBefore(i, End), k)>>)
            ELSE IF k \in KeysOf(EncFields) THEN NilAny
            ELSE PlainValue(i, LastWith(PlainFields, k))
    <3>1. \A k \in KeysOf(SentBefore(i, End)) :
              Abstract!Kept(i, LastWith(SentBefore(i, End), k))
                = Enc(<<i, LastWith(SentBefore(i, End), k)>>)
      BY <1>6, <2>4
    <3>2. \A k \in KeysOf(EncFields) : k \notin KeysOf(SentBefore(i, End)) =>
              Abstract!Kept(i, LastWith(EncFields, k)) = NilAny
      BY <1>4, <1>6, <2>1
    <3>3. \A k \in KeysOf(PlainFields) :
              Abstract!Kept(i, LastWith(PlainFields, k)) = PlainValue(i, LastWith(PlainFields, k))
      BY <1>5, <1>6
    <3> QED
      BY <1>3, <3>1, <3>2, <3>3
  <2> QED
    BY <2>2, <2>3, <2>5
<1> QED
  BY <1>7, <1>8

(* How the operations ended, as ModelSpec sees it.                         *)
Results == [i \in DOMAIN models |->
               [status |-> single[i].status,
                map |-> IF single[i].status = "ok" THEN single[i].map ELSE <<>>]]
Outcome == [status |-> bulk.status, maps |-> IF bulk.status = "ok" THEN bulk.maps ELSE <<>>]

(* The values to be encrypted are those of ModelSpec.                      *)
LEMMA SentAlike ==
    ASSUME EncryptIInv
    PROVE  /\ \A i : Abstract!Sent(i) = SentBefore(i, End)
           /\ \A i, n : SentBefore(i, n) = {j \in SentBefore(i, End) : j < n}
           /\ Abstract!Present = Present
           /\ Abstract!AllSent = Asked
<1>1. \A j \in DOMAIN fields : j < End
  BY Basics
<1>2. \A i : Abstract!Sent(i) = SentBefore(i, End)
  BY <1>1 DEF Abstract!Sent, Abstract!Tagged, SentBefore, EncBefore, EncFields, IsNil
<1>3. \A i, n : SentBefore(i, n) = {j \in SentBefore(i, End) : j < n}
  BY <1>1 DEF SentBefore, EncBefore, EncFields
<1>4. Abstract!Present = Present
  BY DEF Abstract!Present, Present, NilModel
<1>5. Abstract!AllSent = Asked
  <2>1. \A i \in DOMAIN models, j \in DOMAIN fields : j \in Abstract!Sent(i) <=> Sent(i, j)
    BY DEF Abstract!Sent, Abstract!Tagged, Sent, IsNil
  <2>2. Present \in SUBSET DOMAIN models
    BY DEF Present
  <2>3. Abstract!AllSent = {q \in Present \X DOMAIN fields : q[2] \in Abstract!Sent(q[1])}
    BY <1>4 DEF Abstract!AllSent
  <2>4. \A q : q \in Abstract!AllSent <=> q \in Asked
    BY <2>1, <2>2, <2>3 DEF Asked, Present
  <2> QED
    BY <2>4
<1> QED
  BY <1>2, <1>3, <1>4, <1>5

(* EncryptModel returns.                                                   *)
LEMMA SingleEnds ==
    ASSUME EncryptIInv, stage = "single", m \in DOMAIN models, UNCHANGED args,
           NEW st, NEW mp, FinishSingle(st, mp)
    PROVE  /\ Results[m].status = "running"
           /\ Results' = [Results EXCEPT ![m] =
                             [status |-> st, map |-> IF st = "ok" THEN mp ELSE <<>>]]
<1>1. single' = [single EXCEPT ![m] = [status |-> st, map |-> mp]] /\ models' = models
      /\ DOMAIN single = DOMAIN models
  BY DEF FinishSingle, args, EncryptIInv, ShapeInv
<1>2. single[m].status = "running"
  BY Basics DEF EncryptIInv, SingleInv
<1>3. \A i \in DOMAIN models : i # m => single'[i] = single[i]
  BY <1>1
<1>4. single'[m].status = st /\ single'[m].map = mp
  BY <1>1
<1> QED
  BY <1>1, <1>2, <1>3, <1>4 DEF Results

(* It puts a value into its map.                                           *)
LEMMA SingleFills ==
    ASSUME EncryptIInv, stage = "single", m \in DOMAIN models, UNCHANGED args,
           NEW mp, single' = [single EXCEPT ![m].map = mp]
    PROVE  Results' = Results
<1>1. models' = models /\ DOMAIN single = DOMAIN models /\ single[m].status = "running"
  BY Basics DEF args, EncryptIInv, ShapeInv, SingleInv
<1>2. \A i \in DOMAIN models : i # m => single'[i] = single[i]
  BY <1>1
<1>3. single'[m].status = "running"
  <2>1. single[m] = [status |-> single[m].status, map |-> single[m].map]
    BY DEF EncryptIInv, ShapeInv
  <2>2. single'[m] = [single[m] EXCEPT !.map = mp]
    BY <1>1
  <2> QED
    BY <1>1, <2>1, <2>2
<1> QED
  BY <1>1, <1>2, <1>3 DEF Results

(* A step of ModelSpec, by what it does to the results.                    *)
LEMMA SingleStep ==
    ASSUME NEW i \in DOMAIN models, Results[i].status = "running",
           UNCHANGED <<fields, models, bulk>>,
           \/ /\ i \in Abstract!Present
              /\ \A j \in Abstract!Sent(i) : fields[j].known /\ models[i][j] = "good"
              /\ Results' = [Results EXCEPT ![i] =
                                [status |-> "ok", map |-> Abstract!SingleMap(i)]]
           \/ /\ \/ i \notin Abstract!Present
                 \/ \E j \in Abstract!Sent(i) : Abstract!Reached(i, j) /\ fields[j].known
              /\ Results' = [Results EXCEPT ![i] = [status |-> "error", map |-> <<>>]]
           \/ /\ i \in Abstract!Present
              /\ \E j \in Abstract!Sent(i) : Abstract!Reached(i, j) /\ ~fields[j].known
              /\ Results' = [Results EXCEPT ![i] = [status |-> "panic", map |-> <<>>]]
    PROVE  Abstract!Next
<1>1. Abstract!Single(i)
  BY DEF Abstract!Single, Results, Outcome
<1> QED
  BY <1>1 DEF Abstract!Next

(* Each step of EncryptModel fills its map or returns as ModelSpec says.   *)
LEMMA SinglesImplement ==
    ASSUME EncryptIInv, StartSingle \/ EncryptField \/ EndSingle
    PROVE  Abstract!Next \/ UNCHANGED <<fields, models, Results, bulk>>
<1>0. /\ UNCHANGED <<args, bulk>> /\ stage = "single"
      /\ fields' = fields /\ models' = models
  BY DEF StartSingle, EncryptField, EndSingle, args
<1>1. CASE StartSingle
  <2>1. m \in DOMAIN models
    BY <1>1, Basics DEF StartSingle
  <2>2. CASE models[m] = NilModel /\ FinishSingle("error", <<>>)
    <3>1. m \notin Abstract!Present
      BY <2>2, SentAlike DEF Present
    <3> QED
      BY <1>0, <2>1, <2>2, <3>1, SingleEnds, SingleStep
  <2>3. CASE single' = [single EXCEPT ![m].map = PlainMap(m)]
    BY <1>0, <2>1, <2>3, SingleFills
  <2> QED
    BY <1>1, <2>2, <2>3 DEF StartSingle
<1>2. CASE EncryptField
  <2>0. /\ f \in DOMAIN fields /\ m \in DOMAIN models /\ models[m] # NilModel
        /\ \A j \in SentBefore(m, f) : fields[j].known /\ models[m][j] = "good"
    BY <1>0, <1>2, Basics DEF EncryptField, EncryptIInv, SingleInv
  <2>1. m \in Abstract!Present /\ Abstract!Reached(m, f)
    BY <2>0, SentAlike DEF Present, Abstract!Reached
  <2>2. fields[f].enc /\ ~IsNil(m, f) => f \in Abstract!Sent(m)
    BY <2>0 DEF Abstract!Sent, Abstract!Tagged, IsNil
  <2>3. CASE single' = single
    BY <1>0, <2>3 DEF Results
  <2>4. ASSUME NEW mp, PutSingle(fields[f].key, mp)
        PROVE  UNCHANGED Results
    <3>1. single' = [single EXCEPT ![m].map = Put(@, fields[f].key, mp)]
      BY <2>4 DEF PutSingle
    <3>2. single' = [single EXCEPT ![m].map = Put(single[m].map, fields[f].key, mp)]
      BY <3>1
    <3> QED
      BY <1>0, <2>0, <3>2, SingleFills
  <2>5. CASE fields[f].enc /\ ~IsNil(m, f) /\ ~fields[f].known /\ FinishSingle("panic", <<>>)
    BY <1>0, <2>0, <2>1, <2>2, <2>5, SingleEnds, SingleStep
  <2>6. CASE fields[f].enc /\ ~IsNil(m, f) /\ fields[f].known /\ FinishSingle("error", <<>>)
    BY <1>0, <2>0, <2>1, <2>2, <2>6, SingleEnds, SingleStep
  <2> QED
    BY <1>0, <1>2, <2>3, <2>4, <2>5, <2>6 DEF EncryptField
<1>3. CASE EndSingle
  <2>1. /\ f = End /\ m \in DOMAIN models /\ models[m] # NilModel
        /\ single[m].map = Filled(m, End)
        /\ \A j \in SentBefore(m, End) : fields[j].known /\ models[m][j] = "good"
    BY <1>0, <1>3, Basics DEF EndSingle, EncryptIInv, SingleInv
  <2>2. m \in Abstract!Present /\ Abstract!Sent(m) = SentBefore(m, End)
    BY <2>1, SentAlike DEF Present
  <2>3. single[m].map = Abstract!SingleMap(m)
    BY <2>1, Basics, MapsAlike
  <2>4. FinishSingle("ok", single[m].map)
    BY <1>3 DEF EndSingle
  <2> QED
    BY <1>0, <2>1, <2>2, <2>3, <2>4, SingleEnds, SingleStep
<1> QED
  BY <1>1, <1>2, <1>3

(* A step of ModelSpec, by what it does to the outcome.                    *)
LEMMA BulkStep ==
    ASSUME bulk.status = "running", UNCHANGED <<fields, models, single>>,
           \/ /\ AllKnown /\ AllGood
              /\ bulk'.status = "ok"
              /\ bulk'.maps = [i \in DOMAIN models |->
                                  IF i \in Present THEN BulkMap(i) ELSE <<>>]
           \/ Asked # {} /\ AllKnown /\ bulk'.status = "error"
           \/ ~AllKnown /\ bulk'.status = "panic",
           EncryptIInv
    PROVE  Abstract!Next
<1>1. Abstract!AllSent = Asked /\ Abstract!Present = Present
  BY SentAlike
<1>2. \A i \in Present : Abstract!BulkMap(i) = BulkMap(i)
  BY Basics, MapsAlike DEF Present
<1>3. [i \in DOMAIN models |-> IF i \in Present THEN BulkMap(i) ELSE <<>>]
        = [i \in DOMAIN models |-> IF i \in Abstract!Present THEN Abstract!BulkMap(i) ELSE <<>>]
  BY <1>1, <1>2
<1>4. Outcome.status = "running" /\ Results' = Results
  BY DEF Outcome, Results
<1>5. Abstract!Bulk
  <2>1. CASE /\ AllKnown /\ AllGood /\ bulk'.status = "ok"
             /\ bulk'.maps = [i \in DOMAIN models |-> IF i \in Present THEN BulkMap(i) ELSE <<>>]
    BY <1>1, <1>3, <1>4, <2>1 DEF Abstract!Bulk, AllKnown, AllGood, Outcome, Results
  <2>2. CASE Asked # {} /\ AllKnown /\ bulk'.status = "error"
    BY <1>1, <1>4, <2>2 DEF Abstract!Bulk, AllKnown, Outcome, Results
  <2>3. CASE ~AllKnown /\ bulk'.status = "panic"
    BY <1>1, <1>4, <2>3 DEF Abstract!Bulk, AllKnown, Outcome, Results
  <2> QED
    BY <2>1, <2>2, <2>3
<1> QED
  BY <1>5 DEF Abstract!Next

(* So does each step of BulkEncryptModels.                                 *)
LEMMA CollectImplements ==
    ASSUME EncryptIInv, EncryptIInv', StartCollect \/ CollectField
    PROVE  Abstract!Next \/ UNCHANGED <<fields, models, Results, Outcome>>
<1>0. /\ UNCHANGED <<args, single>> /\ stage = "collect" /\ bulk.status = "running"
      /\ fields' = fields /\ models' = models /\ Results' = Results
  <2>1. UNCHANGED <<args, single>> /\ stage = "collect"
    BY DEF StartCollect, CollectField
  <2> QED
    BY <2>1 DEF args, Results, EncryptIInv, BulkInv
<1>1. m \in DOMAIN models
  <2>1. CASE StartCollect
    BY <2>1, Basics DEF StartCollect
  <2>2. CASE CollectField
    BY <1>0, <2>2, Basics DEF CollectField, EncryptIInv, BulkInv, Present
  <2> QED
    BY <2>1, <2>2
<1>2. CASE UNCHANGED bulk
  BY <1>0, <1>2 DEF Outcome
<1>3. ASSUME NEW mp, bulk' = [bulk EXCEPT !.maps[m] = mp]
      PROVE  UNCHANGED Outcome
  BY <1>0, <1>1, <1>3, MapsSet DEF Outcome
<1>4. ASSUME NEW k, bulk' = [bulk EXCEPT !.maps[m] = Put(@, k, NilAny)]
      PROVE  UNCHANGED Outcome
  <2>1. bulk' = [bulk EXCEPT !.maps[m] = Put(bulk.maps[m], k, NilAny)]
    BY <1>4
  <2> QED
    BY <1>3, <2>1
<1>5. CASE bulk'.status = "panic"
  <2>1. ~AllKnown'
    BY <1>5 DEF EncryptIInv, BulkInv
  <2>2. ~AllKnown
    BY <1>0, <2>1, ArgsSame
  <2> QED
    BY <1>0, <1>5, <2>2, BulkStep
<1> QED
  BY <1>0, <1>2, <1>3, <1>4, <1>5 DEF StartCollect, CollectField, EndBulk

(* ... and what it does with the answer to its call.                       *)
LEMMA SendImplements ==
    ASSUME EncryptIInv, EncryptIInv', NilMaps', SendBulk
    PROVE  Abstract!Next
<1>0. /\ UNCHANGED <<args, single>> /\ stage = "send" /\ bulk.status = "running"
      /\ fields' = fields /\ models' = models
  BY DEF SendBulk, EncryptIInv, BulkInv, args
<1>1. CASE bulk'.status = "ok"
  <2>1. AllKnown' /\ AllGood' /\ \A i \in Present' : bulk'.maps[i] = BulkMap(i)'
    BY <1>1 DEF EncryptIInv, BulkInv
  <2>2. AllKnown /\ AllGood /\ \A i \in Present : bulk'.maps[i] = BulkMap(i)
    BY <1>0, <2>1, ArgsSame
  <2>3. \A i \in DOMAIN models : i \notin Present => bulk'.maps[i] = <<>>
    BY <1>0 DEF NilMaps, Present
  <2>4. bulk'.maps = [i \in DOMAIN models |-> bulk'.maps[i]]
    BY <1>0 DEF EncryptIInv, ShapeInv
  <2>5. bulk'.maps = [i \in DOMAIN models |-> IF i \in Present THEN BulkMap(i) ELSE <<>>]
    BY <2>2, <2>3, <2>4
  <2> QED
    BY <1>0, <1>1, <2>2, <2>5, BulkStep
<1>2. CASE bulk'.status = "error" /\ payloads # <<>>
  <2>1. /\ m = Len(models) + 1 /\ payloads \in Seq(Asked)
        /\ \A q \in Taken : fields[q[2]].known
    BY <1>0 DEF EncryptIInv, BulkInv, ShapeInv
  <2>2. Asked # {}
    BY <1>2, <2>1
  <2>3. AllKnown
    BY <2>1, Basics DEF AllKnown, Taken, Asked
  <2> QED
    BY <1>0, <1>2, <2>2, <2>3, BulkStep
<1> QED
  BY <1>1, <1>2 DEF SendBulk, EndBulk

(* EncryptModel and BulkEncryptModels do what ModelSpec says, for structs  *)
(* of any fields that share keys in any way, and any slice.                *)
THEOREM ModelsImplementation == ModelsSpec => ModelsImplemented
<1>1. ModelsInit => Abstract!Init
  <2> SUFFICES ASSUME ModelsInit
               PROVE  Abstract!Init
    OBVIOUS
  <2>1. /\ single = [i \in DOMAIN models |-> [status |-> "running", map |-> <<>>]]
        /\ bulk = [status |-> "running", maps |-> [i \in DOMAIN models |-> <<>>]]
    BY DEF ModelsInit, DecryptInit, Init
  <2> QED
    BY <2>1 DEF Abstract!Init
<1>2. ASSUME IInv, IInv', NilMaps', [ModelsNext]_allVars
      PROVE  [Abstract!Next]_(Abstract!specVars)
  <2>0. EncryptIInv /\ EncryptIInv'
    BY <1>2 DEF IInv
  <2>1. ASSUME UNCHANGED <<fields, models, Results, Outcome>>
        PROVE  UNCHANGED Abstract!specVars
    BY <2>1 DEF Abstract!specVars, Results, Outcome
  <2>2. CASE StartSingle \/ EncryptField \/ EndSingle
    <3>1. Abstract!Next \/ UNCHANGED <<fields, models, Results, bulk>>
      BY <2>0, <2>2, SinglesImplement
    <3> QED
      BY <2>1, <3>1 DEF Outcome
  <2>3. CASE StartCollect \/ CollectField
    BY <2>0, <2>1, <2>3, CollectImplements
  <2>4. CASE SendBulk
    BY <1>2, <2>0, <2>4, SendImplements
  <2>5. CASE UNCHANGED <<args, single, bulk>>
    BY <2>1, <2>5 DEF args, Results, Outcome
  <2> QED
    BY <1>2, <2>2, <2>3, <2>4, <2>5 DEF ModelsNext, Models, Values, allVars, vars, encryptVars,
       Next, EncryptNext, StartBulk, EndCollect, Collected, Store, StartDecrypt, DecryptField,
       EndDecrypt, BulkDecrypt, args
<1> QED
  BY <1>1, <1>2, Invariance, NilsStayNil, PTL DEF ModelsSpec, ModelsImplemented, Abstract!Spec

-----------------------------------------------------------------------------
(* Powers of two, which the conversions are counted in.                    *)

(* Every set of naturals has a least member.                               *)
LEMMA Least ==
    ASSUME NEW S, S # {}, \A n \in S : n \in Nat
    PROVE  \E n \in S : \A k \in S : n <= k
<1>1. S \in SUBSET Nat
  OBVIOUS
<1>2. \E n \in S : \A k \in S : <<k, n>> \notin OpToRel(<, Nat)
  BY <1>1, NatLessThanWellFounded, WFMin, Zenon
<1>3. \A a, b \in Nat : <<a, b>> \notin OpToRel(<, Nat) => b <= a
  BY DEF OpToRel
<1> QED
  BY <1>2, <1>3, Zenon

(* The first n + 1 powers of two.                                          *)
Doubles(g, n) ==
    /\ g \in [0..n -> Nat] /\ g[0] = 1
    /\ \A k \in 1..n : g[k] = 2 * g[k - 1]

(* There are tables of powers of two of any length ...                     *)
LEMMA DoublesExist ==
    ASSUME NEW n \in Nat
    PROVE  \E g : Doubles(g, n)
<1> DEFINE without == {k \in Nat : ~\E g : Doubles(g, k)}
<1> SUFFICES ASSUME without # {}
             PROVE  FALSE
  OBVIOUS
<1>1. PICK k \in without : \A j \in without : k <= j
  BY Least
<1>2. k # 0
  <2>1. Doubles([j \in 0..0 |-> 1], 0)
    BY DEF Doubles
  <2> QED
    BY <1>1, <2>1
<1>3. k \in Nat /\ k - 1 \in Nat /\ k - 1 \notin without
  BY <1>1, <1>2
<1>4. PICK g : Doubles(g, k - 1)
  BY <1>3
<1> DEFINE h == [j \in 0..k |-> IF j = k THEN 2 * g[k - 1] ELSE g[j]]
<1>5. Doubles(h, k)
  BY <1>3, <1>4 DEF Doubles
<1> QED
  BY <1>1, <1>5

(* ... and they agree as far as both reach.                                *)
LEMMA DoublesUnique ==
    ASSUME NEW n \in Nat, NEW other \in Nat, NEW g, NEW h, Doubles(g, n), Doubles(h, other)
    PROVE  \A k \in 0..n : k \in 0..other => g[k] = h[k]
<1> DEFINE differ == {k \in 0..n : k \in 0..other /\ g[k] # h[k]}
<1> SUFFICES ASSUME differ # {}
             PROVE  FALSE
  OBVIOUS
<1>1. PICK k \in differ : \A j \in differ : k <= j
  <2>1. \A k \in differ : k \in Nat
    OBVIOUS
  <2> HIDE DEF differ
  <2> QED
    BY <2>1, Least
<1>2. k \in 1..n /\ k \in 1..other
  BY <1>1 DEF Doubles
<1>3. k - 1 \in 0..n /\ k - 1 \in 0..other /\ k - 1 \notin differ
  BY <1>1, <1>2
<1> QED
  BY <1>1, <1>2, <1>3 DEF Doubles

(* Pow2 is such a table without an end: the function its definition        *)
(* chooses exists.                                                         *)
LEMMA Pow2Defined ==
    /\ Conv!Pow2[0] = 1
    /\ \A n \in Nat : Conv!Pow2[n] \in Nat /\ Conv!Pow2[n + 1] = 2 * Conv!Pow2[n]
<1> DEFINE Upto(n) == CHOOSE g : Doubles(g, n)
           powers == [n \in Nat |-> Upto(n)[n]]
           IsPow2(p) == p = [n \in Nat |-> IF n = 0 THEN 1 ELSE 2 * p[n - 1]]
<1>1. \A n \in Nat : Doubles(Upto(n), n)
  BY DoublesExist
<1> HIDE DEF Upto
<1>2. \A n \in Nat : n # 0 => Upto(n)[n] = 2 * Upto(n - 1)[n - 1]
  <2> TAKE n \in Nat
  <2> HAVE n # 0
  <2>1. n - 1 \in Nat /\ n - 1 \in 0..n /\ n - 1 \in 0..n - 1 /\ n \in 1..n
    OBVIOUS
  <2>2. Upto(n)[n] = 2 * Upto(n)[n - 1]
    BY <1>1, <2>1 DEF Doubles
  <2>3. Upto(n)[n - 1] = Upto(n - 1)[n - 1]
    BY <1>1, <2>1, DoublesUnique
  <2> QED
    BY <2>2, <2>3
<1>3. \A n \in Nat : Upto(n)[n] \in Nat
  BY <1>1 DEF Doubles
<1>4. Upto(0)[0] = 1
  BY <1>1 DEF Doubles
<1>5. IsPow2(powers)
  BY <1>2, <1>3, <1>4
<1>6. IsPow2(Conv!Pow2)
  <2>1. Conv!Pow2 = CHOOSE p : IsPow2(p)
    BY DEF Conv!Pow2
  <2> QED
    BY <1>5, <2>1
<1> DEFINE p == Conv!Pow2
<1> HIDE DEF p
<1>7. p[0] = 1 /\ \A n \in Nat : p[n + 1] = 2 * p[n]
  BY <1>6 DEF p
<1>8. \A n \in Nat : p[n] \in Nat
  <2> DEFINE odd == {n \in Nat : p[n] \notin Nat}
  <2> SUFFICES ASSUME odd # {}
               PROVE  FALSE
    OBVIOUS
  <2>1. PICK n \in odd : \A k \in odd : n <= k
    BY Least
  <2>2. n # 0 /\ n - 1 \in Nat /\ n - 1 \notin odd
    BY <1>7, <2>1
  <2> QED
    BY <1>7, <2>1, <2>2
<1> QED
  BY <1>7, <1>8 DEF p

(* Division.                                                               *)
LEMMA Quotient ==
    ASSUME NEW x \in Int, NEW d \in Nat \ {0}, NEW q \in Int, NEW r \in 0..d - 1, x = q * d + r
    PROVE  x \div d = q /\ x % d = r
OBVIOUS

(* Quotient and remainder of a natural number ...                          *)
LEMMA Division ==
    ASSUME NEW x \in Nat, NEW d \in Nat \ {0}
    PROVE  /\ x \div d \in Nat /\ x % d \in Nat /\ x % d < d
           /\ x = (x \div d) * d + (x % d)
OBVIOUS

(* ... and of an integer.                                                  *)
LEMMA IntDivision ==
    ASSUME NEW x \in Int, NEW d \in Nat \ {0}
    PROVE  /\ x \div d \in Int /\ x % d \in Int /\ 0 <= x % d /\ x % d < d
           /\ x = (x \div d) * d + (x % d)
OBVIOUS

(* Powers of two double, and are more than their exponents.                *)
LEMMA Pow2Next ==
    ASSUME NEW e \in Nat
    PROVE  /\ Conv!Pow2[e] \in Nat \ {0} /\ e < Conv!Pow2[e]
           /\ Conv!Pow2[e + 1] = 2 * Conv!Pow2[e]
           /\ Conv!Pow2[0] = 1
<1> DEFINE p == Conv!Pow2
<1>1. p[0] = 1 /\ \A n \in Nat : p[n] \in Nat /\ p[n + 1] = 2 * p[n]
  BY Pow2Defined
<1> HIDE DEF p
<1> DEFINE small == {n \in Nat : ~(n < p[n])}
<1>2. ASSUME small # {}
      PROVE  FALSE
  <2>1. PICK n \in small : \A k \in small : n <= k
    BY <1>2, Least
  <2>2. n # 0
    BY <1>1, <2>1
  <2>3. n - 1 \in Nat /\ n - 1 \notin small
    BY <2>1, <2>2
  <2>4. n - 1 < p[n - 1] /\ p[n] = 2 * p[n - 1] /\ p[n - 1] \in Nat
    BY <1>1, <2>1, <2>2, <2>3
  <2> QED
    BY <1>1, <2>1, <2>2, <2>4
<1>3. e < p[e]
  BY <1>2
<1> QED
  BY <1>1, <1>3 DEF p

(* Of two powers of two the larger one is a multiple.                      *)
LEMMA Pow2Sum ==
    ASSUME NEW a \in Nat, NEW b \in Nat
    PROVE  Conv!Pow2[a + b] = Conv!Pow2[a] * Conv!Pow2[b]
<1> DEFINE p == Conv!Pow2
<1>1. p[0] = 1 /\ \A n \in Nat : p[n] \in Nat /\ p[n + 1] = 2 * p[n]
  BY Pow2Next
<1> HIDE DEF p
<1> DEFINE wrong == {n \in Nat : p[a + n] # p[a] * p[n]}
<1>2. ASSUME wrong # {}
      PROVE  FALSE
  <2>1. PICK n \in wrong : \A k \in wrong : n <= k
    BY <1>2, Least
  <2>2. n # 0
    BY <1>1, <2>1
  <2>3. n - 1 \in Nat /\ p[a + (n - 1)] = p[a] * p[n - 1]
    BY <2>1, <2>2
  <2>4. /\ p[a + n] = 2 * p[a + (n - 1)]
        /\ p[n] = 2 * p[n - 1]
        /\ p[n - 1] \in Nat /\ p[a] \in Nat
    <3>1. n - 1 + 1 = n /\ a + (n - 1) + 1 = a + n /\ a + (n - 1) \in Nat
      BY <2>3
    <3> QED
      BY <1>1, <2>3, <3>1
  <2>5. 2 * (p[a] * p[n - 1]) = p[a] * (2 * p[n - 1])
    BY <2>4
  <2> QED
    BY <2>1, <2>3, <2>4, <2>5
<1>3. p[a + b] = p[a] * p[b]
  BY <1>2
<1> QED
  BY <1>3 DEF p

(* A larger power of two is an even multiple of a smaller one.             *)
LEMMA Pow2Gap ==
    ASSUME NEW a \in Nat, NEW b \in Nat, a < b
    PROVE  /\ \E c \in Nat \ {0} : Conv!Pow2[b] = c * (2 * Conv!Pow2[a])
           /\ 2 * Conv!Pow2[a] <= Conv!Pow2[b]
<1>1. b - (a + 1) \in Nat /\ a + 1 \in Nat /\ b - (a + 1) + (a + 1) = b
  OBVIOUS
<1> DEFINE c == Conv!Pow2[b - (a + 1)]
<1>2. /\ c \in Nat \ {0} /\ Conv!Pow2[b] = c * Conv!Pow2[a + 1]
      /\ Conv!Pow2[a + 1] = 2 * Conv!Pow2[a] /\ Conv!Pow2[a] \in Nat
  <2>1. c \in Nat \ {0}
    BY <1>1, Pow2Next
  <2>2. Conv!Pow2[b - (a + 1) + (a + 1)] = c * Conv!Pow2[a + 1]
    BY <1>1, Pow2Sum
  <2>3. Conv!Pow2[a + 1] = 2 * Conv!Pow2[a] /\ Conv!Pow2[a] \in Nat
    BY Pow2Next
  <2> QED
    BY <1>1, <2>1, <2>2, <2>3
<1> HIDE DEF c
<1>3. \A x \in Nat : 1 * x <= c * x
  BY <1>2
<1> QED
  BY <1>2, <1>3

-----------------------------------------------------------------------------
(* Rounding.                                                               *)

(* Precision bits hold an even number of values, and some.                 *)
Mantissas == Conv!Pow2[Precision]

(* What WidthsAssumption says of the constants, and what follows at once.  *)
LEMMA Widths ==
    /\ Precision \in Nat \ {0} /\ Bits \in Nat \ {0} /\ SmallBits \in Nat \ {0}
    /\ Mantissas \in Nat \ {0}
    /\ \E h \in Nat \ {0} : Mantissas = 2 * h
    /\ Scale \in Nat \ {0} /\ \E e \in Nat : Scale = Conv!Pow2[e]
    /\ Limit \in Nat
<1>1. /\ Precision \in Nat \ {0} /\ Bits \in Nat \ {0} /\ SmallBits \in Nat \ {0}
      /\ Limit \in Nat /\ Scale \in Nat /\ \E e \in 0..Scale : Scale = Conv!Pow2[e]
  BY WidthsAssumption
<1>2. PICK e \in 0..Scale : Scale = Conv!Pow2[e]
  BY <1>1
<1>3. e \in Nat /\ Scale \in Nat \ {0}
  BY <1>1, <1>2, Pow2Next
<1>4. Precision - 1 \in Nat /\ Precision - 1 + 1 = Precision
  BY <1>1
<1>5. Mantissas = 2 * Conv!Pow2[Precision - 1] /\ Conv!Pow2[Precision - 1] \in Nat \ {0}
  BY <1>4, Pow2Next DEF Mantissas
<1> QED
  BY <1>1, <1>2, <1>3, <1>5

(* The exponent of a number.                                               *)
LEMMA UlpExists ==
    ASSUME NEW x \in Nat
    PROVE  \E e \in Nat : /\ Conv!Ulp(x) = Conv!Pow2[e]
                          /\ x < Mantissas * Conv!Pow2[e]
                          /\ e = 0 \/ 2 * x >= Mantissas * Conv!Pow2[e]
<1> DEFINE fits == {e \in Nat : x < Mantissas * Conv!Pow2[e]}
           Is(e) == /\ x < Mantissas * Conv!Pow2[e]
                    /\ e = 0 \/ 2 * x >= Mantissas * Conv!Pow2[e]
<1>1. \A e \in Nat : Conv!Pow2[e] \in Nat \ {0} /\ Mantissas * Conv!Pow2[e] \in Nat
  BY Pow2Next, Widths
<1>2. x \in fits
  <2>1. x < Conv!Pow2[x] /\ 1 * Conv!Pow2[x] <= Mantissas * Conv!Pow2[x]
    BY <1>1, Pow2Next, Widths
  <2> QED
    BY <1>1, <2>1
<1>3. PICK e \in fits : \A k \in fits : e <= k
  BY <1>2, Least
<1>4. e \in 0..x
  BY <1>2, <1>3
<1>5. e = 0 \/ 2 * x >= Mantissas * Conv!Pow2[e]
  <2> SUFFICES ASSUME e # 0
               PROVE  2 * x >= Mantissas * Conv!Pow2[e]
    OBVIOUS
  <2>1. e - 1 \in Nat /\ e - 1 + 1 = e /\ e - 1 \notin fits
    BY <1>3
  <2>2. Conv!Pow2[e] = 2 * Conv!Pow2[e - 1]
    BY <2>1, Pow2Next
  <2>3. x >= Mantissas * Conv!Pow2[e - 1]
    BY <1>1, <2>1
  <2> DEFINE u == Conv!Pow2[e - 1]
  <2>4. u \in Nat
    BY <1>1, <2>1
  <2> HIDE DEF u
  <2>5. Mantissas * (2 * u) = 2 * (Mantissas * u) /\ Mantissas * u \in Nat
    BY <2>4, Widths
  <2> QED
    BY <2>2, <2>3, <2>5 DEF u
<1>6. \E k \in 0..x : Is(k)
  BY <1>3, <1>4, <1>5
<1>7. Conv!Abs(x) = x
  BY DEF Conv!Abs
<1> DEFINE chosen == CHOOSE k \in 0..x : Is(k)
<1>8. Conv!Ulp(x) = Conv!Pow2[chosen]
  BY <1>7 DEF Conv!Ulp, Mantissas
<1>9. chosen \in 0..x /\ Is(chosen)
  BY <1>6
<1> HIDE DEF chosen
<1>10. chosen \in Nat
  BY <1>9
<1> QED
  BY <1>8, <1>9, <1>10

(* What rounding does to a natural number: up or down to a multiple of the *)
(* Ulp, the nearer one or, of two, the even one.                           *)
LEMMA Rounded ==
    ASSUME NEW x \in Nat
    PROVE  \E e \in Nat, d \in Nat, r \in Nat :
               LET u == Conv!Pow2[e]
               IN  /\ Conv!Ulp(x) = u
                   /\ u \in Nat \ {0} /\ r < u /\ x = d * u + r
                   /\ d < Mantissas
                   /\ e = 0 \/ 2 * d >= Mantissas
                   /\ Conv!RoundF64(x) =
                         IF 2 * r > u \/ (2 * r = u /\ d % 2 = 1) THEN (d + 1) * u ELSE d * u
<1>1. PICK e \in Nat : /\ Conv!Ulp(x) = Conv!Pow2[e]
                       /\ x < Mantissas * Conv!Pow2[e]
                       /\ e = 0 \/ 2 * x >= Mantissas * Conv!Pow2[e]
  BY UlpExists
<1> DEFINE u == Conv!Pow2[e]
           d == x \div u
           r == x % u
<1>2. u \in Nat \ {0}
  BY Pow2Next
<1>3. Conv!RoundF64(x) = IF 2 * r > u \/ (2 * r = u /\ d % 2 = 1) THEN (d + 1) * u ELSE d * u
  <2>1. Conv!Abs(x) = x /\ ~(x < 0)
    BY DEF Conv!Abs
  <2> QED
    BY <1>1, <2>1, Zenon DEF Conv!RoundF64
<1> HIDE DEF u
<1>4. d \in Nat /\ r \in Nat /\ r < u /\ x = d * u + r
  BY <1>2, Division
<1> HIDE DEF d, r
<1>5. Mantissas \in Nat
  BY Widths
<1>6. x < Mantissas * u /\ (e = 0 \/ 2 * x >= Mantissas * u)
  BY <1>1 DEF u
<1>7. d < Mantissas
  <2>1. d * u < Mantissas * u
    <3>1. d * u \in Nat /\ Mantissas * u \in Nat
      BY <1>2, <1>4, <1>5
    <3> QED
      BY <1>4, <1>6, <3>1
  <2> QED
    BY <1>2, <1>4, <1>5, <2>1
<1>8. e = 0 \/ 2 * d >= Mantissas
  <2> SUFFICES ASSUME 2 * x >= Mantissas * u, 2 * d < Mantissas
               PROVE  FALSE
    BY <1>4, <1>5, <1>6
  <2>1. PICK h \in Nat : Mantissas = 2 * h
    BY Widths
  <2>2. d + 1 <= h
    BY <1>4, <2>1
  <2>3. (d + 1) * u <= h * u
    BY <1>2, <1>4, <2>1, <2>2
  <2>4. (d + 1) * u = d * u + u /\ (2 * h) * u = 2 * (h * u) /\ d * u \in Nat /\ h * u \in Nat
    BY <1>2, <1>4, <2>1
  <2>5. 2 * x >= 2 * (h * u)
    BY <2>1, <2>4
  <2> QED
    BY <1>2, <1>4, <2>3, <2>4, <2>5
<1> QED
  BY <1>1, <1>2, <1>3, <1>4, <1>7, <1>8, Zenon DEF u

(* The larger of two powers of two is a multiple of the smaller.           *)
LEMMA Pow2Divides ==
    ASSUME NEW a \in Nat, NEW b \in Nat, a <= b
    PROVE  \E c \in Nat \ {0} : Conv!Pow2[b] = c * Conv!Pow2[a]
<1>1. b - a \in Nat /\ b - a + a = b
  OBVIOUS
<1>2. Conv!Pow2[b] = Conv!Pow2[b - a] * Conv!Pow2[a]
  BY <1>1, Pow2Sum
<1> QED
  BY <1>1, <1>2, Pow2Next

(* Two different multiples of a number are that number apart at least.     *)
LEMMA NoRest ==
    ASSUME NEW u \in Nat \ {0}, NEW q \in Nat, NEW d \in Nat, NEW r \in Nat, r < u, q * u = d * u + r
    PROVE  r = 0
<1>1. q * u \in Int /\ d * u \in Int /\ (d + 1) * u = d * u + u
  OBVIOUS
<1>2. q <= d => q * u <= d * u
  OBVIOUS
<1>3. q >= d + 1 => q * u >= (d + 1) * u
  OBVIOUS
<1> QED
  BY <1>1, <1>2, <1>3

(* A multiple of its Ulp, or of a multiple of it, is not rounded.          *)
LEMMA MultipleFixed ==
    ASSUME NEW x \in Nat, NEW e \in Nat, Conv!Ulp(x) = Conv!Pow2[e],
           NEW k \in Nat, NEW c \in Nat, x = k * (c * Conv!Pow2[e])
    PROVE  Conv!RoundF64(x) = x
<1>1. PICK a \in Nat, d \in Nat, r \in Nat :
          LET u == Conv!Pow2[a]
          IN  /\ Conv!Ulp(x) = u
              /\ u \in Nat \ {0} /\ r < u /\ x = d * u + r
              /\ Conv!RoundF64(x) =
                    IF 2 * r > u \/ (2 * r = u /\ d % 2 = 1) THEN (d + 1) * u ELSE d * u
  BY Rounded
<1> DEFINE u == Conv!Pow2[a]
<1>2. Conv!Pow2[e] = u
  BY <1>1
<1>3. /\ u \in Nat \ {0} /\ r < u /\ x = d * u + r
      /\ Conv!RoundF64(x) =
            IF 2 * r > u \/ (2 * r = u /\ d % 2 = 1) THEN (d + 1) * u ELSE d * u
  BY <1>1
<1> HIDE DEF u
<1>4. x = (k * c) * u /\ k * c \in Nat
  BY <1>2, <1>3
<1>5. r = 0
  <2> DEFINE q == k * c
  <2> HIDE DEF q
  <2>1. u \in Nat \ {0} /\ q \in Nat /\ q * u = d * u + r /\ r < u
    BY <1>3, <1>4 DEF q
  <2> QED
    BY <2>1, NoRest
<1>6. r = 0 /\ ~(2 * r > u) /\ 2 * r # u /\ d * u + r = d * u
  BY <1>3, <1>5
<1> QED
  BY <1>3, <1>6

(* Precision bits at any exponent are not rounded.                         *)
LEMMA FloatFixed ==
    ASSUME NEW x \in Nat, NEW e \in Nat, NEW k \in 0..Mantissas, x = k * Conv!Pow2[e]
    PROVE  Conv!RoundF64(x) = x
<1> DEFINE w == Conv!Pow2[e]
<1>1. w \in Nat \ {0} /\ k \in Nat /\ Mantissas \in Nat \ {0}
  BY Pow2Next, Widths
<1>2. PICK a \in Nat :
          /\ Conv!Ulp(x) = Conv!Pow2[a]
          /\ a = 0 \/ 2 * x >= Mantissas * Conv!Pow2[a]
  BY UlpExists
<1>3. CASE a <= e
  <2>1. PICK c \in Nat \ {0} : w = c * Conv!Pow2[a]
    BY <1>3, Pow2Divides
  <2> QED
    BY <1>1, <1>2, <2>1, MultipleFixed
<1>4. CASE a > e
  <2> DEFINE u == Conv!Pow2[a]
  <2>1. PICK c \in Nat \ {0} : u = c * (2 * w)
    BY <1>4, Pow2Gap
  <2>2. 2 * x >= Mantissas * u
    BY <1>2, <1>4
  <2> HIDE DEF w, u
  <2>3. 2 * (k * w) >= Mantissas * (c * (2 * w))
    BY <2>1, <2>2 DEF w
  <2>4. Mantissas * (c * (2 * w)) = 2 * ((Mantissas * c) * w) /\ (Mantissas * c) * w \in Int /\ k * w \in Int
    BY <1>1, <2>1
  <2>5. k * w >= (Mantissas * c) * w /\ Mantissas * c \in Nat
    BY <1>1, <2>1, <2>3, <2>4
  <2>6. k >= Mantissas * c
    BY <1>1, <2>5
  <2>7. k = Mantissas /\ c = 1
    <3>1. c >= 2 => Mantissas * c >= Mantissas * 2
      BY <1>1, <2>1
    <3>2. Mantissas * 2 > Mantissas /\ Mantissas * 1 = Mantissas
      BY <1>1
    <3> QED
      BY <1>1, <2>1, <2>5, <2>6, <3>1, <3>2
  <2>8. PICK h \in Nat \ {0} : Mantissas = 2 * h
    BY Widths
  <2>9. x = h * (1 * u)
    <3>1. x = (2 * h) * w /\ u = 2 * w
      BY <1>1, <2>1, <2>7, <2>8 DEF w
    <3> QED
      BY <1>1, <3>1
  <2> QED
    BY <1>2, <2>9, MultipleFixed DEF u
<1> QED
  BY <1>3, <1>4

(* A natural number is rounded to one.                                     *)
LEMMA RoundedIsNat ==
    ASSUME NEW x \in Nat
    PROVE  Conv!RoundF64(x) \in Nat /\ Conv!Ulp(x) \in Nat \ {0}
<1>1. PICK e \in Nat, d \in Nat, r \in Nat :
          LET u == Conv!Pow2[e]
          IN  /\ Conv!Ulp(x) = u
              /\ u \in Nat \ {0} /\ r < u /\ x = d * u + r
              /\ Conv!RoundF64(x) =
                    IF 2 * r > u \/ (2 * r = u /\ d % 2 = 1) THEN (d + 1) * u ELSE d * u
  BY Rounded
<1> DEFINE u == Conv!Pow2[e]
<1>2. /\ Conv!Ulp(x) = u /\ u \in Nat \ {0}
      /\ Conv!RoundF64(x) = (d + 1) * u \/ Conv!RoundF64(x) = d * u
  BY <1>1
<1> HIDE DEF u
<1>3. d * u \in Nat /\ (d + 1) * u \in Nat
  BY <1>2
<1> QED
  BY <1>2, <1>3

(* Rounding never changes the order.                                       *)
LEMMA RoundMonotoneNat ==
    ASSUME NEW x \in Nat, NEW y \in Nat, x <= y
    PROVE  Conv!RoundF64(x) <= Conv!RoundF64(y)
<1> DEFINE R(n, u, d, r) ==
               /\ u \in Nat \ {0} /\ r < u /\ n = d * u + r
               /\ d < Mantissas
               /\ Conv!RoundF64(n) =
                     IF 2 * r > u \/ (2 * r = u /\ d % 2 = 1) THEN (d + 1) * u ELSE d * u
<1>1. PICK a \in Nat, d \in Nat, r \in Nat :
          R(x, Conv!Pow2[a], d, r) /\ (a = 0 \/ 2 * d >= Mantissas)
  BY Rounded
<1>2. PICK b \in Nat, c \in Nat, s \in Nat :
          R(y, Conv!Pow2[b], c, s) /\ (b = 0 \/ 2 * c >= Mantissas)
  BY Rounded
<1> DEFINE u == Conv!Pow2[a]
           w == Conv!Pow2[b]
<1>3. a < b => 2 * u <= w /\ 2 * c >= Mantissas
  BY <1>2, Pow2Gap
<1>4. b < a => 2 * w <= u /\ 2 * d >= Mantissas
  BY <1>1, Pow2Gap
<1>5. a = b => u = w
  OBVIOUS
<1>6. /\ u \in Nat \ {0} /\ r < u /\ x = d * u + r /\ d < Mantissas
      /\ Conv!RoundF64(x) = IF 2 * r > u \/ (2 * r = u /\ d % 2 = 1) THEN (d + 1) * u ELSE d * u
  BY <1>1
<1>7. /\ w \in Nat \ {0} /\ s < w /\ y = c * w + s /\ c < Mantissas
      /\ Conv!RoundF64(y) = IF 2 * s > w \/ (2 * s = w /\ c % 2 = 1) THEN (c + 1) * w ELSE c * w
  BY <1>2
<1> HIDE DEF u, w
<1> DEFINE du == d * u
           cw == c * w
           Mu == Mantissas * u
           Mw == Mantissas * w
<1>8. /\ du \in Nat /\ (d + 1) * u = du + u /\ cw \in Nat /\ (c + 1) * w = cw + w
      /\ Mantissas \in Nat /\ Mu \in Nat /\ Mw \in Nat
      /\ (2 * d) * u = 2 * du /\ (2 * c) * w = 2 * cw
      /\ Mantissas * (2 * u) = 2 * Mu /\ Mantissas * (2 * w) = 2 * Mw
  BY <1>6, <1>7, Widths
<1>9. /\ Conv!RoundF64(x) = du + u \/ Conv!RoundF64(x) = du
      /\ Conv!RoundF64(y) = cw + w \/ Conv!RoundF64(y) = cw
  BY <1>6, <1>7, <1>8
<1>10. x = du + r /\ y = cw + s
  BY <1>6, <1>7
<1>11. du + u <= Mu /\ cw + w <= Mw
  <2>1. d + 1 <= Mantissas /\ c + 1 <= Mantissas
    BY <1>6, <1>7, <1>8
  <2>2. (d + 1) * u <= Mantissas * u /\ (c + 1) * w <= Mantissas * w
    BY <1>6, <1>7, <1>8, <2>1
  <2> QED
    BY <1>8, <2>2
<1>12. CASE a < b
  <2>1. (2 * c) * w >= Mantissas * w
    BY <1>3, <1>7, <1>8, <1>12
  <2>2. Mantissas * w >= Mantissas * (2 * u)
    BY <1>3, <1>6, <1>7, <1>8, <1>12
  <2> HIDE DEF du, cw, Mu, Mw
  <2>3. 2 * cw >= Mw /\ Mw >= 2 * Mu
    BY <1>8, <2>1, <2>2 DEF Mw
  <2> QED
    BY <1>6, <1>7, <1>8, <1>9, <1>11, <2>3
<1>13. CASE b < a
  <2>1. (2 * d) * u >= Mantissas * u
    BY <1>4, <1>6, <1>8, <1>13
  <2>2. Mantissas * u >= Mantissas * (2 * w)
    BY <1>4, <1>6, <1>7, <1>8, <1>13
  <2> HIDE DEF du, cw, Mu, Mw
  <2>3. 2 * du >= Mu /\ Mu >= 2 * Mw
    BY <1>8, <2>1, <2>2 DEF Mu
  <2> QED
    BY <1>6, <1>7, <1>8, <1>10, <1>11, <2>3
<1>14. CASE a = b /\ d < c
  <2>1. (d + 1) * u <= c * u /\ u = w
    <3>1. d + 1 <= c
      BY <1>14
    <3> QED
      BY <1>5, <1>6, <1>14, <3>1
  <2>2. du + u <= cw
    BY <1>8, <2>1
  <2> HIDE DEF du, cw, Mu, Mw
  <2> QED
    BY <1>6, <1>7, <1>8, <1>9, <2>2
<1>15. CASE a = b /\ c < d
  <2>1. (c + 1) * w <= d * w /\ u = w
    <3>1. c + 1 <= d
      BY <1>15
    <3> QED
      BY <1>5, <1>7, <1>15, <3>1
  <2>2. cw + w <= du
    BY <1>8, <2>1
  <2> HIDE DEF du, cw, Mu, Mw
  <2> QED
    BY <1>6, <1>7, <1>8, <1>10, <2>2
<1>16. CASE a = b /\ c = d
  <2>1. u = w
    BY <1>5, <1>16
  <2>2. r <= s
    BY <1>6, <1>7, <1>8, <1>16, <2>1
  <2>3. 2 * r > u \/ (2 * r = u /\ d % 2 = 1) => 2 * s > u \/ (2 * s = u /\ d % 2 = 1)
    BY <1>6, <2>2
  <2> QED
    BY <1>6, <1>7, <1>8, <1>16, <2>1, <2>3
<1> QED
  BY <1>12, <1>13, <1>14, <1>15, <1>16

(* Rounding is the same on both sides of zero.                             *)
LEMMA RoundNegated ==
    ASSUME NEW x \in Nat
    PROVE  /\ Conv!RoundF64(-x) = -Conv!RoundF64(x) /\ Conv!Ulp(-x) = Conv!Ulp(x)
           /\ Conv!RoundF64(x) \in Nat /\ Conv!RoundF64(0) = 0
<1>1. Conv!Abs(-x) = Conv!Abs(x) /\ -x \in Int
  BY DEF Conv!Abs
<1>2. Conv!Ulp(-x) = Conv!Ulp(x)
  BY <1>1, Zenon DEF Conv!Ulp
<1>3. Conv!RoundF64(0) = 0
  <2>1. 0 = 0 * Conv!Pow2[0] /\ 0 \in 0..Mantissas
    BY Pow2Next, Widths
  <2> QED
    BY <2>1, FloatFixed
<1>4. Conv!RoundF64(x) \in Nat
  BY RoundedIsNat
<1> DEFINE magnitude(a, u) ==
               (IF 2 * (a % u) > u \/ (2 * (a % u) = u /\ (a \div u) % 2 = 1)
                THEN a \div u + 1 ELSE a \div u) * u
<1>5. ASSUME NEW y \in Int
      PROVE  Conv!RoundF64(y) = IF y < 0 THEN -magnitude(Conv!Abs(y), Conv!Ulp(y))
                                ELSE magnitude(Conv!Abs(y), Conv!Ulp(y))
  BY Zenon DEF Conv!RoundF64
<1> HIDE DEF magnitude
<1>6. CASE x = 0
  BY <1>2, <1>3, <1>4, <1>6
<1>7. CASE x # 0
  <2>1. -x < 0 /\ ~(x < 0) /\ x \in Int
    BY <1>7
  <2>2. Conv!RoundF64(-x) = -magnitude(Conv!Abs(-x), Conv!Ulp(-x))
    BY <1>1, <1>5, <2>1
  <2>3. Conv!RoundF64(x) = magnitude(Conv!Abs(x), Conv!Ulp(x))
    BY <1>5, <2>1
  <2> QED
    BY <1>1, <1>2, <1>3, <1>4, <2>2, <2>3
<1> QED
  BY <1>6, <1>7

(* The order of integers survives rounding.                                *)
LEMMA RoundMonotone ==
    ASSUME NEW x \in Int, NEW y \in Int, x <= y
    PROVE  /\ Conv!RoundF64(x) \in Int /\ Conv!RoundF64(y) \in Int
           /\ Conv!RoundF64(x) <= Conv!RoundF64(y)
<1>1. \A n \in Nat : /\ Conv!RoundF64(-n) = -Conv!RoundF64(n)
                     /\ Conv!RoundF64(n) \in Nat
  BY RoundNegated
<1>2. CASE x >= 0
  <2>1. x \in Nat /\ y \in Nat
    BY <1>2
  <2> QED
    BY <1>1, <2>1, RoundMonotoneNat
<1>3. CASE y < 0
  <2>1. -y \in Nat /\ -x \in Nat /\ -y <= -x /\ -(-x) = x /\ -(-y) = y
    BY <1>3
  <2>2. Conv!RoundF64(-y) <= Conv!RoundF64(-x)
    BY <2>1, RoundMonotoneNat
  <2>3. /\ Conv!RoundF64(x) = -Conv!RoundF64(-x) /\ Conv!RoundF64(-x) \in Nat
        /\ Conv!RoundF64(y) = -Conv!RoundF64(-y) /\ Conv!RoundF64(-y) \in Nat
    BY <1>1, <2>1
  <2> QED
    BY <2>2, <2>3
<1>4. CASE x < 0 /\ y >= 0
  <2>1. y \in Nat /\ -x \in Nat /\ -(-x) = x
    BY <1>4
  <2>2. /\ Conv!RoundF64(x) = -Conv!RoundF64(-x) /\ Conv!RoundF64(-x) \in Nat
        /\ Conv!RoundF64(y) \in Nat
    BY <1>1, <2>1
  <2> QED
    BY <2>2
<1> QED
  BY <1>2, <1>3, <1>4

(* What has been rounded is a float64.                                     *)
LEMMA RoundFixed ==
    ASSUME NEW x \in Int
    PROVE  Conv!RoundF64(x) \in Int /\ Conv!IsF64(Conv!RoundF64(x))
<1>1. ASSUME NEW n \in Nat
      PROVE  Conv!RoundF64(Conv!RoundF64(n)) = Conv!RoundF64(n)
  <2>1. PICK e \in Nat, d \in Nat, r \in Nat :
            /\ d < Mantissas
            /\ \/ Conv!RoundF64(n) = (d + 1) * Conv!Pow2[e]
               \/ Conv!RoundF64(n) = d * Conv!Pow2[e]
    BY Rounded
  <2>2. d \in 0..Mantissas /\ d + 1 \in 0..Mantissas
    BY <2>1, Widths
  <2>3. Conv!RoundF64(n) \in Nat
    BY RoundNegated
  <2> QED
    BY <2>1, <2>2, <2>3, FloatFixed
<1>2. \A n \in Nat : /\ Conv!RoundF64(-n) = -Conv!RoundF64(n)
                     /\ Conv!RoundF64(n) \in Nat
  BY RoundNegated
<1>3. CASE x >= 0
  <2>1. x \in Nat
    BY <1>3
  <2> QED
    BY <1>1, <1>2, <2>1 DEF Conv!IsF64
<1>4. CASE x < 0
  <2>1. -x \in Nat /\ -(-x) = x
    BY <1>4
  <2> DEFINE y == Conv!RoundF64(-x)
  <2>2. Conv!RoundF64(x) = -y /\ y \in Nat
    BY <1>2, <2>1
  <2>3. Conv!RoundF64(-y) = -Conv!RoundF64(y)
    BY <1>2, <2>2
  <2>4. Conv!RoundF64(y) = y
    BY <1>1, <2>1
  <2> HIDE DEF y
  <2> QED
    BY <2>2, <2>3, <2>4 DEF Conv!IsF64
<1> QED
  BY <1>3, <1>4

(* Rounding keeps whole numbers whole.                                     *)
LEMMA RoundKeepsWhole ==
    ASSUME NEW a \in Int
    PROVE  \E b \in Int : Conv!RoundF64(a * Scale) = b * Scale
<1>1. PICK s \in Nat : Scale = Conv!Pow2[s]
  BY Widths
<1>2. Scale \in Nat \ {0}
  BY Widths
<1>3. ASSUME NEW n \in Nat
      PROVE  \E b \in Nat : Conv!RoundF64(n * Scale) = b * Scale
  <2> DEFINE x == n * Scale
  <2>1. x \in Nat
    BY <1>2
  <2> HIDE DEF x
  <2>2. PICK e \in Nat, d \in Nat, r \in Nat :
            /\ Conv!Ulp(x) = Conv!Pow2[e]
            /\ \/ Conv!RoundF64(x) = (d + 1) * Conv!Pow2[e]
               \/ Conv!RoundF64(x) = d * Conv!Pow2[e]
    BY <2>1, Rounded
  <2>3. CASE e <= s
    <3>1. PICK c \in Nat \ {0} : Scale = c * Conv!Pow2[e]
      BY <1>1, <2>3, Pow2Divides
    <3>2. x = n * (c * Conv!Pow2[e])
      BY <3>1 DEF x
    <3>3. Conv!RoundF64(x) = x
      BY <2>1, <2>2, <3>2, MultipleFixed
    <3> QED
      BY <3>3 DEF x
  <2>4. CASE s < e
    <3>1. PICK c \in Nat \ {0} : Conv!Pow2[e] = c * Scale
      BY <1>1, <2>4, Pow2Divides
    <3>2. /\ (d + 1) * (c * Scale) = ((d + 1) * c) * Scale /\ (d + 1) * c \in Nat
          /\ d * (c * Scale) = (d * c) * Scale /\ d * c \in Nat
      BY <1>2
    <3> QED
      BY <2>2, <3>1, <3>2 DEF x
  <2> QED
    BY <2>3, <2>4 DEF x
<1>4. CASE a >= 0
  <2>1. a \in Nat
    BY <1>4
  <2> QED
    BY <1>3, <2>1
<1>5. CASE a < 0
  <2>1. -a \in Nat
    BY <1>5
  <2>2. PICK b \in Nat : Conv!RoundF64((-a) * Scale) = b * Scale
    BY <1>3, <2>1
  <2> DEFINE x == (-a) * Scale
  <2>3. x \in Nat /\ a * Scale = -x
    BY <1>2, <2>1
  <2>4. Conv!RoundF64(x) = b * Scale
    BY <2>2
  <2> HIDE DEF x
  <2>5. Conv!RoundF64(-x) = -(b * Scale)
    BY <2>3, <2>4, RoundNegated
  <2>6. -(b * Scale) = (-b) * Scale /\ -b \in Int
    BY <1>2
  <2> QED
    BY <2>3, <2>5, <2>6
<1> QED
  BY <1>4, <1>5

(* No float64 is nearer to a number than what it is rounded to.            *)
LEMMA BetweenFloats ==
    ASSUME NEW z \in Nat, Conv!IsF64(z), NEW e \in Nat, NEW d \in Nat, d < Mantissas,
           e = 0 \/ 2 * d >= Mantissas
    PROVE  z <= d * Conv!Pow2[e] \/ z >= (d + 1) * Conv!Pow2[e]
<1> SUFFICES ASSUME z > d * Conv!Pow2[e], z < (d + 1) * Conv!Pow2[e]
             PROVE  FALSE
  <2>1. d * Conv!Pow2[e] \in Int /\ (d + 1) * Conv!Pow2[e] \in Int
    <3>1. Conv!Pow2[e] \in Nat
      BY Pow2Next
    <3> QED
      BY <3>1
  <2> QED
    BY <2>1
<1>1. PICK a \in Nat, c \in Nat, r \in Nat :
          /\ c < Mantissas
          /\ \/ Conv!RoundF64(z) = (c + 1) * Conv!Pow2[a]
             \/ Conv!RoundF64(z) = c * Conv!Pow2[a]
  BY Rounded
<1>2. PICK k \in 0..Mantissas : z = k * Conv!Pow2[a]
  <2>1. c \in 0..Mantissas /\ c + 1 \in 0..Mantissas
    BY <1>1, Widths
  <2> QED
    BY <1>1, <2>1 DEF Conv!IsF64
<1> DEFINE u == Conv!Pow2[e]
           w == Conv!Pow2[a]
<1>3. u \in Nat \ {0} /\ w \in Nat \ {0} /\ Mantissas \in Nat /\ k \in Nat /\ k <= Mantissas
  BY Pow2Next, Widths
<1>4. d * u < z /\ z < (d + 1) * u /\ z = k * w
  BY <1>2
<1>5. CASE e <= a
  <2>1. PICK q \in Nat \ {0} : w = q * u
    BY <1>5, Pow2Divides
  <2> HIDE DEF u, w
  <2>2. k * (q * u) = (k * q) * u /\ k * q \in Nat
    BY <1>3, <2>1
  <2> DEFINE n == k * q
  <2> HIDE DEF n
  <2>3. n \in Nat /\ d * u < n * u /\ n * u < (d + 1) * u
    BY <1>4, <2>1, <2>2 DEF n
  <2>4. n <= d => n * u <= d * u
    BY <1>3, <2>3
  <2>5. n >= d + 1 => n * u >= (d + 1) * u
    BY <1>3, <2>3
  <2>6. n * u \in Int /\ d * u \in Int /\ (d + 1) * u \in Int
    BY <1>3, <2>3
  <2> QED
    BY <2>3, <2>4, <2>5, <2>6
<1>6. CASE a < e
  <2>1. 2 * w <= u /\ 2 * d >= Mantissas
    BY <1>6, Pow2Gap
  <2> HIDE DEF u, w
  <2>2. k * (2 * w) <= Mantissas * (2 * w)
    BY <1>3
  <2>3. Mantissas * (2 * w) <= (2 * d) * (2 * w)
    BY <1>3, <2>1
  <2>4. (2 * d) * (2 * w) <= (2 * d) * u
    BY <1>3, <2>1
  <2>5. k * (2 * w) = 2 * (k * w) /\ (2 * d) * u = 2 * (d * u) /\ k * w \in Int /\ d * u \in Int
        /\ Mantissas * (2 * w) \in Int /\ (2 * d) * (2 * w) \in Int
    BY <1>3
  <2>6. 2 * (k * w) <= 2 * (d * u)
    BY <2>2, <2>3, <2>4, <2>5
  <2> QED
    BY <1>4, <2>5, <2>6
<1> QED
  BY <1>5, <1>6

(* RoundF64 is the nearest float64 of a natural number ...                 *)
LEMMA NearestNat ==
    ASSUME NEW x \in Nat, NEW z \in Int, Conv!IsF64(z)
    PROVE  Conv!Abs(Conv!RoundF64(x) - x) <= Conv!Abs(z - x)
<1>1. PICK e \in Nat, d \in Nat, r \in Nat :
          LET u == Conv!Pow2[e]
          IN  /\ u \in Nat \ {0} /\ r < u /\ x = d * u + r
              /\ d < Mantissas
              /\ e = 0 \/ 2 * d >= Mantissas
              /\ Conv!RoundF64(x) =
                    IF 2 * r > u \/ (2 * r = u /\ d % 2 = 1) THEN (d + 1) * u ELSE d * u
  BY Rounded
<1> DEFINE u == Conv!Pow2[e]
           low == d * u
           high == (d + 1) * u
<1>2. /\ u \in Nat \ {0} /\ r < u /\ x = low + r
      /\ \/ Conv!RoundF64(x) = high /\ 2 * r >= u
         \/ Conv!RoundF64(x) = low /\ 2 * r <= u
  BY <1>1
<1>3. z <= low \/ z >= high
  <2>1. CASE z \in Nat
    BY <1>1, <2>1, BetweenFloats
  <2>2. CASE z \notin Nat
    <3>1. low \in Nat
      BY <1>2
    <3> HIDE DEF low
    <3> QED
      BY <2>2, <3>1
  <2> QED
    BY <2>1, <2>2
<1>4. low \in Nat /\ high = low + u
  BY <1>2
<1> HIDE DEF u, low, high
<1> DEFINE y == Conv!RoundF64(x)
<1> HIDE DEF y
<1>5. (y = high /\ 2 * r >= u) \/ (y = low /\ 2 * r <= u)
  BY <1>2 DEF y
<1>6. Conv!Abs(y - x) <= Conv!Abs(z - x)
  BY <1>2, <1>3, <1>4, <1>5 DEF Conv!Abs
<1> QED
  BY <1>6 DEF y

(* ... and of an integer.                                                  *)
LEMMA Nearest ==
    ASSUME NEW x \in Int, NEW z \in Int, Conv!IsF64(z)
    PROVE  Conv!Abs(Conv!RoundF64(x) - x) <= Conv!Abs(z - x)
<1>1. CASE x >= 0
  <2>1. x \in Nat
    BY <1>1
  <2> QED
    BY <2>1, NearestNat
<1>2. CASE x < 0
  <2> DEFINE n == -x
             y == Conv!RoundF64(n)
  <2>1. n \in Nat /\ -n = x
    BY <1>2
  <2>2. Conv!RoundF64(x) = -y /\ y \in Nat
    BY <2>1, RoundNegated
  <2>3. Conv!IsF64(-z)
    <3>1. CASE z >= 0
      <4>1. z \in Nat
        BY <3>1
      <4> QED
        BY <4>1, RoundNegated DEF Conv!IsF64
    <3>2. CASE z < 0
      <4>1. -z \in Nat /\ -(-z) = z
        BY <3>2
      <4>2. Conv!RoundF64(z) = -Conv!RoundF64(-z) /\ Conv!RoundF64(-z) \in Nat
        BY <4>1, RoundNegated
      <4> QED
        BY <4>1, <4>2 DEF Conv!IsF64
    <3> QED
      BY <3>1, <3>2
  <2>4. -z \in Int
    OBVIOUS
  <2>5. Conv!Abs(y - n) <= Conv!Abs(-z - n)
    BY <2>1, <2>3, <2>4, NearestNat
  <2> HIDE DEF n, y
  <2>6. Conv!Abs(-y - x) = Conv!Abs(y - n) /\ Conv!Abs(-z - n) = Conv!Abs(z - x)
    BY <2>1, <2>2 DEF Conv!Abs
  <2> QED
    BY <2>2, <2>5, <2>6
<1> QED
  BY <1>1, <1>2

-----------------------------------------------------------------------------
(* Truncating.                                                             *)

(* Truncating a natural number, and its negation, goes towards zero.       *)
LEMMA TruncateNat ==
    ASSUME NEW x \in Nat
    PROVE  \E q \in Nat : /\ Conv!Truncate(x) = q * Scale /\ Conv!Truncate(-x) = -(q * Scale)
                          /\ q * Scale \in Nat /\ q * Scale <= x /\ x < q * Scale + Scale
<1>1. Scale \in Nat \ {0}
  BY Widths
<1> DEFINE q == x \div Scale
           r == x % Scale
<1>2. q \in Nat /\ r \in Nat /\ r < Scale /\ x = q * Scale + r
  BY <1>1, Division
<1>3. Conv!Truncate(x) = q * Scale
  <2>1. ~(x < 0)
    OBVIOUS
  <2> QED
    BY <2>1, Zenon DEF Conv!Truncate
<1>4. Conv!Truncate(-x) = -(q * Scale)
  <2>1. CASE x = 0
    <3>1. -x = x
      <4>1. \A n \in Int : n <= 0 /\ 0 <= n => -n = n
        OBVIOUS
      <4>2. x \in Int /\ x <= 0 /\ 0 <= x
        BY <2>1
      <4> QED
        BY <4>1, <4>2, Zenon
    <3>2. Conv!Truncate(-x) = q * Scale
      BY <1>3, <3>1
    <3> HIDE DEF q
    <3>3. q * Scale = 0
      <4>1. q * Scale \in Nat
        BY <1>1, <1>2
      <4> QED
        BY <1>2, <2>1, <4>1
    <3> QED
      BY <3>2, <3>3
  <2>2. CASE x # 0
    <3>1. -x < 0 /\ -(-x) = x
      BY <2>2
    <3>2. Conv!Truncate(-x) = -(x \div Scale) * Scale
      BY <3>1, Zenon DEF Conv!Truncate
    <3> HIDE DEF q
    <3>3. Conv!Truncate(-x) = -q * Scale
      BY <3>2 DEF q
    <3>4. -q * Scale = -(q * Scale)
      BY <1>1, <1>2
    <3> QED
      BY <3>3, <3>4
  <2> QED
    BY <2>1, <2>2
<1> HIDE DEF q, r
<1>5. q * Scale \in Nat
  BY <1>1, <1>2
<1> DEFINE t == q * Scale
<1> HIDE DEF t
<1>6. t \in Nat /\ t <= x /\ x < t + Scale
  BY <1>1, <1>2, <1>5 DEF t
<1> QED
  BY <1>2, <1>3, <1>4, <1>6 DEF t

(* The whole number an integer is truncated to is less than 1 away.        *)
LEMMA Truncated ==
    ASSUME NEW x \in Int
    PROVE  \E q \in Int : LET t == q * Scale
                          IN  /\ Conv!Truncate(x) = t /\ t \in Int
                              /\ x >= 0 => 0 <= t /\ t <= x /\ x < t + Scale
                              /\ x <= 0 => t - Scale < x /\ x <= t /\ t <= 0
<1>1. Scale \in Nat \ {0}
  BY Widths
<1>2. CASE x >= 0
  <2>1. x \in Nat
    BY <1>2
  <2>2. PICK q \in Nat : /\ Conv!Truncate(x) = q * Scale
                         /\ q * Scale \in Nat /\ q * Scale <= x /\ x < q * Scale + Scale
    BY <2>1, TruncateNat
  <2> DEFINE t == q * Scale
  <2> HIDE DEF t
  <2>3. Conv!Truncate(x) = t /\ t \in Nat /\ t <= x /\ x < t + Scale
    BY <2>2 DEF t
  <2>4. /\ Conv!Truncate(x) = t /\ t \in Int
        /\ x >= 0 => 0 <= t /\ t <= x /\ x < t + Scale
        /\ x <= 0 => t - Scale < x /\ x <= t /\ t <= 0
    BY <1>1, <1>2, <2>3
  <2> QED
    BY <2>2, <2>4 DEF t
<1>3. CASE x < 0
  <2>1. -x \in Nat /\ -(-x) = x
    BY <1>3
  <2>2. PICK q \in Nat : /\ Conv!Truncate(x) = -(q * Scale)
                         /\ q * Scale \in Nat /\ q * Scale <= -x /\ -x < q * Scale + Scale
    BY <2>1, TruncateNat
  <2> DEFINE t == (-q) * Scale
             s == q * Scale
  <2>3. t = -s /\ -q \in Int
    BY <1>1, <2>2
  <2> HIDE DEF t, s
  <2>4. Conv!Truncate(x) = -s /\ s \in Nat /\ s <= -x /\ -x < s + Scale
    BY <2>2 DEF s
  <2>5. /\ Conv!Truncate(x) = t /\ t \in Int
        /\ x >= 0 => 0 <= t /\ t <= x /\ x < t + Scale
        /\ x <= 0 => t - Scale < x /\ x <= t /\ t <= 0
    BY <1>1, <1>3, <2>3, <2>4
  <2> QED
    BY <2>3, <2>5 DEF t
<1> QED
  BY <1>2, <1>3

(* Whole numbers are 1 apart at least.                                     *)
LEMMA WholeApart ==
    ASSUME NEW a \in Int, NEW b \in Int, a < b
    PROVE  a * Scale + Scale <= b * Scale /\ a * Scale \in Int /\ b * Scale \in Int
<1>1. Scale \in Nat \ {0}
  BY Widths
<1>2. (a + 1) * Scale <= b * Scale
  BY <1>1
<1>3. (a + 1) * Scale = a * Scale + Scale
  BY <1>1
<1> QED
  BY <1>1, <1>2, <1>3

(* A whole number is truncated to itself.                                  *)
LEMMA TruncateFixed ==
    ASSUME NEW a \in Int
    PROVE  Conv!Truncate(a * Scale) = a * Scale
<1>1. Scale \in Nat \ {0}
  BY Widths
<1> DEFINE x == a * Scale
<1>2. x \in Int
  BY <1>1
<1>3. PICK q \in Int : LET t == q * Scale
                       IN  /\ Conv!Truncate(x) = t /\ t \in Int
                           /\ x >= 0 => 0 <= t /\ t <= x /\ x < t + Scale
                           /\ x <= 0 => t - Scale < x /\ x <= t /\ t <= 0
  BY <1>2, Truncated
<1> DEFINE t == q * Scale
<1>4. a < q => x + Scale <= t
  BY WholeApart
<1>5. q < a => t + Scale <= x
  BY WholeApart
<1>6. a = q => x = t
  OBVIOUS
<1> HIDE DEF x
<1>7. /\ Conv!Truncate(x) = t /\ t \in Int
      /\ x >= 0 => 0 <= t /\ t <= x /\ x < t + Scale
      /\ x <= 0 => t - Scale < x /\ x <= t /\ t <= 0
  BY <1>3
<1> HIDE DEF t
<1>8. x = t
  BY <1>1, <1>2, <1>4, <1>5, <1>6, <1>7
<1> QED
  BY <1>7, <1>8 DEF x

(* The order of integers survives truncating.                              *)
LEMMA TruncateMonotone ==
    ASSUME NEW x \in Int, NEW y \in Int, x <= y
    PROVE  /\ Conv!Truncate(x) \in Int /\ Conv!Truncate(y) \in Int
           /\ Conv!Truncate(x) <= Conv!Truncate(y)
<1>1. PICK q \in Int : LET t == q * Scale
                       IN  /\ Conv!Truncate(x) = t /\ t \in Int
                           /\ x >= 0 => 0 <= t /\ t <= x /\ x < t + Scale
                           /\ x <= 0 => t - Scale < x /\ x <= t /\ t <= 0
  BY Truncated
<1>2. PICK p \in Int : LET t == p * Scale
                       IN  /\ Conv!Truncate(y) = t /\ t \in Int
                           /\ y >= 0 => 0 <= t /\ t <= y /\ y < t + Scale
                           /\ y <= 0 => t - Scale < y /\ y <= t /\ t <= 0
  BY Truncated
<1> DEFINE s == q * Scale
           t == p * Scale
<1>3. p < q => t + Scale <= s
  BY WholeApart
<1>4. p = q => s = t
  OBVIOUS
<1>5. q < p => s + Scale <= t
  BY WholeApart
<1>6. /\ Conv!Truncate(x) = s /\ s \in Int
      /\ x >= 0 => 0 <= s /\ s <= x /\ x < s + Scale
      /\ x <= 0 => s - Scale < x /\ x <= s /\ s <= 0
  BY <1>1
<1>7. /\ Conv!Truncate(y) = t /\ t \in Int
      /\ y >= 0 => 0 <= t /\ t <= y /\ y < t + Scale
      /\ y <= 0 => t - Scale < y /\ y <= t /\ t <= 0
  BY <1>2
<1>8. Scale \in Nat \ {0}
  BY Widths
<1> HIDE DEF s, t
<1>9. s <= t
  BY <1>3, <1>4, <1>5, <1>6, <1>7, <1>8
<1> QED
  BY <1>6, <1>7, <1>9

(* The whole part of a float64 is one.                                     *)
LEMMA TruncateFloat ==
    ASSUME NEW x \in Int, Conv!IsF64(x)
    PROVE  Conv!IsF64(Conv!Truncate(x))
<1>1. PICK s \in Nat : Scale = Conv!Pow2[s]
  BY Widths
<1>2. Scale \in Nat \ {0} /\ Mantissas \in Nat \ {0}
  BY Widths
<1>3. ASSUME NEW n \in Nat, Conv!IsF64(n)
      PROVE  Conv!Truncate(n) \in Nat /\ Conv!IsF64(Conv!Truncate(n))
  <2>1. PICK e \in Nat, d \in Nat, r \in Nat :
            /\ d < Mantissas
            /\ \/ Conv!RoundF64(n) = (d + 1) * Conv!Pow2[e]
               \/ Conv!RoundF64(n) = d * Conv!Pow2[e]
    BY Rounded
  <2>2. PICK k \in 0..Mantissas : n = k * Conv!Pow2[e]
    <3>1. d \in 0..Mantissas /\ d + 1 \in 0..Mantissas
      BY <1>2, <2>1
    <3> QED
      BY <1>3, <2>1, <3>1 DEF Conv!IsF64
  <2>3. PICK q \in Nat : Conv!Truncate(n) = q * Scale /\ q * Scale \in Nat /\ q * Scale <= n
    BY TruncateNat
  <2> DEFINE u == Conv!Pow2[e]
  <2>4. u \in Nat \ {0} /\ k \in Nat /\ k <= Mantissas
    BY <1>2, Pow2Next
  <2>5. CASE s <= e
    <3>1. PICK c \in Nat \ {0} : u = c * Scale
      BY <1>1, <2>5, Pow2Divides
    <3> HIDE DEF u
    <3>2. n = (k * c) * Scale /\ k * c \in Int
      BY <1>2, <2>2, <2>4, <3>1 DEF u
    <3>3. Conv!Truncate(n) = n
      BY <3>2, TruncateFixed
    <3> QED
      BY <1>3, <3>3
  <2>6. CASE e < s
    <3>1. u <= Scale
      <4>1. 2 * u <= Scale
        BY <1>1, <2>6, Pow2Gap
      <4> HIDE DEF u
      <4> QED
        BY <1>2, <2>4, <4>1
    <3> HIDE DEF u
    <3>2. k * u <= Mantissas * u /\ Mantissas * u <= Mantissas * Scale
      BY <1>2, <2>4, <3>1
    <3>3. k * u \in Int /\ Mantissas * u \in Int /\ Mantissas * Scale \in Int
      BY <1>2, <2>4
    <3>4. q * Scale <= Mantissas * Scale
      BY <2>2, <2>3, <3>2, <3>3 DEF u
    <3>5. q <= Mantissas
      <4>1. q > Mantissas => Mantissas * Scale + Scale <= q * Scale
        BY <1>2, WholeApart
      <4> QED
        BY <1>2, <2>3, <3>3, <3>4, <4>1
    <3>6. q \in 0..Mantissas
      BY <1>2, <3>5
    <3> QED
      BY <1>1, <2>3, <3>6, FloatFixed DEF Conv!IsF64
  <2> QED
    BY <2>5, <2>6
<1>4. CASE x >= 0
  <2>1. x \in Nat
    BY <1>4
  <2> QED
    BY <1>3, <2>1
<1>5. CASE x < 0
  <2>1. -x \in Nat /\ -(-x) = x
    BY <1>5
  <2>2. Conv!IsF64(-x)
    <3>1. Conv!RoundF64(x) = -Conv!RoundF64(-x) /\ Conv!RoundF64(-x) \in Nat
      BY <2>1, RoundNegated
    <3> QED
      BY <2>1, <3>1 DEF Conv!IsF64
  <2> DEFINE t == Conv!Truncate(-x)
  <2>3. t \in Nat /\ Conv!IsF64(t)
    BY <1>3, <2>1, <2>2
  <2>4. Conv!Truncate(x) = -t
    <3>1. PICK q \in Nat : /\ Conv!Truncate(-x) = q * Scale
                           /\ Conv!Truncate(-(-x)) = -(q * Scale)
      BY <2>1, TruncateNat
    <3> QED
      BY <2>1, <3>1
  <2> HIDE DEF t
  <2>5. Conv!RoundF64(-t) = -Conv!RoundF64(t)
    BY <2>3, RoundNegated
  <2> QED
    BY <2>3, <2>4, <2>5 DEF Conv!IsF64
<1> QED
  BY <1>4, <1>5

-----------------------------------------------------------------------------
(* The integer types.                                                      *)

(* One more than the largest i64.                                          *)
Half == Conv!Pow2[Bits - 1] * Scale

(* The ends of int64 and uint64 in terms of Half; a float64's mantissas    *)
(* fit well into an int64.                                                 *)
LEMMA Bounds ==
    /\ Scale \in Nat \ {0} /\ Half \in Nat /\ 2 * Scale <= Half
    /\ Conv!MinI = -Half /\ Conv!MaxI = Half - Scale /\ Conv!MaxU = 2 * Half - Scale
    /\ Conv!Pow2[Bits - 1] \in Nat \ {0} /\ Conv!Pow2[Bits] = 2 * Conv!Pow2[Bits - 1]
    /\ Mantissas + 1 <= Conv!Pow2[Bits - 1] /\ Mantissas * Scale + Scale <= Half
    /\ Mantissas * Scale \in Nat
<1>1. Scale \in Nat \ {0} /\ Mantissas \in Nat \ {0}
  BY Widths
<1>2. Bits - 1 \in Nat /\ Bits - 1 + 1 = Bits /\ Precision < Bits - 1 /\ Precision \in Nat
  BY WidthsAssumption
<1> DEFINE B == Conv!Pow2[Bits - 1]
<1>3. B \in Nat \ {0} /\ Conv!Pow2[Bits] = 2 * B
  BY <1>2, Pow2Next
<1>4. 2 * Mantissas <= B
  BY <1>2, Pow2Gap DEF Mantissas
<1> HIDE DEF B
<1>5. /\ Conv!MinI = -(B * Scale) /\ Conv!MaxI = (B - 1) * Scale /\ Conv!MaxU = (2 * B - 1) * Scale
      /\ Half = B * Scale
  BY <1>1, <1>3 DEF Conv!MinI, Conv!MaxI, Conv!MaxU, Half, B
<1>6. (B - 1) * Scale = B * Scale - Scale /\ (2 * B - 1) * Scale = 2 * (B * Scale) - Scale
      /\ B * Scale \in Nat /\ Mantissas * Scale \in Nat
  BY <1>1, <1>3
<1>7. Mantissas + 1 <= B /\ 2 <= B
  BY <1>1, <1>3, <1>4
<1>8. Mantissas * Scale + Scale <= B * Scale
  <2>1. Mantissas < B
    BY <1>1, <1>3, <1>7
  <2> QED
    BY <1>1, <1>3, <2>1, WholeApart
<1>9. 2 * Scale <= B * Scale
  BY <1>1, <1>3, <1>7
<1> QED
  BY <1>1, <1>3, <1>5, <1>6, <1>7, <1>8, <1>9 DEF B

(* The ends of an i64 as float64s: the lower one is exact, the upper one   *)
(* is rounded up to what no i64 holds.                                     *)
LEMMA EndsRounded ==
    /\ Conv!RoundF64(Half) = Half /\ Conv!RoundF64(-Half) = -Half
    /\ Conv!RoundF64(Half - Scale) = Half
<1>1. /\ Scale \in Nat \ {0} /\ Half \in Nat /\ 2 * Scale <= Half /\ Mantissas \in Nat \ {0}
  BY Bounds, Widths
<1>2. PICK s \in Nat : Scale = Conv!Pow2[s]
  BY Widths
<1>3. /\ Bits - 1 \in Nat /\ Bits - 1 - Precision + s \in Nat /\ Precision \in Nat
      /\ s < Bits - 1 - Precision + s
      /\ Bits - 1 + s \in Nat
      /\ Precision + (Bits - 1 - Precision + s) = Bits - 1 + s
  BY <1>2, WidthsAssumption
<1> DEFINE g == Bits - 1 - Precision + s
           W == Conv!Pow2[g]
<1>4. Half = Conv!Pow2[Bits - 1 + s]
  BY <1>2, <1>3, Pow2Sum DEF Half
<1>5. Half = Mantissas * W
  BY <1>3, <1>4, Pow2Sum DEF Mantissas
<1>6. Conv!RoundF64(Half) = Half
  <2>1. Half = 1 * Conv!Pow2[Bits - 1 + s] /\ 1 \in 0..Mantissas
    BY <1>1, <1>4
  <2> QED
    BY <1>1, <1>3, <2>1, FloatFixed
<1>7. Conv!RoundF64(-Half) = -Half
  BY <1>1, <1>6, RoundNegated
<1> DEFINE x == Half - Scale
<1>8. x \in Nat
  BY <1>1
<1>9. PICK e \in Nat, d \in Nat, r \in Nat :
          LET u == Conv!Pow2[e]
          IN  /\ u \in Nat \ {0} /\ r < u /\ x = d * u + r
              /\ d < Mantissas
              /\ e = 0 \/ 2 * d >= Mantissas
              /\ Conv!RoundF64(x) =
                    IF 2 * r > u \/ (2 * r = u /\ d % 2 = 1) THEN (d + 1) * u ELSE d * u
  BY <1>8, Rounded
<1> DEFINE u == Conv!Pow2[e]
<1>10. /\ g \in Nat
       /\ e < g => 2 * u <= W
       /\ g < e => 2 * W <= u /\ 2 * d >= Mantissas
       /\ e = g => u = W
  BY <1>3, <1>9, Pow2Gap
<1>11. W \in Nat \ {0} /\ 2 * Scale <= W
  BY <1>2, <1>3, Pow2Next, Pow2Gap
<1>12. /\ u \in Nat \ {0} /\ r < u /\ x = d * u + r /\ d < Mantissas
       /\ Conv!RoundF64(x) = IF 2 * r > u \/ (2 * r = u /\ d % 2 = 1) THEN (d + 1) * u ELSE d * u
  BY <1>9
<1> HIDE DEF u, W, x, g
<1>13. d + 1 <= Mantissas
  BY <1>1, <1>12
<1>14. /\ (d + 1) * u <= Mantissas * u /\ (d + 1) * u = d * u + u
       /\ d * u \in Nat /\ Mantissas * u \in Nat /\ Mantissas * W = Half
  BY <1>1, <1>5, <1>12, <1>13
<1> DEFINE du == d * u
           Mu == Mantissas * u
<1>15. ~(e < g)
  <2> SUFFICES ASSUME e < g
               PROVE  FALSE
    OBVIOUS
  <2>1. Mantissas * (2 * u) <= Mantissas * W /\ Mantissas * (2 * u) = 2 * Mu
    BY <1>1, <1>10, <1>11, <1>12
  <2>2. 2 * Mu <= Half /\ du + u <= Mu /\ x = du + r /\ du \in Nat /\ Mu \in Nat
    BY <1>12, <1>14, <2>1
  <2> HIDE DEF du, Mu
  <2> QED
    BY <1>1, <1>12, <2>2 DEF x
<1>16. ~(g < e)
  <2> SUFFICES ASSUME g < e
               PROVE  FALSE
    OBVIOUS
  <2>1. Mantissas * (2 * W) <= Mantissas * u /\ Mantissas * (2 * W) = 2 * (Mantissas * W)
    BY <1>1, <1>10, <1>11, <1>12
  <2>2. Mantissas * u <= (2 * d) * u /\ (2 * d) * u = 2 * du
    BY <1>1, <1>10, <1>12
  <2>3. 2 * Half <= Mu /\ Mu <= 2 * du /\ x = du + r /\ du \in Nat /\ Mu \in Nat
    BY <1>12, <1>14, <2>1, <2>2
  <2> HIDE DEF du, Mu
  <2> QED
    BY <1>1, <1>12, <2>3 DEF x
<1>17. u = W
  BY <1>10, <1>15, <1>16
<1>18. d + 1 = Mantissas
  <2> SUFFICES ASSUME d + 2 <= Mantissas
               PROVE  FALSE
    BY <1>1, <1>13
  <2>1. (d + 2) * u <= Mantissas * u /\ (d + 2) * u = du + 2 * u
    BY <1>1, <1>12
  <2>2. du + 2 * u <= Half /\ x = du + r /\ du \in Nat
    BY <1>12, <1>14, <1>17, <2>1
  <2> HIDE DEF du
  <2> QED
    BY <1>1, <1>11, <1>12, <1>17, <2>2 DEF x
<1>19. du + u = Half /\ x = du + r /\ du \in Nat
  BY <1>12, <1>14, <1>17, <1>18
<1>20. 2 * r >= u
  <2> HIDE DEF du
  <2> QED
    BY <1>1, <1>11, <1>12, <1>17, <1>19 DEF x
<1>21. d % 2 = 1
  <2>1. PICK h \in Nat \ {0} : Mantissas = 2 * h
    BY Widths
  <2>2. d = (h - 1) * 2 + 1
    BY <1>1, <1>18, <2>1
  <2> QED
    BY <2>1, <2>2
<1>22. Conv!RoundF64(x) = Half
  BY <1>12, <1>14, <1>17, <1>18, <1>20, <1>21
<1> QED
  BY <1>6, <1>7, <1>22 DEF x

IsWhole(x) == \E a \in Int : x = a * Scale

(* The whole numbers of a range.                                           *)
LEMMA WholeRange ==
    ASSUME NEW low \in Int, NEW high \in Int, NEW v
    PROVE  v \in {n * Scale : n \in low..high} <=>
               IsWhole(v) /\ v \in Int /\ low * Scale <= v /\ v <= high * Scale
<1>1. Scale \in Nat \ {0}
  BY Widths
<1>2. ASSUME NEW n \in low..high, v = n * Scale
      PROVE  IsWhole(v) /\ v \in Int /\ low * Scale <= v /\ v <= high * Scale
  <2>1. low * Scale <= n * Scale /\ n * Scale <= high * Scale /\ n * Scale \in Int /\ n \in Int
    BY <1>1
  <2> QED
    BY <1>2, <2>1 DEF IsWhole
<1>3. ASSUME NEW a \in Int, v = a * Scale, low * Scale <= v, v <= high * Scale
      PROVE  a \in low..high
  <2>1. a < low => a * Scale + Scale <= low * Scale /\ a * Scale \in Int /\ low * Scale \in Int
    BY WholeApart
  <2>2. high < a => high * Scale + Scale <= a * Scale /\ a * Scale \in Int /\ high * Scale \in Int
    BY WholeApart
  <2>3. ~(a < low)
    BY <1>1, <1>3, <2>1
  <2>4. ~(high < a)
    BY <1>1, <1>3, <2>2
  <2> QED
    BY <2>3, <2>4
<1> QED
  BY <1>2, <1>3 DEF IsWhole

(* One more than the largest narrow int.                                   *)
SmallHalf == Conv!Pow2[SmallBits - 1] * Scale

(* A narrow int is exact as a float64 and fits into an int64.              *)
LEMMA SmallBounds ==
    /\ SmallHalf \in Nat /\ IsWhole(SmallHalf) /\ SmallHalf + Scale <= Half
    /\ 2 * SmallHalf <= Mantissas * Scale
    /\ Conv!Pow2[SmallBits] * Scale = 2 * SmallHalf
<1>1. /\ Scale \in Nat \ {0} /\ Half \in Nat /\ 2 * Scale <= Half
      /\ Mantissas * Scale + Scale <= Half /\ Mantissas * Scale \in Nat /\ Mantissas \in Nat
  BY Bounds, Widths
<1>2. SmallBits - 1 \in Nat /\ SmallBits - 1 + 1 = SmallBits /\ SmallBits - 1 < Precision /\ Precision \in Nat
  BY WidthsAssumption
<1> DEFINE b == Conv!Pow2[SmallBits - 1]
<1>3. b \in Nat \ {0} /\ Conv!Pow2[SmallBits] = 2 * b /\ 2 * b <= Mantissas
  BY <1>2, Pow2Next, Pow2Gap DEF Mantissas
<1>4. SmallHalf = b * Scale
  BY DEF SmallHalf
<1> HIDE DEF b
<1>5. b * Scale \in Nat /\ b \in Int /\ (2 * b) * Scale = 2 * (b * Scale) /\ (2 * b) * Scale <= Mantissas * Scale
  BY <1>1, <1>3
<1>6. IsWhole(SmallHalf)
  BY <1>4, <1>5 DEF IsWhole
<1>7. SmallHalf \in Nat /\ 2 * SmallHalf <= Mantissas * Scale
  BY <1>4, <1>5
<1>8. SmallHalf + Scale <= Half
  BY <1>1, <1>7
<1> QED
  BY <1>3, <1>4, <1>5, <1>6, <1>7, <1>8

(* The ends of the integer types are whole numbers.                        *)
LEMMA WholeHalf == IsWhole(Half) /\ IsWhole(-Half) /\ IsWhole(Half - Scale) /\ IsWhole(2 * Half - Scale) /\ IsWhole(0)
<1> DEFINE B == Conv!Pow2[Bits - 1]
<1>1. Scale \in Nat \ {0} /\ B \in Nat /\ Half = B * Scale
  BY Bounds DEF Half
<1> HIDE DEF B
<1>2. /\ -(B * Scale) = (-B) * Scale /\ B * Scale - Scale = (B - 1) * Scale
      /\ 2 * (B * Scale) - Scale = (2 * B - 1) * Scale /\ 0 = 0 * Scale
      /\ B \in Int /\ -B \in Int /\ B - 1 \in Int /\ 2 * B - 1 \in Int /\ 0 \in Int
  BY <1>1
<1> QED
  BY <1>1, <1>2 DEF IsWhole

(* The values of the integer types, by their bounds.                       *)
LEMMA WholeNumbers ==
    ASSUME NEW v
    PROVE  /\ v \in Conv!Numbers("int") <=>
                  IsWhole(v) /\ v \in Int /\ -Half <= v /\ v <= Half - Scale
           /\ v \in Conv!Numbers("smallInt") <=>
                  IsWhole(v) /\ v \in Int /\ -SmallHalf <= v /\ v <= SmallHalf - Scale
           /\ v \in Conv!Numbers("uint") <=>
                  IsWhole(v) /\ v \in Int /\ 0 <= v /\ v <= 2 * Half - Scale
<1>1. Scale \in Nat \ {0}
  BY Widths
<1>2. /\ Conv!Pow2[Bits - 1] \in Nat /\ Conv!Pow2[Bits] = 2 * Conv!Pow2[Bits - 1]
      /\ Conv!Pow2[SmallBits - 1] \in Nat
  <2>1. SmallBits - 1 \in Nat
    BY WidthsAssumption
  <2> QED
    BY <2>1, Bounds, Pow2Next
<1> DEFINE B == Conv!Pow2[Bits - 1]
           b == Conv!Pow2[SmallBits - 1]
<1>3. /\ Conv!Numbers("int") = {n * Scale : n \in -B..B - 1}
      /\ Conv!Numbers("smallInt") = {n * Scale : n \in -b..b - 1}
      /\ Conv!Numbers("uint") = {n * Scale : n \in 0..2 * B - 1}
  BY <1>2 DEF Conv!Numbers
<1>4. Half = B * Scale /\ SmallHalf = b * Scale
  BY DEF Half, SmallHalf
<1> HIDE DEF B, b
<1>5. /\ (-B) * Scale = -(B * Scale) /\ (B - 1) * Scale = B * Scale - Scale
      /\ (-b) * Scale = -(b * Scale) /\ (b - 1) * Scale = b * Scale - Scale
      /\ 0 * Scale = 0 /\ (2 * B - 1) * Scale = 2 * (B * Scale) - Scale
      /\ -B \in Int /\ B - 1 \in Int /\ -b \in Int /\ b - 1 \in Int /\ 0 \in Int /\ 2 * B - 1 \in Int
  BY <1>1, <1>2 DEF B, b
<1>6. v \in {n * Scale : n \in -B..B - 1} <=>
          IsWhole(v) /\ v \in Int /\ (-B) * Scale <= v /\ v <= (B - 1) * Scale
  BY <1>5, WholeRange
<1>7. v \in {n * Scale : n \in -b..b - 1} <=>
          IsWhole(v) /\ v \in Int /\ (-b) * Scale <= v /\ v <= (b - 1) * Scale
  BY <1>5, WholeRange
<1>8. v \in {n * Scale : n \in 0..2 * B - 1} <=>
          IsWhole(v) /\ v \in Int /\ 0 * Scale <= v /\ v <= (2 * B - 1) * Scale
  BY <1>5, WholeRange
<1> QED
  BY <1>3, <1>4, <1>5, <1>6, <1>7, <1>8, Zenon

(* Wrapping stays in the narrow type, and does nothing to what is in it.   *)
LEMMA Wrapped ==
    ASSUME NEW v \in Int, IsWhole(v)
    PROVE  /\ Conv!Wrap(v, SmallBits) \in Conv!Numbers("smallInt")
           /\ v \in Conv!Numbers("smallInt") => Conv!Wrap(v, SmallBits) = v
<1> DEFINE N == Conv!Pow2[SmallBits] * Scale
           r == v % N
<1>1. /\ Scale \in Nat \ {0} /\ SmallHalf \in Nat /\ N = 2 * SmallHalf
  BY SmallBounds, Widths
<1>2. Conv!Wrap(v, SmallBits) = IF r >= SmallHalf THEN r - N ELSE r
  BY Zenon DEF Conv!Wrap, SmallHalf
<1>3. PICK a \in Int : v = a * Scale
  BY DEF IsWhole
<1>4. PICK b \in Int : SmallHalf = b * Scale
  BY SmallBounds DEF IsWhole
<1>5. SmallHalf # 0
  <2>1. SmallBits - 1 \in Nat
    BY WidthsAssumption
  <2>2. Conv!Pow2[SmallBits - 1] \in Nat \ {0}
    BY <2>1, Pow2Next
  <2> QED
    BY <1>1, <2>2 DEF SmallHalf
<1> HIDE DEF N
<1>6. N \in Nat \ {0} /\ r \in Int /\ 0 <= r /\ r < N /\ v = (v \div N) * N + r /\ v \div N \in Int
  <2>1. N \in Nat \ {0}
    BY <1>1, <1>5
  <2> QED
    BY <2>1, IntDivision
<1> DEFINE k == v \div N
<1> HIDE DEF r, k
<1>7. r = (a - k * (2 * b)) * Scale /\ a - k * (2 * b) \in Int
  <2>1. k \in Int /\ r = a * Scale - k * (2 * (b * Scale))
    BY <1>1, <1>3, <1>4, <1>6 DEF k
  <2> QED
    BY <1>1, <2>1
<1>8. r < SmallHalf => r <= SmallHalf - Scale
  <2> DEFINE c == a - k * (2 * b)
  <2>1. c \in Int /\ r = c * Scale
    BY <1>7
  <2> HIDE DEF c
  <2>2. c < b => c * Scale + Scale <= b * Scale
    BY <2>1, WholeApart
  <2>3. b < c => b * Scale + Scale <= c * Scale
    BY <2>1, WholeApart
  <2> QED
    BY <1>1, <1>4, <1>6, <2>1, <2>2, <2>3
<1>9. r - N <= SmallHalf - Scale
  <2>1. r - N < 0
    BY <1>6
  <2>2. Scale <= SmallHalf
    <3>1. 0 < b
      BY <1>1, <1>4, <1>5
    <3>2. 0 * Scale + Scale <= b * Scale
      BY <3>1, WholeApart
    <3> QED
      BY <1>1, <1>4, <3>2
  <2> QED
    BY <1>1, <1>6, <2>1, <2>2
<1>10. IsWhole(r) /\ IsWhole(r - N)
  <2>1. IsWhole(r)
    BY <1>7 DEF IsWhole
  <2>2. (a - k * (2 * b)) * Scale - 2 * (b * Scale) = (a - k * (2 * b) - 2 * b) * Scale
        /\ a - k * (2 * b) - 2 * b \in Int
    <3>1. k \in Int
      BY <1>6 DEF k
    <3> QED
      BY <1>1, <3>1
  <2> QED
    BY <1>1, <1>4, <1>7, <2>1, <2>2 DEF IsWhole
<1>11. Conv!Wrap(v, SmallBits) \in Conv!Numbers("smallInt")
  <2>1. CASE r >= SmallHalf
    <3>1. r - N \in Int /\ -SmallHalf <= r - N
      BY <1>1, <1>6, <2>1
    <3> QED
      BY <1>2, <1>9, <1>10, <2>1, <3>1, WholeNumbers
  <2>2. CASE ~(r >= SmallHalf)
    <3>1. r \in Int /\ -SmallHalf <= r /\ r <= SmallHalf - Scale
      BY <1>1, <1>6, <1>8, <2>2
    <3> QED
      BY <1>2, <1>10, <2>2, <3>1, WholeNumbers
  <2> QED
    BY <2>1, <2>2
<1>12. ASSUME v \in Conv!Numbers("smallInt")
       PROVE  Conv!Wrap(v, SmallBits) = v
  <2>1. -SmallHalf <= v /\ v <= SmallHalf - Scale
    BY <1>12, WholeNumbers
  <2>2. CASE v >= 0
    <3>1. r = v
      <4>1. v \in 0..N - 1 /\ v = 0 * N + v
        BY <1>1, <1>6, <2>1, <2>2
      <4> QED
        BY <1>6, <4>1 DEF r
    <3> QED
      BY <1>1, <1>2, <2>1, <3>1
  <2>3. CASE v < 0
    <3>1. r = v + N
      <4>1. v + N \in 0..N - 1 /\ v = (-1) * N + (v + N)
        BY <1>1, <1>6, <2>1, <2>3
      <4> QED
        BY <1>6, <4>1 DEF r
    <3> QED
      BY <1>1, <1>2, <1>6, <2>1, <3>1
  <2> QED
    BY <2>2, <2>3
<1> QED
  BY <1>11, <1>12

(* A number is truncated to a whole one, towards zero.                     *)
LEMMA WholeTruncated ==
    ASSUME NEW x \in Int
    PROVE  /\ Conv!Truncate(x) \in Int /\ IsWhole(Conv!Truncate(x))
           /\ IsWhole(x) => Conv!Truncate(x) = x
           /\ x >= 0 => 0 <= Conv!Truncate(x) /\ Conv!Truncate(x) <= x
           /\ x <= 0 => x <= Conv!Truncate(x) /\ Conv!Truncate(x) <= 0
<1>1. PICK q \in Int : LET t == q * Scale
                       IN  /\ Conv!Truncate(x) = t /\ t \in Int
                           /\ x >= 0 => 0 <= t /\ t <= x /\ x < t + Scale
                           /\ x <= 0 => t - Scale < x /\ x <= t /\ t <= 0
  BY Truncated
<1>2. IsWhole(x) => Conv!Truncate(x) = x
  BY TruncateFixed DEF IsWhole
<1> QED
  BY <1>1, <1>2 DEF IsWhole

(* The cast to i64 in terms of Half, and where its results are.            *)
LEMMA SaturatedTo ==
    ASSUME NEW x \in Int
    PROVE  /\ Conv!AsI64(x) = IF Conv!Truncate(x) < -Half THEN -Half
                              ELSE IF Conv!Truncate(x) > Half - Scale THEN Half - Scale
                              ELSE Conv!Truncate(x)
           /\ Conv!AsI64(x) \in Int /\ IsWhole(Conv!AsI64(x))
           /\ -Half <= Conv!AsI64(x) /\ Conv!AsI64(x) <= Half - Scale
<1>1. Conv!MinI = -Half /\ Conv!MaxI = Half - Scale /\ Half \in Nat /\ Scale \in Nat /\ 2 * Scale <= Half
  BY Bounds
<1>2. Conv!Truncate(x) \in Int /\ IsWhole(Conv!Truncate(x)) /\ IsWhole(-Half) /\ IsWhole(Half - Scale)
  BY WholeTruncated, WholeHalf
<1>3. Conv!AsI64(x) = IF Conv!Truncate(x) < -Half THEN -Half
                      ELSE IF Conv!Truncate(x) > Half - Scale THEN Half - Scale
                      ELSE Conv!Truncate(x)
  BY <1>1 DEF Conv!AsI64
<1> QED
  BY <1>1, <1>2, <1>3

(* The order of integers survives the cast to i64.                         *)
LEMMA SaturateMonotone ==
    ASSUME NEW x \in Int, NEW y \in Int, x <= y
    PROVE  Conv!AsI64(x) <= Conv!AsI64(y)
<1>1. /\ Conv!Truncate(x) \in Int /\ Conv!Truncate(y) \in Int
      /\ Conv!Truncate(x) <= Conv!Truncate(y)
      /\ Half \in Nat /\ Scale \in Nat /\ 2 * Scale <= Half
  BY TruncateMonotone, Bounds
<1> QED
  BY <1>1, SaturatedTo

(* What setFieldValue may leave in an integer field, in terms of Half.     *)
LEMMA GoConversions ==
    ASSUME NEW x \in Int
    PROVE  /\ Conv!GoInt64(x) = IF -Half <= Conv!Truncate(x) /\ Conv!Truncate(x) <= Half - Scale
                                THEN {Conv!Truncate(x)} ELSE {-Half, Half - Scale}
           /\ Conv!GoUint64(x) = IF 0 <= Conv!Truncate(x) /\ Conv!Truncate(x) <= 2 * Half - Scale
                                 THEN {Conv!Truncate(x)} ELSE {0, Half, 2 * Half - Scale}
<1>1. /\ Conv!MinI = -Half /\ Conv!MaxI = Half - Scale /\ Conv!MaxU = 2 * Half - Scale
      /\ Half \in Nat /\ Scale \in Nat /\ 2 * Scale <= Half
  BY Bounds
<1>2. Conv!Truncate(x) \in Int
  BY WholeTruncated
<1>3. /\ Conv!Truncate(x) \in Conv!MinI..Conv!MaxI <=>
            -Half <= Conv!Truncate(x) /\ Conv!Truncate(x) <= Half - Scale
      /\ Conv!Truncate(x) \in 0..Conv!MaxU <=>
            0 <= Conv!Truncate(x) /\ Conv!Truncate(x) <= 2 * Half - Scale
  BY <1>1, <1>2
<1>4. Conv!GoInt64(x) = IF Conv!Truncate(x) \in Conv!MinI..Conv!MaxI
                        THEN {Conv!Truncate(x)} ELSE {-Half, Half - Scale}
  BY <1>1 DEF Conv!GoInt64
<1>5. Conv!GoUint64(x) = IF Conv!Truncate(x) \in 0..Conv!MaxU
                         THEN {Conv!Truncate(x)} ELSE {0, Half, 2 * Half - Scale}
  BY <1>1 DEF Conv!GoUint64, Half
<1> QED
  BY <1>3, <1>4, <1>5, Zenon

Integral == {"int", "smallInt", "uint"}

(* SetNumber by type.                                                      *)
LEMMA SetNumbers ==
    ASSUME NEW x
    PROVE  /\ Conv!SetNumber("int", x) = Conv!GoInt64(x)
           /\ Conv!SetNumber("smallInt", x) = {Conv!Wrap(n, SmallBits) : n \in Conv!GoInt64(x)}
           /\ Conv!SetNumber("uint", x) = Conv!GoUint64(x)
           /\ \A t : t \notin Integral => Conv!SetNumber(t, x) = {x}
BY DEF Conv!SetNumber, Integral

(* Whatever Go makes of a number it sets, it is of the field's type.       *)
LEMMA SetIsTyped ==
    ASSUME NEW x \in Int, NEW t \in Integral
    PROVE  \A y \in Conv!SetNumber(t, x) : y \in Conv!Numbers(t)
<1>1. /\ Half \in Nat /\ Scale \in Nat \ {0} /\ 2 * Scale <= Half
      /\ IsWhole(-Half) /\ IsWhole(Half - Scale) /\ IsWhole(0) /\ IsWhole(Half)
      /\ IsWhole(2 * Half - Scale)
      /\ IsWhole(Conv!Truncate(x)) /\ Conv!Truncate(x) \in Int
  BY Bounds, WholeHalf, WholeTruncated
<1>2. \A y \in Conv!GoInt64(x) : IsWhole(y) /\ y \in Int /\ -Half <= y /\ y <= Half - Scale
  BY <1>1, GoConversions
<1>3. \A y \in Conv!GoUint64(x) : IsWhole(y) /\ y \in Int /\ 0 <= y /\ y <= 2 * Half - Scale
  BY <1>1, GoConversions
<1>4. CASE t = "int"
  BY <1>2, <1>4, SetNumbers, WholeNumbers
<1>5. CASE t = "uint"
  BY <1>3, <1>5, SetNumbers, WholeNumbers
<1>6. CASE t = "smallInt"
  <2>1. \A y \in Conv!GoInt64(x) : Conv!Wrap(y, SmallBits) \in Conv!Numbers("smallInt")
    BY <1>2, Wrapped
  <2> QED
    BY <1>6, <2>1, SetNumbers
<1> QED
  BY <1>4, <1>5, <1>6 DEF Integral

(* A number of the field's type is set as it is.                           *)
LEMMA SetExactly ==
    ASSUME NEW t \in Integral, NEW v \in Conv!Numbers(t)
    PROVE  Conv!SetNumber(t, v) = {v} /\ v \in Int /\ IsWhole(v)
<1>1. /\ Half \in Nat /\ Scale \in Nat \ {0} /\ 2 * Scale <= Half
      /\ SmallHalf \in Nat /\ SmallHalf + Scale <= Half
  BY Bounds, SmallBounds
<1>2. v \in Int /\ IsWhole(v)
  BY WholeNumbers DEF Integral
<1>3. Conv!Truncate(v) = v
  BY <1>2, WholeTruncated
<1>4. CASE t = "int"
  <2>1. -Half <= v /\ v <= Half - Scale
    BY <1>4, WholeNumbers
  <2> QED
    BY <1>2, <1>3, <1>4, <2>1, GoConversions, SetNumbers
<1>5. CASE t = "uint"
  <2>1. 0 <= v /\ v <= 2 * Half - Scale
    BY <1>5, WholeNumbers
  <2> QED
    BY <1>2, <1>3, <1>5, <2>1, GoConversions, SetNumbers
<1>6. CASE t = "smallInt"
  <2>1. -SmallHalf <= v /\ v <= SmallHalf - Scale
    BY <1>6, WholeNumbers
  <2>2. -Half <= v /\ v <= Half - Scale
    BY <1>1, <1>2, <2>1
  <2>3. Conv!GoInt64(v) = {v}
    BY <1>2, <1>3, <2>2, GoConversions
  <2>4. Conv!Wrap(v, SmallBits) = v
    BY <1>2, <1>6, Wrapped
  <2> QED
    BY <1>2, <1>6, <2>3, <2>4, SetNumbers
<1> QED
  BY <1>4, <1>5, <1>6 DEF Integral

(* A set that is not a singleton has not one element.                      *)
LEMMA TwoIsNotOne ==
    ASSUME NEW S, NEW x \in S, NEW y \in S, Conv!Cardinality(S) = 1, IsFiniteSet(S)
    PROVE  x = y
<1>1. Conv!Cardinality(S) = Cardinality(S)
  BY DEF Conv!Cardinality, Cardinality
<1>2. PICK z : S = {z}
  BY <1>1, FS_Singleton
<1> QED
  BY <1>2

(* Where the conversion Go makes has one outcome, it is the number         *)
(* truncated.                                                              *)
LEMMA SetOnlyInRange ==
    ASSUME NEW x \in Int
    PROVE  /\ Conv!Cardinality(Conv!SetNumber("int", x)) = 1 =>
                 Conv!SetNumber("int", x) = {Conv!Truncate(x)} /\ Conv!Truncate(x) <= Half - Scale
           /\ Conv!Cardinality(Conv!SetNumber("uint", x)) = 1 =>
                 Conv!SetNumber("uint", x) = {Conv!Truncate(x)}
<1>1. Half \in Nat /\ Scale \in Nat \ {0} /\ 2 * Scale <= Half
  BY Bounds
<1>2. IsFiniteSet({-Half, Half - Scale}) /\ IsFiniteSet({0, Half, 2 * Half - Scale})
  <2>1. {-Half, Half - Scale} = {-Half} \cup {Half - Scale}
        /\ {0, Half, 2 * Half - Scale} = ({0} \cup {Half}) \cup {2 * Half - Scale}
    OBVIOUS
  <2>2. IsFiniteSet({-Half}) /\ IsFiniteSet({Half - Scale}) /\ IsFiniteSet({0})
        /\ IsFiniteSet({Half}) /\ IsFiniteSet({2 * Half - Scale})
    BY FS_Singleton
  <2>3. IsFiniteSet({-Half} \cup {Half - Scale}) /\ IsFiniteSet({0} \cup {Half})
    BY <2>2, FS_Union
  <2>4. IsFiniteSet(({0} \cup {Half}) \cup {2 * Half - Scale})
    BY <2>2, <2>3, FS_Union
  <2> QED
    BY <2>1, <2>3, <2>4
<1>3. -Half # Half - Scale /\ 0 # Half
  BY <1>1
<1>4. Conv!Cardinality({-Half, Half - Scale}) # 1
  BY <1>2, <1>3, TwoIsNotOne
<1>5. Conv!Cardinality({0, Half, 2 * Half - Scale}) # 1
  BY <1>2, <1>3, TwoIsNotOne
<1> QED
  BY <1>4, <1>5, GoConversions, SetNumbers

(* The next whole number is 1 away.                                        *)
LEMMA WholeNext ==
    ASSUME NEW x \in Int, NEW y \in Int, IsWhole(x), IsWhole(y), x < y
    PROVE  x + Scale <= y
<1>1. PICK a \in Int, b \in Int : x = a * Scale /\ y = b * Scale
  BY DEF IsWhole
<1>2. Scale \in Nat \ {0}
  BY Widths
<1>3. a < b
  BY <1>1, <1>2
<1> QED
  BY <1>1, <1>3, WholeApart

(* Small whole numbers are float64s.                                       *)
LEMMA SmallWhole ==
    ASSUME NEW v \in Int, IsWhole(v), -(Mantissas * Scale) <= v, v <= Mantissas * Scale
    PROVE  Conv!RoundF64(v) = v
<1>1. PICK s \in Nat : Scale = Conv!Pow2[s]
  BY Widths
<1>2. Scale \in Nat \ {0} /\ Mantissas \in Nat /\ Mantissas * Scale \in Nat
  BY Widths, Bounds
<1>3. ASSUME NEW n \in Nat, IsWhole(n), n <= Mantissas * Scale
      PROVE  Conv!RoundF64(n) = n
  <2>1. PICK a \in Int : n = a * Scale
    BY <1>3 DEF IsWhole
  <2>2. a \in 0..Mantissas
    <3>1. a < 0 => a * Scale + Scale <= 0 * Scale
      BY WholeApart
    <3>2. Mantissas < a => Mantissas * Scale + Scale <= a * Scale
      BY <1>2, WholeApart
    <3>3. 0 * Scale = 0 /\ a * Scale \in Int
      BY <1>2
    <3> QED
      BY <1>2, <1>3, <2>1, <3>1, <3>2, <3>3
  <2> QED
    BY <1>1, <2>1, <2>2, FloatFixed
<1>4. CASE v >= 0
  <2>1. v \in Nat
    BY <1>4
  <2> QED
    BY <1>3, <2>1
<1>5. CASE v < 0
  <2>1. -v \in Nat /\ -(-v) = v /\ -v <= Mantissas * Scale
    BY <1>2, <1>5
  <2>2. IsWhole(-v)
    <3>1. PICK a \in Int : v = a * Scale
      BY DEF IsWhole
    <3>2. -v = (-a) * Scale /\ -a \in Int
      BY <1>2, <3>1
    <3> QED
      BY <3>2 DEF IsWhole
  <2>3. Conv!RoundF64(-v) = -v
    BY <1>3, <2>1, <2>2
  <2>4. Conv!RoundF64(v) = -Conv!RoundF64(-v)
    BY <2>1, RoundNegated
  <2> QED
    BY <2>1, <2>3, <2>4
<1> QED
  BY <1>4, <1>5

(* A float64 that saturates does so once.                                  *)
LEMMA FloatSaturated ==
    ASSUME NEW x \in Int, Conv!IsF64(x)
    PROVE  LET y == Conv!RoundF64(Conv!AsI64(x))
           IN  /\ y \in Int /\ Conv!AsI64(y) = Conv!AsI64(x)
               /\ x >= 0 => 0 <= y /\ y <= x
               /\ x <= 0 => x <= y /\ y <= 0
               /\ -Half <= Conv!Truncate(x) /\ Conv!Truncate(x) <= Half - Scale =>
                     y = Conv!Truncate(x)
<1> DEFINE t == Conv!Truncate(x)
           n == Conv!AsI64(x)
           y == Conv!RoundF64(n)
<1>1. /\ Half \in Nat /\ Scale \in Nat \ {0} /\ 2 * Scale <= Half
      /\ IsWhole(Half) /\ IsWhole(-Half) /\ IsWhole(Half - Scale)
  BY Bounds, WholeHalf
<1>2. /\ t \in Int /\ IsWhole(t)
      /\ x >= 0 => 0 <= t /\ t <= x
      /\ x <= 0 => x <= t /\ t <= 0
  BY WholeTruncated
<1>3. n = IF t < -Half THEN -Half ELSE IF t > Half - Scale THEN Half - Scale ELSE t
  BY SaturatedTo
<1>4. /\ Conv!RoundF64(Half) = Half /\ Conv!RoundF64(-Half) = -Half
      /\ Conv!RoundF64(Half - Scale) = Half
  BY EndsRounded
<1>5. Conv!RoundF64(t) = t
  BY TruncateFloat DEF Conv!IsF64
<1>6. /\ Conv!Truncate(Half) = Half /\ Conv!Truncate(-Half) = -Half /\ Conv!Truncate(t) = t
      /\ Half \in Int /\ -Half \in Int
  <2>1. Half \in Int /\ -Half \in Int /\ t \in Int
    BY <1>1, <1>2
  <2> QED
    BY <1>1, <1>2, <2>1, WholeTruncated
<1>7. /\ Conv!AsI64(Half) = Half - Scale /\ Conv!AsI64(-Half) = -Half
      /\ -Half <= t /\ t <= Half - Scale => Conv!AsI64(t) = t
  BY <1>1, <1>2, <1>6, SaturatedTo
<1> HIDE DEF t, n
<1>8. CASE t < -Half
  BY <1>1, <1>2, <1>3, <1>4, <1>6, <1>7, <1>8 DEF n, t
<1>9. CASE t > Half - Scale
  <2>1. Half <= t
    <3>1. Half - Scale + Scale <= t
      <4>1. Half - Scale \in Int
        BY <1>1
      <4> QED
        BY <1>1, <1>2, <1>9, <4>1, WholeNext
    <3> QED
      BY <1>1, <1>2, <3>1
  <2>2. n = Half - Scale /\ y = Half
    BY <1>1, <1>2, <1>3, <1>4, <1>9
  <2>3. Conv!AsI64(y) = n /\ y \in Int /\ 0 <= y /\ y <= x /\ x > 0
    BY <1>1, <1>2, <1>7, <2>1, <2>2
  <2> QED
    BY <1>1, <1>2, <1>9, <2>3 DEF n, t
<1>10. CASE -Half <= t /\ t <= Half - Scale
  <2>1. n = t /\ y = t
    BY <1>1, <1>2, <1>3, <1>5, <1>10
  <2> QED
    BY <1>2, <1>7, <1>10, <2>1 DEF n, t
<1> QED
  BY <1>1, <1>2, <1>8, <1>9, <1>10

-----------------------------------------------------------------------------
(* The way of a field.                                                     *)

EncodedAs(v, c, x) == Conv!ToPlaintext(v, Conv!RoundF64(x), c)

(* By variant and cast a plaintext is a saturated integer, the number as   *)
(* it is, or nothing.                                                      *)
LEMMA PlaintextKinds ==
    ASSUME NEW v \in Conv!Variants, NEW c \in Conv!Casts
    PROVE  \/ /\ v = "Number" /\ c = "bigint"
              /\ \A n : Conv!ToPlaintext(v, n, c) = [type |-> "BigInt", n |-> Conv!AsI64(n)]
           \/ /\ v = "Number" => c = "number"
              /\ c # "bigint"
              /\ Conv!ColumnType(c) \notin {"BigInt", "none"}
              /\ \A n : Conv!ToPlaintext(v, n, c) = [type |-> Conv!ColumnType(c), n |-> n]
           \/ \A n : Conv!ToPlaintext(v, n, c) = Conv!NoPlaintext
<1> DEFINE t == Conv!ColumnType(c)
<1>1. CASE <<v, t>> \in {<<"String", "Utf8Str">>, <<"Number", "Float">>,
                         <<"Boolean", "Boolean">>, <<"JsonB", "JsonB">>}
  <2>1. /\ v = "Number" => c = "number"
        /\ c # "bigint" /\ t \notin {"BigInt", "none"}
    BY <1>1 DEF Conv!ColumnType, Conv!Casts
  <2>2. \A n : Conv!ToPlaintext(v, n, c) = [type |-> t, n |-> n]
    BY <1>1 DEF Conv!ToPlaintext
  <2> QED
    BY <2>1, <2>2
<1>2. CASE /\ <<v, t>> \notin {<<"String", "Utf8Str">>, <<"Number", "Float">>,
                               <<"Boolean", "Boolean">>, <<"JsonB", "JsonB">>}
           /\ <<v, t>> = <<"Number", "BigInt">>
  <2>1. v = "Number" /\ c = "bigint"
    BY <1>2 DEF Conv!ColumnType, Conv!Casts
  <2>2. \A n : Conv!ToPlaintext(v, n, c) = [type |-> "BigInt", n |-> Conv!AsI64(n)]
    BY <1>2, <2>1 DEF Conv!ToPlaintext, Conv!ColumnType
  <2> QED
    BY <2>1, <2>2
<1>3. CASE /\ <<v, t>> \notin {<<"String", "Utf8Str">>, <<"Number", "Float">>,
                               <<"Boolean", "Boolean">>, <<"JsonB", "JsonB">>}
           /\ <<v, t>> # <<"Number", "BigInt">>
  BY <1>3 DEF Conv!ToPlaintext
<1> QED
  BY <1>1, <1>2, <1>3

(* A field holds an integer, a float, or no number that matters.           *)
LEMMA TypeKinds ==
    ASSUME NEW t \in Conv!GoTypes, NEW v \in Conv!VariantsOf(t)
    PROVE  /\ v \in Conv!Variants
           /\ \/ t \in Integral /\ v = "Number"
              \/ t = "float" /\ v = "Number"
              \/ t \notin Integral /\ t # "float" /\ t \notin Conv!Numeric /\ Conv!Numbers(t) = {0}
<1>1. CASE t \in Integral \cup {"float"}
  <2>1. Conv!VariantsOf(t) = {"Number"}
    BY <1>1 DEF Conv!VariantsOf, Conv!Numeric, Integral
  <2> QED
    BY <1>1, <2>1 DEF Conv!Variants
<1>2. CASE t \notin Integral \cup {"float"}
  <2>1. t \notin Conv!Numeric /\ Conv!Numbers(t) = {0}
    BY <1>2 DEF Conv!Numeric, Conv!Numbers, Integral
  <2>2. Conv!VariantsOf(t) \subseteq Conv!Variants
    BY <1>2, <2>1 DEF Conv!VariantsOf, Conv!Variants
  <2> QED
    BY <1>2, <2>1, <2>2
<1> QED
  BY <1>1, <1>2

(* The values of a float field.                                            *)
LEMMA FloatNumbers ==
    ASSUME NEW v
    PROVE  v \in Conv!Numbers("float") <=>
               v \in Int /\ -Limit <= v /\ v <= Limit /\ Conv!IsF64(v)
BY Widths DEF Conv!Numbers

(* Zero is a float64 and an i64.                                           *)
LEMMA ZeroStays == Conv!RoundF64(0) = 0 /\ Conv!AsI64(0) = 0
<1>1. Conv!RoundF64(0) = 0
  BY RoundNegated
<1>2. Conv!Truncate(0) = 0
  BY WholeTruncated, WholeHalf
<1> QED
  BY <1>1, <1>2, SaturatedTo, Bounds

(* Where a number's nearest float64 is, for the types of integers.         *)
LEMMA IntegralRounded ==
    ASSUME NEW t \in Integral, NEW v \in Conv!Numbers(t)
    PROVE  LET x == Conv!RoundF64(v)
           IN  /\ v \in Int /\ IsWhole(v) /\ x \in Int /\ IsWhole(x)
               /\ Conv!RoundF64(x) = x /\ Conv!Truncate(x) = x /\ -Half <= x
               /\ t = "uint" => 0 <= x
               /\ t = "smallInt" => x = v /\ v <= Half - Scale
<1> DEFINE x == Conv!RoundF64(v)
<1>1. /\ Half \in Nat /\ Scale \in Nat \ {0} /\ 2 * Scale <= Half
      /\ SmallHalf \in Nat /\ SmallHalf + Scale <= Half /\ 2 * SmallHalf <= Mantissas * Scale
      /\ Mantissas * Scale \in Nat
  BY Bounds, SmallBounds
<1>2. v \in Int /\ IsWhole(v)
  BY SetExactly
<1>3. x \in Int /\ Conv!RoundF64(x) = x
  BY <1>2, RoundFixed DEF Conv!IsF64
<1>4. IsWhole(x)
  BY <1>2, RoundKeepsWhole DEF IsWhole
<1>5. Conv!Truncate(x) = x
  BY <1>3, <1>4, WholeTruncated
<1>6. t = "uint" => 0 <= x
  <2> SUFFICES ASSUME t = "uint"
               PROVE  0 <= x
    OBVIOUS
  <2>1. 0 <= v /\ 0 \in Int
    BY WholeNumbers
  <2> QED
    BY <1>2, <2>1, RoundMonotone, ZeroStays
<1>7. t = "smallInt" => x = v /\ v <= Half - Scale /\ -Half <= v
  <2> SUFFICES ASSUME t = "smallInt"
               PROVE  x = v /\ v <= Half - Scale /\ -Half <= v
    OBVIOUS
  <2>1. -SmallHalf <= v /\ v <= SmallHalf - Scale
    BY WholeNumbers
  <2>2. -(Mantissas * Scale) <= v /\ v <= Mantissas * Scale /\ v <= Half - Scale /\ -Half <= v
    BY <1>1, <1>2, <2>1
  <2> QED
    BY <1>2, <2>2, SmallWhole
<1>8. t = "int" => -Half <= x
  <2> SUFFICES ASSUME t = "int"
               PROVE  -Half <= x
    OBVIOUS
  <2>1. -Half <= v /\ -Half \in Int
    BY <1>1, WholeNumbers
  <2> QED
    BY <1>2, <2>1, RoundMonotone, EndsRounded
<1>9. -Half <= x
  <2> HIDE DEF x
  <2> QED
    BY <1>1, <1>3, <1>6, <1>7, <1>8 DEF Integral
<1> QED
  BY <1>2, <1>3, <1>4, <1>5, <1>6, <1>7, <1>9

(* What is encrypted for an integer, and what it is decrypted to.          *)
LEMMA IntegralStored ==
    ASSUME NEW t \in Integral, NEW x \in Int, IsWhole(x), Conv!RoundF64(x) = x, -Half <= x
    PROVE  /\ x <= Half - Scale => Conv!AsI64(x) = x
           /\ x > Half - Scale => /\ Conv!AsI64(x) = Half - Scale
                                  /\ Conv!RoundF64(Conv!AsI64(x)) = Half
<1>1. Conv!Truncate(x) = x
  BY WholeTruncated
<1>2. Half \in Nat /\ Scale \in Nat \ {0} /\ 2 * Scale <= Half
  BY Bounds
<1>3. Conv!AsI64(x) = IF x < -Half THEN -Half ELSE IF x > Half - Scale THEN Half - Scale ELSE x
  BY <1>1, SaturatedTo
<1>4. /\ x <= Half - Scale => Conv!AsI64(x) = x
      /\ x > Half - Scale => Conv!AsI64(x) = Half - Scale
  BY <1>2, <1>3
<1> QED
  BY <1>4, EndsRounded

(* The number that is encrypted, and the one decrypted, are a plaintext's  *)
(* and a float64; what encrypts at all does not depend on the number.      *)
LEMMA EncodedKinds ==
    ASSUME NEW t \in Conv!GoTypes, NEW v \in Conv!VariantsOf(t), NEW c \in Conv!Casts,
           NEW x \in Int, NEW y \in Int
    PROVE  /\ EncodedAs(v, c, x) = Conv!NoPlaintext <=> EncodedAs(v, c, y) = Conv!NoPlaintext
           /\ EncodedAs(v, c, x).type = EncodedAs(v, c, y).type
           /\ EncodedAs(v, c, x).n \in Int
           /\ EncodedAs(v, c, x).type = "BigInt" =>
                 EncodedAs(v, c, x).n \in Conv!MinI..Conv!MaxI /\ EncodedAs(v, c, x).n % Scale = 0
<1>1. Conv!RoundF64(x) \in Int /\ Conv!RoundF64(y) \in Int /\ v \in Conv!Variants
  BY RoundFixed, TypeKinds
<1> DEFINE n == Conv!AsI64(Conv!RoundF64(x))
<1>2. n \in Int /\ IsWhole(n) /\ -Half <= n /\ n <= Half - Scale
  BY <1>1, SaturatedTo
<1>3. Conv!MinI = -Half /\ Conv!MaxI = Half - Scale /\ Half \in Nat /\ Scale \in Nat \ {0}
  BY Bounds
<1> HIDE DEF n
<1>4. n \in Conv!MinI..Conv!MaxI
  BY <1>2, <1>3
<1>5. n % Scale = 0
  BY <1>2, <1>3 DEF IsWhole
<1>6. CASE \A k : Conv!ToPlaintext(v, k, c) = [type |-> "BigInt", n |-> Conv!AsI64(k)]
  BY <1>2, <1>4, <1>5, <1>6 DEF EncodedAs, Conv!NoPlaintext, n
<1>7. CASE /\ Conv!ColumnType(c) \notin {"BigInt", "none"}
           /\ \A k : Conv!ToPlaintext(v, k, c) = [type |-> Conv!ColumnType(c), n |-> k]
  BY <1>1, <1>7 DEF EncodedAs, Conv!NoPlaintext
<1>8. CASE \A k : Conv!ToPlaintext(v, k, c) = Conv!NoPlaintext
  BY <1>1, <1>8 DEF EncodedAs, Conv!NoPlaintext
<1> QED
  BY <1>1, <1>6, <1>7, <1>8, PlaintextKinds

(* Which number is encrypted.                                              *)
LEMMA EncodedNumber ==
    ASSUME NEW t \in Conv!GoTypes, NEW v \in Conv!VariantsOf(t), NEW c \in Conv!Casts,
           NEW x \in Conv!Numbers(t), EncodedAs(v, c, x) # Conv!NoPlaintext
    PROVE  /\ x \in Int
           /\ \/ /\ t \in Integral \cup {"float"} /\ c = "bigint"
                 /\ \A z : EncodedAs(v, c, z).n = Conv!AsI64(Conv!RoundF64(z))
              \/ /\ t \in Integral \cup {"float"} /\ c = "number"
                 /\ \A z : EncodedAs(v, c, z).n = Conv!RoundF64(z)
              \/ /\ t \notin Integral \cup {"float"}
                 /\ Conv!Numbers(t) = {0} /\ x = 0 /\ EncodedAs(v, c, 0).n = 0
           /\ \A y, z : EncodedAs(v, c, y).n = EncodedAs(v, c, z).n =>
                           EncodedAs(v, c, y) = EncodedAs(v, c, z)
<1>1. x \in Int
  <2>1. t \in Integral => x \in Int
    BY SetExactly
  <2>2. t = "float" => x \in Int
    BY FloatNumbers
  <2> QED
    BY <2>1, <2>2, TypeKinds
<1>2. CASE /\ v = "Number" /\ c = "bigint"
           /\ \A n : Conv!ToPlaintext(v, n, c) = [type |-> "BigInt", n |-> Conv!AsI64(n)]
  <2>1. \A z : EncodedAs(v, c, z) = [type |-> "BigInt", n |-> Conv!AsI64(Conv!RoundF64(z))]
    BY <1>2 DEF EncodedAs
  <2>2. EncodedAs(v, c, 0).n = 0
    BY <2>1, ZeroStays
  <2> QED
    BY <1>1, <1>2, <2>1, <2>2, TypeKinds
<1>3. CASE /\ v = "Number" => c = "number"
           /\ \A n : Conv!ToPlaintext(v, n, c) = [type |-> Conv!ColumnType(c), n |-> n]
  <2>1. \A z : EncodedAs(v, c, z) = [type |-> Conv!ColumnType(c), n |-> Conv!RoundF64(z)]
    BY <1>3 DEF EncodedAs
  <2>2. EncodedAs(v, c, 0).n = 0
    BY <2>1, ZeroStays
  <2> QED
    BY <1>1, <1>3, <2>1, <2>2, TypeKinds
<1>4. CASE \A n : Conv!ToPlaintext(v, n, c) = Conv!NoPlaintext
  BY <1>4 DEF EncodedAs
<1> QED
  BY <1>2, <1>3, <1>4, PlaintextKinds, TypeKinds

(* What setFieldValue puts into a field is of the field's type.            *)
LEMMA SetTyped ==
    ASSUME NEW t \in Conv!GoTypes, NEW v \in Conv!VariantsOf(t), NEW c \in Conv!Casts,
           NEW x \in Conv!Numbers(t), EncodedAs(v, c, x) # Conv!NoPlaintext,
           NEW y \in Conv!SetNumber(t, Conv!RoundF64(EncodedAs(v, c, x).n))
    PROVE  y \in Conv!Numbers(t) /\ y \in Int
<1> DEFINE n == EncodedAs(v, c, x).n
<1>1. x \in Int /\ n \in Int /\ Conv!RoundF64(n) \in Int
  BY EncodedNumber, EncodedKinds, RoundFixed
<1>2. CASE t \in Integral
  BY <1>1, <1>2, SetIsTyped, SetExactly
<1>3. CASE t = "float"
  <2>1. y = Conv!RoundF64(n)
    BY <1>3, SetNumbers DEF Integral
  <2>2. /\ -Limit <= x /\ x <= Limit /\ Conv!IsF64(x) /\ Conv!RoundF64(x) = x
        /\ Limit \in Nat
    BY <1>3, FloatNumbers, Widths DEF Conv!IsF64
  <2>3. y \in Int /\ Conv!IsF64(y)
    BY <1>1, <2>1, RoundFixed
  <2>4. /\ x >= 0 => 0 <= y /\ y <= x
        /\ x <= 0 => x <= y /\ y <= 0
    <3>1. CASE n = Conv!AsI64(x)
      BY <1>1, <2>1, <2>2, <3>1, FloatSaturated
    <3>2. CASE n = x
      BY <1>1, <2>1, <2>2, <3>2
    <3> QED
      BY <1>3, <2>2, <3>1, <3>2, EncodedNumber
  <2>5. -Limit <= y /\ y <= Limit
    BY <1>1, <2>2, <2>3, <2>4
  <2> QED
    BY <1>3, <2>3, <2>5, FloatNumbers
<1>4. CASE t \notin Integral \cup {"float"}
  <2>1. n = 0 /\ Conv!Numbers(t) = {0}
    BY <1>4, EncodedNumber
  <2>2. Conv!SetNumber(t, Conv!RoundF64(n)) = {Conv!RoundF64(n)}
    BY <1>4, SetNumbers
  <2> QED
    BY <2>1, <2>2, ZeroStays
<1> QED
  BY <1>2, <1>3, <1>4

(* What was read and is written back is encrypted as it was.               *)
LEMMA DriftFree ==
    ASSUME NEW t \in Conv!GoTypes, NEW v \in Conv!VariantsOf(t), NEW c \in Conv!Casts,
           NEW x \in Conv!Numbers(t), EncodedAs(v, c, x) # Conv!NoPlaintext,
           NEW y \in Conv!SetNumber(t, Conv!RoundF64(EncodedAs(v, c, x).n)),
           Conv!Cardinality(Conv!SetNumber(t, Conv!RoundF64(EncodedAs(v, c, x).n))) = 1
    PROVE  EncodedAs(v, c, y) = EncodedAs(v, c, x)
<1> DEFINE n == EncodedAs(v, c, x).n
           r == Conv!RoundF64(x)
<1>1. x \in Int /\ n \in Int
  BY EncodedNumber, EncodedKinds
<1>2. /\ Half \in Nat /\ Scale \in Nat \ {0} /\ 2 * Scale <= Half
      /\ Conv!Truncate(Half) = Half /\ Conv!RoundF64(Half) = Half
      /\ Conv!AsI64(Half) = Half - Scale
  <2>1. /\ Half \in Nat /\ Scale \in Nat \ {0} /\ 2 * Scale <= Half /\ Half \in Int
    BY Bounds
  <2>2. Conv!Truncate(Half) = Half
    BY <2>1, WholeTruncated, WholeHalf
  <2> QED
    BY <2>1, <2>2, SaturatedTo, EndsRounded
<1>3. EncodedAs(v, c, y).n = n
  <2>1. CASE t \in Integral /\ c = "number"
    <3>1. /\ \A z : EncodedAs(v, c, z).n = Conv!RoundF64(z)
          /\ n = r
      BY <2>1, EncodedNumber
    <3>2. /\ r \in Int /\ Conv!RoundF64(r) = r /\ Conv!Truncate(r) = r
          /\ t = "smallInt" => r = x
      BY <2>1, IntegralRounded
    <3>3. y = r
      <4>1. t = "smallInt" => Conv!SetNumber(t, r) = {r}
        BY <2>1, <3>2, SetExactly
      <4> QED
        BY <2>1, <3>1, <3>2, <4>1, SetOnlyInRange DEF Integral
    <3> QED
      BY <3>1, <3>2, <3>3
  <2>2. CASE t \in Integral /\ c = "bigint"
    <3>1. /\ \A z : EncodedAs(v, c, z).n = Conv!AsI64(Conv!RoundF64(z))
          /\ n = Conv!AsI64(r)
      BY <2>2, EncodedNumber
    <3>2. /\ r \in Int /\ IsWhole(r) /\ Conv!RoundF64(r) = r /\ Conv!Truncate(r) = r /\ -Half <= r
          /\ t = "smallInt" => r = x /\ x <= Half - Scale
      BY <2>2, IntegralRounded
    <3>3. CASE r <= Half - Scale
      <4>1. n = r
        BY <2>2, <3>1, <3>2, <3>3, IntegralStored
      <4>2. y = r
        <5>1. t = "smallInt" => Conv!SetNumber(t, r) = {r}
          BY <2>2, <3>2, SetExactly
        <5> QED
          BY <2>2, <3>2, <4>1, <5>1, SetOnlyInRange DEF Integral
      <4> QED
        BY <3>1, <3>2, <4>2
    <3>4. CASE r > Half - Scale
      <4>1. n = Half - Scale /\ Conv!RoundF64(n) = Half
        BY <2>2, <3>1, <3>2, <3>4, IntegralStored
      <4>2. t # "smallInt"
        BY <1>1, <1>2, <3>2, <3>4
      <4>3. t # "int"
        BY <1>2, <4>1, SetOnlyInRange
      <4>4. t = "uint" /\ y = Half
        BY <1>2, <2>2, <4>1, <4>2, <4>3, SetOnlyInRange DEF Integral
      <4> QED
        BY <1>2, <3>1, <4>1, <4>4
    <3> QED
      BY <1>2, <3>2, <3>3, <3>4
  <2>3. CASE t = "float"
    <3>1. y = Conv!RoundF64(n) /\ Conv!RoundF64(y) = y
      <4>1. Conv!SetNumber(t, Conv!RoundF64(n)) = {Conv!RoundF64(n)}
        BY <2>3, SetNumbers DEF Integral
      <4>2. Conv!RoundF64(Conv!RoundF64(n)) = Conv!RoundF64(n)
        BY <1>1, RoundFixed DEF Conv!IsF64
      <4> QED
        BY <4>1, <4>2
    <3>2. Conv!IsF64(x) /\ r = x
      BY <2>3, FloatNumbers DEF Conv!IsF64
    <3>3. CASE /\ \A z : EncodedAs(v, c, z).n = Conv!AsI64(Conv!RoundF64(z))
      <4>1. n = Conv!AsI64(x)
        BY <3>2, <3>3
      <4>2. Conv!AsI64(Conv!RoundF64(Conv!AsI64(x))) = Conv!AsI64(x)
        BY <1>1, <3>2, FloatSaturated
      <4> QED
        BY <3>1, <3>3, <4>1, <4>2
    <3>4. CASE /\ \A z : EncodedAs(v, c, z).n = Conv!RoundF64(z)
      <4>1. n = r
        BY <3>4
      <4> QED
        BY <3>1, <3>2, <3>4, <4>1
    <3> QED
      BY <2>3, <3>3, <3>4, EncodedNumber
  <2>4. CASE t \notin Integral \cup {"float"}
    <3>1. y = Conv!RoundF64(n) /\ n = 0 /\ EncodedAs(v, c, 0).n = 0
      BY <2>4, EncodedNumber, SetNumbers
    <3> QED
      BY <3>1, ZeroStays
  <2> QED
    BY <2>1, <2>2, <2>3, <2>4, EncodedNumber
<1> QED
  BY <1>3, EncodedNumber

(* The order of two values is the order of their plaintexts.               *)
LEMMA OrderKept ==
    ASSUME NEW t \in Conv!Numeric, NEW c \in Conv!Casts,
           NEW x \in Conv!Numbers(t), NEW y \in Conv!Numbers(t), x <= y,
           EncodedAs("Number", c, x) # Conv!NoPlaintext
    PROVE  EncodedAs("Number", c, x).n <= EncodedAs("Number", c, y).n
<1>1. t \in Conv!GoTypes /\ "Number" \in Conv!VariantsOf(t) /\ t \in Integral \cup {"float"}
  BY DEF Conv!GoTypes, Conv!Numeric, Conv!VariantsOf, Integral
<1>2. x \in Int /\ y \in Int
  BY <1>1, SetExactly, FloatNumbers
<1>3. Conv!RoundF64(x) \in Int /\ Conv!RoundF64(y) \in Int /\ Conv!RoundF64(x) <= Conv!RoundF64(y)
  BY <1>2, RoundMonotone
<1>4. Conv!AsI64(Conv!RoundF64(x)) <= Conv!AsI64(Conv!RoundF64(y))
  BY <1>3, SaturateMonotone
<1>5. \/ \A z : EncodedAs("Number", c, z).n = Conv!AsI64(Conv!RoundF64(z))
      \/ \A z : EncodedAs("Number", c, z).n = Conv!RoundF64(z)
  BY <1>1, EncodedNumber
<1> QED
  BY <1>3, <1>4, <1>5

(* What has been read back once.                                           *)
LEMMA BackExactly ==
    ASSUME NEW t \in Conv!GoTypes, NEW v \in Conv!VariantsOf(t), NEW c \in Conv!Casts,
           NEW x \in Conv!Numbers(t), EncodedAs(v, c, x) # Conv!NoPlaintext,
           NEW y \in Conv!SetNumber(t, Conv!RoundF64(EncodedAs(v, c, x).n))
    PROVE  /\ t # "float" /\ Conv!Abs(x) <= Mantissas * Scale => y = x
           /\ /\ t \in {"int", "uint"}
              /\ Conv!RoundF64(x) \in Conv!SetNumber(t, Conv!RoundF64(x))
              /\ c = "bigint" => Conv!RoundF64(x) <= Conv!MaxI
              => y = Conv!RoundF64(x)
           /\ t = "float" /\ c = "number" => y = x
           /\ t = "float" /\ c = "bigint" /\ Conv!Truncate(x) \in Conv!MinI..Conv!MaxI =>
                 y = Conv!Truncate(x)
<1> DEFINE n == EncodedAs(v, c, x).n
           r == Conv!RoundF64(x)
<1>1. x \in Int /\ n \in Int
  BY EncodedNumber, EncodedKinds
<1>2. /\ Half \in Nat /\ Scale \in Nat \ {0} /\ 2 * Scale <= Half
      /\ Conv!MinI = -Half /\ Conv!MaxI = Half - Scale
      /\ Mantissas * Scale + Scale <= Half /\ Mantissas * Scale \in Nat
  BY Bounds
<1>3. ASSUME t \in Integral, r \in Conv!Numbers(t), c = "bigint" => r <= Half - Scale
      PROVE  y = r
  <2>1. /\ r \in Int /\ IsWhole(r) /\ Conv!RoundF64(r) = r /\ -Half <= r
    BY <1>3, IntegralRounded
  <2>2. n = r
    <3>1. CASE c = "number"
      BY <1>3, <3>1, EncodedNumber
    <3>2. CASE c = "bigint"
      <4>1. n = Conv!AsI64(r)
        BY <1>3, <3>2, EncodedNumber
      <4> QED
        BY <1>3, <2>1, <3>2, <4>1, IntegralStored
    <3> QED
      BY <1>3, <3>1, <3>2, EncodedNumber
  <2>3. Conv!SetNumber(t, r) = {r}
    BY <1>3, SetExactly
  <2> QED
    BY <2>1, <2>2, <2>3
<1>4. ASSUME t # "float", Conv!Abs(x) <= Mantissas * Scale
      PROVE  y = x
  <2>1. CASE t \in Integral
    <3>1. -(Mantissas * Scale) <= x /\ x <= Mantissas * Scale /\ x <= Half - Scale
      <4> DEFINE most == Mantissas * Scale
      <4>1. most \in Nat /\ most + Scale <= Half /\ Conv!Abs(x) <= most
        BY <1>2, <1>4
      <4> HIDE DEF most
      <4>2. -most <= x /\ x <= most /\ x <= Half - Scale
        BY <1>1, <1>2, <4>1 DEF Conv!Abs
      <4> QED
        BY <4>2 DEF most
    <3>2. IsWhole(x)
      BY <2>1, SetExactly
    <3>3. r = x
      BY <1>1, <3>1, <3>2, SmallWhole
    <3> QED
      BY <1>3, <2>1, <3>1, <3>3
  <2>2. CASE t \notin Integral \cup {"float"}
    <3>1. x = 0 /\ n = 0
      BY <2>2, EncodedNumber
    <3>2. Conv!SetNumber(t, Conv!RoundF64(n)) = {Conv!RoundF64(n)}
      BY <2>2, SetNumbers
    <3> QED
      BY <3>1, <3>2, ZeroStays
  <2> QED
    BY <1>4, <2>1, <2>2
<1>5. ASSUME t \in {"int", "uint"}, r \in Conv!SetNumber(t, r), c = "bigint" => r <= Conv!MaxI
      PROVE  y = r
  <2>1. t \in Integral /\ r \in Int
    BY <1>1, <1>5, RoundFixed DEF Integral
  <2>2. r \in Conv!Numbers(t)
    BY <1>5, <2>1, SetIsTyped
  <2> QED
    BY <1>2, <1>3, <1>5, <2>1, <2>2
<1>6. ASSUME t = "float"
      PROVE  /\ y = Conv!RoundF64(n) /\ Conv!IsF64(x) /\ r = x
             /\ \/ c = "number" /\ n = r
                \/ c = "bigint" /\ n = Conv!AsI64(r)
  <2>1. Conv!SetNumber(t, Conv!RoundF64(n)) = {Conv!RoundF64(n)}
    BY <1>6, SetNumbers DEF Integral
  <2>2. Conv!IsF64(x) /\ r = x
    BY <1>6, FloatNumbers DEF Conv!IsF64
  <2> QED
    BY <1>6, <2>1, <2>2, EncodedNumber
<1>7. t = "float" /\ c = "number" => y = x
  BY <1>6
<1>8. ASSUME t = "float", c = "bigint", Conv!Truncate(x) \in Conv!MinI..Conv!MaxI
      PROVE  y = Conv!Truncate(x)
  <2>1. -Half <= Conv!Truncate(x) /\ Conv!Truncate(x) <= Half - Scale
    BY <1>2, <1>8
  <2>2. y = Conv!RoundF64(Conv!AsI64(x)) /\ Conv!IsF64(x)
    BY <1>6, <1>8
  <2> QED
    BY <1>1, <2>1, <2>2, FloatSaturated
<1> QED
  BY <1>4, <1>5, <1>7, <1>8

(* The value on its way: typed, what it was encrypted as the first time    *)
(* and what since, and what is in the JSON between.                        *)
ReadAs(t, p) == Conv!SetNumber(t, Conv!RoundF64(p.n))

ValuesTyped ==
    /\ type \in Conv!GoTypes /\ cast \in Conv!Casts /\ inferred \in BOOLEAN
    /\ value \in Conv!Numbers(type) /\ field \in Conv!Numbers(type)
    /\ unset \in BOOLEAN
    /\ place \in {"field", "plaintext", "stored", "decrypted", "done"}
    /\ variant \in Conv!VariantsOf(type)
    /\ number \in Int /\ Conv!IsF64(number)
    /\ trip \in 1..2

FirstTrip ==
    trip = 1 =>
        /\ field = value
        /\ place \in {"field", "plaintext"} =>
              plaintext = Conv!NoPlaintext /\ first = Conv!NoPlaintext
        /\ place \in {"stored", "decrypted", "done"} =>
              plaintext = EncodedAs(variant, cast, value) /\ first = plaintext

SecondTrip ==
    trip = 2 =>
        /\ first = EncodedAs(variant, cast, value) /\ first # Conv!NoPlaintext
        /\ place \in {"field", "plaintext"} =>
              field \in ReadAs(type, first) /\ plaintext = first
        /\ place \in {"stored", "decrypted", "done"} =>
              \E x \in ReadAs(type, first) : plaintext = EncodedAs(variant, cast, x)

OnTheWay ==
    /\ place = "plaintext" => number = Conv!RoundF64(field)
    /\ place \in {"stored", "decrypted"} =>
          plaintext = EncodedAs(variant, cast, field) /\ plaintext # Conv!NoPlaintext
    /\ place = "decrypted" => number = Conv!RoundF64(plaintext.n)

ValuesInv == ValuesTyped /\ FirstTrip /\ SecondTrip /\ OnTheWay

(* The number in a field is an integer, and so is its float64.             *)
LEMMA FieldNumber ==
    ASSUME ValuesTyped
    PROVE  /\ field \in Int /\ Conv!RoundF64(field) \in Int
           /\ Conv!IsF64(Conv!RoundF64(field))
<1>1. field \in Int
  <2>1. type \in Integral => field \in Int
    BY SetExactly DEF ValuesTyped
  <2>2. type = "float" => field \in Int
    BY FloatNumbers DEF ValuesTyped
  <2>3. Conv!Numbers(type) = {0} => field \in Int
    BY DEF ValuesTyped
  <2> QED
    BY <2>1, <2>2, <2>3, TypeKinds DEF ValuesTyped
<1> QED
  BY <1>1, RoundFixed

(* The invariant holds of a field that has gone nowhere.                   *)
LEMMA ValuesInvInit == Conv!Init => ValuesInv
<1> SUFFICES ASSUME Conv!Init
             PROVE  ValuesInv
  OBVIOUS
<1> USE DEF Conv!Init
<1>1. cast \in Conv!Casts
  BY DEF Conv!InferCastAs, Conv!Casts
<1>2. Conv!IsF64(number) /\ number \in Int
  BY ZeroStays DEF Conv!IsF64
<1>3. ValuesTyped
  <2>1. field \in Conv!Numbers(type) /\ value \in Conv!Numbers(type)
    OBVIOUS
  <2>2. /\ place \in {"field", "plaintext", "stored", "decrypted", "done"}
        /\ variant \in Conv!VariantsOf(type) /\ trip \in 1..2
    OBVIOUS
  <2>3. type \in Conv!GoTypes /\ inferred \in BOOLEAN /\ unset \in BOOLEAN
    BY Zenon
  <2> QED
    BY <1>1, <1>2, <2>1, <2>2, <2>3, Zenon DEF ValuesTyped
<1>4. FirstTrip /\ SecondTrip /\ OnTheWay
  BY DEF FirstTrip, SecondTrip, OnTheWay
<1> QED
  BY <1>3, <1>4 DEF ValuesInv

(* Writing the JSON rounds the field's number.                             *)
LEMMA DeserializeGoes ==
    ASSUME ValuesInv, Conv!Deserialize
    PROVE  ValuesInv'
<1>1. ValuesTyped'
  BY FieldNumber DEF ValuesInv, ValuesTyped, Conv!Deserialize, Conv!args
<1>2. FirstTrip' /\ SecondTrip'
  BY DEF ValuesInv, FirstTrip, SecondTrip, Conv!Deserialize, Conv!args
<1>3. OnTheWay'
  BY DEF OnTheWay, Conv!Deserialize, Conv!args
<1> QED
  BY <1>1, <1>2, <1>3 DEF ValuesInv

(* The second time, what encrypted before encrypts again.                  *)
LEMMA EncryptGoes ==
    ASSUME ValuesInv, Conv!Encrypt
    PROVE  ValuesInv'
<1> DEFINE p == EncodedAs(variant, cast, field)
<1>1. /\ plaintext' = p /\ place' = IF p = Conv!NoPlaintext THEN "done" ELSE "stored"
      /\ first' = IF trip = 1 THEN p ELSE first
      /\ place = "plaintext"
      /\ UNCHANGED <<type, cast, inferred, value, field, unset, variant, number, trip>>
  BY DEF ValuesInv, OnTheWay, Conv!Encrypt, EncodedAs, Conv!args
<1> HIDE DEF p
<1>2. ValuesTyped'
  BY <1>1 DEF ValuesInv, ValuesTyped
<1>3. FirstTrip'
  BY <1>1 DEF ValuesInv, FirstTrip, p
<1>4. SecondTrip'
  BY <1>1 DEF ValuesInv, SecondTrip, ValuesTyped, p
<1>5. OnTheWay'
  BY <1>1 DEF OnTheWay, p
<1> QED
  BY <1>2, <1>3, <1>4, <1>5 DEF ValuesInv

(* Decrypting leaves what is encrypted alone.                              *)
LEMMA DecryptsBack ==
    ASSUME ValuesInv, Conv!Decrypt
    PROVE  ValuesInv'
<1>1. /\ place = "stored" /\ place' = "decrypted" /\ number' = Conv!RoundF64(plaintext.n)
      /\ UNCHANGED <<type, cast, inferred, value, field, unset, variant, plaintext, first, trip>>
  BY DEF Conv!Decrypt, Conv!args
<1>2. number' \in Int /\ Conv!IsF64(number')
  <2>1. plaintext = EncodedAs(variant, cast, field) /\ plaintext # Conv!NoPlaintext
    BY <1>1 DEF ValuesInv, OnTheWay
  <2>2. plaintext.n \in Int
    BY <2>1, EncodedKinds, FieldNumber DEF ValuesInv, ValuesTyped
  <2> QED
    BY <1>1, <2>2, RoundFixed
<1>3. ValuesTyped'
  BY <1>1, <1>2 DEF ValuesInv, ValuesTyped, Conv!IsF64
<1>4. FirstTrip' /\ SecondTrip' /\ OnTheWay'
  BY <1>1 DEF ValuesInv, FirstTrip, SecondTrip, OnTheWay
<1> QED
  BY <1>3, <1>4 DEF ValuesInv

(* Setting the field ends the first trip, or the way.                      *)
LEMMA SetGoes ==
    ASSUME ValuesInv, Conv!SetFieldValue
    PROVE  ValuesInv'
<1>1. /\ place = "decrypted" /\ number = Conv!RoundF64(plaintext.n)
      /\ plaintext = EncodedAs(variant, cast, field) /\ plaintext # Conv!NoPlaintext
      /\ UNCHANGED <<type, cast, inferred, value, variant, number, plaintext, first>>
  BY DEF ValuesInv, OnTheWay, Conv!SetFieldValue, Conv!args
<1>2. /\ trip = 1 => plaintext = EncodedAs(variant, cast, value) /\ first = plaintext
      /\ trip = 2 =>
            /\ first = EncodedAs(variant, cast, value) /\ first # Conv!NoPlaintext
            /\ \E x \in ReadAs(type, first) : plaintext = EncodedAs(variant, cast, x)
      /\ trip = 1 => field = value
      /\ trip \in 1..2
  BY <1>1 DEF ValuesInv, FirstTrip, SecondTrip, ValuesTyped
<1>3. CASE /\ field' \in Conv!SetNumber(type, number)
           /\ place' = IF trip = 1 THEN "field" ELSE "done"
           /\ trip' = 2 /\ unset' = unset
  <2>1. field' \in Conv!Numbers(type)
    BY <1>1, <1>3, SetTyped DEF ValuesInv, ValuesTyped
  <2>2. ValuesTyped'
    BY <1>1, <1>3, <2>1 DEF ValuesInv, ValuesTyped
  <2>3. FirstTrip' /\ OnTheWay'
    BY <1>3 DEF FirstTrip, OnTheWay
  <2>4. SecondTrip'
    <3>1. CASE trip = 1
      BY <1>1, <1>2, <1>3, <3>1 DEF SecondTrip, ReadAs
    <3>2. CASE trip = 2
      BY <1>1, <1>2, <1>3, <3>2 DEF SecondTrip, ReadAs
    <3> QED
      BY <1>2, <3>1, <3>2
  <2> QED
    BY <2>2, <2>3, <2>4 DEF ValuesInv
<1>4. CASE unset' = TRUE /\ place' = "done" /\ UNCHANGED <<field, trip>>
  <2>1. ValuesTyped'
    BY <1>1, <1>4 DEF ValuesInv, ValuesTyped, Conv!IsF64
  <2>2. FirstTrip' /\ SecondTrip' /\ OnTheWay'
    BY <1>1, <1>2, <1>4 DEF FirstTrip, SecondTrip, OnTheWay, ReadAs
  <2> QED
    BY <2>1, <2>2 DEF ValuesInv
<1> QED
  BY <1>3, <1>4 DEF Conv!SetFieldValue

(* The steps of ModelDecrypt do not touch the value, the others are those  *)
(* above.                                                                  *)
LEMMA ValuesInvPreserved ==
    ASSUME ValuesInv, [ModelsNext]_allVars
    PROVE  ValuesInv'
<1>1. CASE Conv!Next
  BY <1>1, DeserializeGoes, EncryptGoes, DecryptsBack, SetGoes DEF Conv!Next
<1>2. CASE UNCHANGED valueVars
  BY <1>2 DEF ValuesInv, ValuesTyped, FirstTrip, SecondTrip, OnTheWay, valueVars
<1> QED
  BY <1>1, <1>2 DEF ModelsNext, Models, Values, allVars

(* What a field is encrypted as is, on each trip, a function of the number *)
(* in it then, and the number it is read back as one Go may set for the    *)
(* decrypted one.                                                          *)
THEOREM ValuesInvariance == ModelsSpec => []ValuesInv
<1>1. ModelsInit => ValuesInv
  BY ValuesInvInit DEF ModelsInit
<1>2. ValuesInv /\ [ModelsNext]_allVars => ValuesInv'
  BY ValuesInvPreserved
<1> QED
  BY <1>1, <1>2, PTL DEF ModelsSpec

(* What came back is BackExactly's, and the nearest float64 by Nearest.    *)
LEMMA ExactHolds == ValuesInv => Exact
<1> SUFFICES ASSUME ValuesInv
             PROVE  Exact
  OBVIOUS
<1> USE DEF ValuesInv
<1>1. Conv!TypeOK
  <2>1. plaintext.type = "BigInt" => plaintext.n \in Conv!MinI..Conv!MaxI /\ plaintext.n % Scale = 0
    <3>1. plaintext = Conv!NoPlaintext \/ \E x \in Int : plaintext = EncodedAs(variant, cast, x)
      <4>1. CASE trip = 1 /\ place \in {"stored", "decrypted", "done"}
        BY <4>1, FieldNumber DEF FirstTrip
      <4>2. CASE trip = 1 /\ place \in {"field", "plaintext"}
        BY <4>2 DEF FirstTrip
      <4>3. CASE trip = 2
        <5>1. value \in Int /\ first = EncodedAs(variant, cast, value) /\ first # Conv!NoPlaintext
          BY <4>3, EncodedNumber DEF SecondTrip, ValuesTyped
        <5>2. \A x \in ReadAs(type, first) : x \in Int
          BY <5>1, SetTyped DEF ReadAs, ValuesTyped
        <5> QED
          BY <4>3, <5>1, <5>2 DEF SecondTrip, ValuesTyped
      <4> QED
        BY <4>1, <4>2, <4>3 DEF ValuesTyped
    <3> QED
      BY <3>1, EncodedKinds DEF ValuesTyped, Conv!NoPlaintext
  <2>2. first.type \in {"none", plaintext.type}
    <3>1. CASE trip = 1
      BY <3>1 DEF FirstTrip, ValuesTyped, Conv!NoPlaintext
    <3>2. CASE trip = 2
      <4>1. value \in Int /\ first = EncodedAs(variant, cast, value) /\ first # Conv!NoPlaintext
        BY <3>2, EncodedNumber DEF SecondTrip, ValuesTyped
      <4>2. \A x \in ReadAs(type, first) : EncodedAs(variant, cast, x).type = first.type
        BY <4>1, SetTyped, EncodedKinds DEF ReadAs, ValuesTyped
      <4> QED
        BY <3>2, <4>1, <4>2 DEF SecondTrip, ValuesTyped
    <3> QED
      BY <3>1, <3>2 DEF ValuesTyped
  <2> QED
    BY <2>1, <2>2 DEF Conv!TypeOK, ValuesTyped
<1>2. SUFFICES ASSUME Conv!ReadBack
      PROVE  /\ type # "float" /\ Conv!Abs(value) <= Mantissas * Scale => field = value
             /\ /\ type \in {"int", "uint"}
                /\ Conv!RoundF64(value) \in Conv!SetNumber(type, Conv!RoundF64(value))
                /\ cast = "bigint" => Conv!RoundF64(value) <= Conv!MaxI
                => \A x \in value - Conv!Ulp(value)..value + Conv!Ulp(value) :
                      Conv!IsF64(x) => Conv!Abs(field - value) <= Conv!Abs(x - value)
             /\ type = "float" /\ cast = "number" => field = value
             /\ /\ type = "float" /\ cast = "bigint"
                /\ Conv!Truncate(value) \in Conv!MinI..Conv!MaxI
                => field = Conv!Truncate(value)
  BY <1>1 DEF Exact, Conv!Exact, Mantissas
<1>3. /\ first = EncodedAs(variant, cast, value) /\ first # Conv!NoPlaintext
      /\ field \in ReadAs(type, first)
  BY <1>2 DEF Conv!ReadBack, SecondTrip
<1>4. /\ type # "float" /\ Conv!Abs(value) <= Mantissas * Scale => field = value
      /\ /\ type \in {"int", "uint"}
         /\ Conv!RoundF64(value) \in Conv!SetNumber(type, Conv!RoundF64(value))
         /\ cast = "bigint" => Conv!RoundF64(value) <= Conv!MaxI
         => field = Conv!RoundF64(value)
      /\ type = "float" /\ cast = "number" => field = value
      /\ /\ type = "float" /\ cast = "bigint"
         /\ Conv!Truncate(value) \in Conv!MinI..Conv!MaxI
         => field = Conv!Truncate(value)
  BY <1>3, BackExactly DEF ValuesTyped, ReadAs
<1>5. value \in Int
  BY <1>3, EncodedNumber DEF ValuesTyped
<1>6. ASSUME field = Conv!RoundF64(value),
             NEW x \in value - Conv!Ulp(value)..value + Conv!Ulp(value), Conv!IsF64(x)
      PROVE  Conv!Abs(field - value) <= Conv!Abs(x - value)
  BY <1>5, <1>6, Nearest
<1> QED
  BY <1>4, <1>6

(* What was encrypted the second time is DriftFree's.                      *)
LEMMA NoDriftHolds == ValuesInv => NoDrift
<1> SUFFICES ASSUME ValuesInv, trip = 2, place \in {"stored", "decrypted", "done"},
                    Conv!Cardinality(Conv!SetNumber(type, Conv!RoundF64(first.n))) = 1
             PROVE  plaintext = first
  BY DEF NoDrift, Conv!NoDrift
<1>1. first = EncodedAs(variant, cast, value) /\ first # Conv!NoPlaintext
  BY DEF ValuesInv, SecondTrip
<1>2. PICK x \in ReadAs(type, first) : plaintext = EncodedAs(variant, cast, x)
  BY DEF ValuesInv, SecondTrip
<1> QED
  BY <1>1, <1>2, DriftFree DEF ReadAs, ValuesInv, ValuesTyped

(* What was encrypted the first time is OrderKept's.                       *)
LEMMA OrderPreservedHolds == ValuesInv => OrderPreserved
<1> SUFFICES ASSUME ValuesInv, trip = 1, place = "stored", type \in Conv!Numeric,
                    NEW other \in Conv!Numbers(type), value <= other
             PROVE  plaintext.n <= EncodedAs("Number", cast, other).n
  BY DEF OrderPreserved, Conv!OrderPreserved, EncodedAs
<1>1. variant = "Number"
  BY DEF ValuesInv, ValuesTyped, Conv!VariantsOf, Conv!Numeric
<1>2. plaintext = EncodedAs("Number", cast, value) /\ plaintext # Conv!NoPlaintext
  BY <1>1 DEF ValuesInv, FirstTrip, OnTheWay
<1> QED
  BY <1>2, OrderKept DEF ValuesInv, ValuesTyped

(* A number comes back as it was, or as near to it as a float64 can be, if *)
(* its type and an i64 hold that.                                          *)
THEOREM NumbersComeBack == ModelsSpec => []Exact
<1>1. ValuesInv => Exact
  BY ExactHolds
<1> QED
  BY <1>1, ValuesInvariance, PTL

(* A field that was read and is written again encrypts the same plaintext. *)
THEOREM RoundingHappensOnce == ModelsSpec => []NoDrift
<1>1. ValuesInv => NoDrift
  BY NoDriftHolds
<1> QED
  BY <1>1, ValuesInvariance, PTL

(* Plaintexts are in the order of the values they were made from.          *)
THEOREM OrderSurvives == ModelsSpec => []OrderPreserved
<1>1. ValuesInv => OrderPreserved
  BY OrderPreservedHolds
<1> QED
  BY <1>1, ValuesInvariance, PTL

=============================================================================
