---------------------------- MODULE Conversions ----------------------------
(***************************************************************************)
(* One tagged struct field on its way through EncryptModel and             *)
(* DecryptModel, twice: Go value, JSON, GoPlaintext, the column's          *)
(* Plaintext, back to JSON and into the field (schema.go's inferCastAs,    *)
(* go_plaintext.rs, model.go's setFieldValue).                             *)
(*                                                                         *)
(* Numbers are integers counted in units of 1/Scale.  A float64 is one     *)
(* with at most Precision significant bits; the code's are 53 bits, and    *)
(* its integers 64.                                                        *)
(***************************************************************************)
EXTENDS Integers, FiniteSets

CONSTANTS
    Precision,   \* significant bits of a float64
    Bits,        \* width of int64, uint64 and i64, more than Precision + 1
    SmallBits,   \* width of the narrower int types, at most Precision
    Scale,       \* units in 1, a power of two
    Limit        \* bound on the magnitude of floats

(***************************************************************************)
(* Numbers.                                                                *)
(***************************************************************************)

Pow2[n \in Nat] == IF n = 0 THEN 1 ELSE 2 * Pow2[n - 1]

Abs(x) == IF x < 0 THEN -x ELSE x
Truncate(x) == IF x < 0 THEN -((-x) \div Scale) * Scale ELSE (x \div Scale) * Scale
Ulp(x) == Pow2[CHOOSE e \in 0..Abs(x) :
                  /\ Abs(x) < Pow2[Precision] * Pow2[e]
                  /\ e = 0 \/ 2 * Abs(x) >= Pow2[Precision] * Pow2[e]]

(* The nearest float64, ties to the even mantissa: "as f64".               *)
RoundF64(x) ==
    LET u == Ulp(x)
        down == Abs(x) \div u
        rest == Abs(x) % u
        up == 2 * rest > u \/ (2 * rest = u /\ down % 2 = 1)
        magnitude == (IF up THEN down + 1 ELSE down) * u
    IN  IF x < 0 THEN -magnitude ELSE magnitude

IsF64(x) == RoundF64(x) = x

MinI == -(Pow2[Bits - 1]) * Scale
MaxI == (Pow2[Bits - 1] - 1) * Scale
MaxU == (Pow2[Bits] - 1) * Scale

(* Mutant: the fraction is kept.                                           *)
AsI64Untruncated(x) == IF x < MinI THEN MinI ELSE IF x > MaxI THEN MaxI ELSE x

(* Mutant: the cast to i64 wraps.                                          *)
AsI64Wrapping(x) ==
    LET n == Truncate(x) % (Pow2[Bits] * Scale)
    IN  IF n > MaxI THEN n - Pow2[Bits] * Scale ELSE n

(* "as i64" truncates and saturates.                                       *)
AsI64(x) ==
    LET n == Truncate(x)
    IN  IF n < MinI THEN MinI ELSE IF n > MaxI THEN MaxI ELSE n

(***************************************************************************)
(* Types.                                                                  *)
(***************************************************************************)

Numeric == {"int", "smallInt", "uint", "float"}
GoTypes == Numeric \cup {"string", "bool", "any", "map", "slice", "struct", "bytes", "time"}
Casts == {"bigint", "boolean", "date", "number", "string", "text", "json"}
Variants == {"String", "Number", "Boolean", "JsonB"}

(* The values of a numeric field.                                          *)
Numbers(type) ==
    CASE type = "int" -> {n * Scale : n \in -(Pow2[Bits - 1])..Pow2[Bits - 1] - 1}
      [] type = "smallInt" -> {n * Scale : n \in -(Pow2[SmallBits - 1])..Pow2[SmallBits - 1] - 1}
      [] type = "uint" -> {n * Scale : n \in 0..Pow2[Bits] - 1}
      [] type = "float" -> {x \in -Limit..Limit : IsF64(x)}
      [] OTHER -> {0}

InferCastAs(type) ==
    CASE type = "string" -> "string"
      [] type \in Numeric -> "number"
      [] type = "bool" -> "boolean"
      [] OTHER -> "json"

(* What encoding/json makes of the type's values, as the first variant of  *)
(* the untagged GoPlaintext that fits: []byte is base64 text (null if      *)
(* nil), time.Time is text, a null or any other structure is JsonB.        *)
VariantsOf(type) ==
    CASE type \in {"string", "time"} -> {"String"}
      [] type \in Numeric -> {"Number"}
      [] type = "bool" -> {"Boolean"}
      [] type = "bytes" -> {"String", "JsonB"}
      [] type = "any" -> Variants
      [] OTHER -> {"JsonB"}

ColumnType(cast) ==
    CASE cast = "bigint" -> "BigInt"
      [] cast = "boolean" -> "Boolean"
      [] cast = "date" -> "Date"
      [] cast = "number" -> "Float"
      [] cast \in {"string", "text"} -> "Utf8Str"
      [] cast = "json" -> "JsonB"

NoPlaintext == [type |-> "none", n |-> 0]

(* to_plaintext_with_type, on the column types a cast can give.            *)
ToPlaintext(variant, n, cast) ==
    LET type == ColumnType(cast)
    IN  IF <<variant, type>> \in {<<"String", "Utf8Str">>, <<"Number", "Float">>,
                                  <<"Boolean", "Boolean">>, <<"JsonB", "JsonB">>}
        THEN [type |-> type, n |-> n]
        ELSE IF <<variant, type>> = <<"Number", "BigInt">> THEN [type |-> type, n |-> AsI64(n)]
        ELSE NoPlaintext

(* Does setFieldValue find a way from the decoded JSON (string, float64,   *)
(* bool, map[string]any or []any) to the field?  By assignability, then by *)
(* the kinds it coerces; with neither, the field is left as it is.         *)
Settable(type, backType) ==
    \/ type = "any"
    \/ <<type, backType>> \in {<<"string", "String">>, <<"bool", "Boolean">>,
                               <<"map", "JsonB">>}
    \/ type \in Numeric /\ backType = "Number"

Wrap(n, bits) ==
    LET r == n % (Pow2[bits] * Scale)
    IN  IF r >= Pow2[bits - 1] * Scale THEN r - Pow2[bits] * Scale ELSE r

(* Go leaves out-of-range float to integer conversions to the              *)
(* implementation: amd64 gives the least int64, arm64 saturates.           *)
GoInt64(x) == IF Truncate(x) \in MinI..MaxI THEN {Truncate(x)} ELSE {MinI, MaxI}
GoUint64(x) == IF Truncate(x) \in 0..MaxU THEN {Truncate(x)}
               ELSE {0, Pow2[Bits - 1] * Scale, MaxU}

(* Mutant: every signed kind is set as a narrow one.                       *)
SetNumberNarrow(type, x) ==
    CASE type \in {"int", "smallInt"} -> {Wrap(n, SmallBits) : n \in GoInt64(x)}
      [] type = "uint" -> GoUint64(x)
      [] OTHER -> {x}

(* The numbers setFieldValue may leave in a numeric field.                 *)
SetNumber(type, x) ==
    CASE type = "int" -> GoInt64(x)
      [] type = "smallInt" -> {Wrap(n, SmallBits) : n \in GoInt64(x)}
      [] type = "uint" -> GoUint64(x)
      [] OTHER -> {x}

(***************************************************************************)
(* The field's way.                                                        *)
(***************************************************************************)

VARIABLES
    type, cast, inferred,   \* the field's type; its cast, and where from
    value,     \* the number first in the field (0 if it holds none)
    field,     \* the number in the field now
    unset,     \* whether setFieldValue left the field alone
    stage,     \* "field", "plaintext", "stored", "decrypted", "done"
    variant,   \* the GoPlaintext variant of the value
    json,      \* the number in the JSON text, as the side that reads it has it
    plaintext, \* what is encrypted
    first,     \* history: what was encrypted the first time
    trip       \* 1 or 2

vars == <<type, cast, inferred, value, field, unset, stage, variant, json,
          plaintext, first, trip>>
args == <<type, cast, inferred, value>>

TypeOK ==
    /\ type \in GoTypes /\ cast \in Casts /\ inferred \in BOOLEAN
    /\ value \in Numbers(type) /\ field \in Numbers(type) \cup {value}
    /\ unset \in BOOLEAN
    /\ stage \in {"field", "plaintext", "stored", "decrypted", "done"}
    /\ variant \in VariantsOf(type)
    /\ json \in Int /\ IsF64(json)
    /\ plaintext.type = "BigInt" => plaintext.n \in MinI..MaxI /\ plaintext.n % Scale = 0
    /\ first.type \in {"none", plaintext.type}
    /\ trip \in 1..2

Init ==
    /\ type \in GoTypes
    /\ inferred \in BOOLEAN
    /\ cast \in IF inferred THEN {InferCastAs(type)} ELSE Casts
    /\ value \in Numbers(type)
    /\ field = value
    /\ unset = FALSE
    /\ stage = "field"
    /\ variant \in VariantsOf(type)
    /\ json = 0
    /\ plaintext = NoPlaintext
    /\ first = NoPlaintext
    /\ trip = 1

(* json.Marshal writes the number in full; serde reads it as an f64.       *)
Deserialize ==
    /\ stage = "field"
    /\ json' = RoundF64(field)
    /\ stage' = "plaintext"
    /\ UNCHANGED <<args, field, unset, variant, plaintext, first, trip>>

Encrypt ==
    /\ stage = "plaintext"
    /\ plaintext' = ToPlaintext(variant, json, cast)
    /\ first' = IF trip = 1 THEN plaintext' ELSE first
    /\ stage' = IF plaintext' = NoPlaintext THEN "done" ELSE "stored"
    /\ UNCHANGED <<args, field, unset, variant, json, trip>>

(* GoPlaintext::try_from, and the JSON text of an f64, which Go reads as   *)
(* the same float64.                                                       *)
Decrypt ==
    /\ stage = "stored"
    /\ json' = RoundF64(plaintext.n)
    /\ stage' = "decrypted"
    /\ UNCHANGED <<args, field, unset, variant, plaintext, first, trip>>

SetFieldValue ==
    /\ stage = "decrypted"
    /\ \/ /\ Settable(type, variant)
          /\ field' \in SetNumber(type, json)
          /\ stage' = IF trip = 1 THEN "field" ELSE "done"
          /\ trip' = 2
          /\ UNCHANGED unset
       \/ /\ ~Settable(type, variant)
          /\ unset' = TRUE
          /\ stage' = "done"
          /\ UNCHANGED <<field, trip>>
    /\ UNCHANGED <<args, variant, json, plaintext, first>>

Next ==
    \/ Deserialize
    \/ Encrypt
    \/ Decrypt
    \/ SetFieldValue

Spec == Init /\ [][Next]_vars

-----------------------------------------------------------------------------
(* Properties.                                                             *)

(* The field has been read back once.                                      *)
ReadBack == trip = 2 /\ stage = "field"

(* An integer of up to Precision bits comes back as it was from a number   *)
(* or bigint column, and a larger one as a float64 no other is nearer to,  *)
(* unless that is outside the field's type or an i64.  A float comes back  *)
(* as it was from a number column, and truncated from a bigint column as   *)
(* far as that reaches.  And every variable keeps its type.                *)
Exact ==
    /\ TypeOK
    /\ ReadBack =>
        /\ (type # "float" /\ Abs(value) <= Pow2[Precision] * Scale) => field = value
        /\ (type \in {"int", "uint"} /\ RoundF64(value) \in SetNumber(type, RoundF64(value))
             /\ (cast = "bigint" => RoundF64(value) <= MaxI)) =>
              \A x \in value - Ulp(value)..value + Ulp(value) :
                  IsF64(x) => Abs(field - value) <= Abs(x - value)
        /\ (type = "float" /\ cast = "number") => field = value
        /\ (type = "float" /\ cast = "bigint" /\ Truncate(value) \in MinI..MaxI) =>
              field = Truncate(value)

(* Reading a field and writing it back encrypts the same plaintext again,  *)
(* so that what matched a query before still does: rounding happens once.  *)
(* Only a number outside the field's type, which Go converts as it likes,  *)
(* can change.                                                             *)
NoDrift ==
    (trip = 2 /\ stage \in {"stored", "decrypted", "done"} /\ ~unset
       /\ Cardinality(SetNumber(type, RoundF64(first.n))) = 1) => plaintext = first

(* Comparing plaintexts never contradicts comparing values: two values of  *)
(* a field may meet in one plaintext, beyond Precision bits or past the    *)
(* ends of an i64, but never change places.                                *)
OrderPreserved ==
    (trip = 1 /\ stage = "stored" /\ type \in Numeric) =>
        \A other \in Numbers(type) :
            value <= other =>
                plaintext.n <= ToPlaintext("Number", RoundF64(other), cast).n

(* The doc comment of DecryptModel: "the resulting plaintext is set on the *)
(* field".                                                                 *)
PlaintextIsSet == ~unset
=============================================================================
