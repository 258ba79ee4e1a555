----------------------------- MODULE QueryPlan -----------------------------
(***************************************************************************)
(* What becomes of one value on its way to encryption: an Encrypt or an    *)
(* EncryptQuery, from the Go arguments through encrypt_impl or             *)
(* encrypt_query_impl of crates/protect-ffi-c/src/lib.rs, and how an error *)
(* on that way becomes one of the Go sentinels of errors.go.  The bulk     *)
(* operations treat each of their items the same way.                      *)
(*                                                                         *)
(* A value is described by what the code tells apart: the variant of       *)
(* GoPlaintext it deserializes to, and for a string whether it is a JSON   *)
(* path.  An error message is the set of the markers inferSentinel looks   *)
(* for that occur in it: the one of its format, and those of a caller's    *)
(* text it quotes.                                                         *)
(***************************************************************************)
EXTENDS Naturals, Sequences

CONSTANT Quotable   \* markers a caller's own text may happen to contain

(***************************************************************************)
(* Errors and sentinels.                                                   *)
(***************************************************************************)

(* The markers in the order inferSentinel tries them, each named for the   *)
(* sentinel it selects.                                                    *)
Markers == << "ErrInvariantViolation",   \* "invariant violation"
              "ErrUnknownQueryOp",       \* "Unknown query operation"
              "ErrUnknownColumn",        \* "not found in Encrypt config"
              "ErrMissingIndex",         \* "does not have a"
              "ErrInvalidQueryInput",    \* "Invalid query input"
              "ErrInvalidJSONPath",      \* "Invalid JSON path"
              "ErrSteVecRequiresJSON" >> \* "ste_vec index requires cast_as"

MarkerSet == {Markers[i] : i \in DOMAIN Markers}

ASSUME QuotableAssumption == Quotable \subseteq MarkerSet

Errors == {"UnknownColumn", "MissingIndex", "UnknownQueryOp", "InvalidJsonPath",
           "InvalidQueryInput", "TypeParse", "Encryption"}

(* The marker in an error's own format; the transparent ones have none.    *)
FormatMarkers(error) ==
    CASE error = "UnknownColumn" -> {"ErrUnknownColumn"}
      [] error = "MissingIndex" -> {"ErrMissingIndex"}
      [] error = "UnknownQueryOp" -> {"ErrUnknownQueryOp"}
      [] error = "InvalidJsonPath" -> {"ErrInvalidJSONPath"}
      [] error = "InvalidQueryInput" -> {"ErrInvalidQueryInput"}
      [] OTHER -> {}

(* The sentinel whose doc comment describes the error.                     *)
Intended(error) ==
    CASE error = "UnknownColumn" -> "ErrUnknownColumn"
      [] error = "MissingIndex" -> "ErrMissingIndex"
      [] error = "UnknownQueryOp" -> "ErrUnknownQueryOp"
      [] error = "InvalidJsonPath" -> "ErrInvalidJSONPath"
      [] error = "InvalidQueryInput" -> "ErrInvalidQueryInput"
      [] OTHER -> "ErrFFI"

(* Mutant: the markers are tried in the opposite order.                    *)
InferSentinelBackwards(message) ==
    IF message = {} THEN "ErrFFI"
    ELSE Markers[CHOOSE i \in DOMAIN Markers :
            /\ Markers[i] \in message
            /\ \A j \in DOMAIN Markers : Markers[j] \in message => j <= i]

(* The first marker that occurs decides.                                   *)
InferSentinel(message) ==
    IF message = {} THEN "ErrFFI"
    ELSE Markers[CHOOSE i \in DOMAIN Markers :
            /\ Markers[i] \in message
            /\ \A j \in DOMAIN Markers : Markers[j] \in message => i <= j]

(***************************************************************************)
(* Columns, query types and values.                                        *)
(***************************************************************************)

ColumnTypes == {"Utf8Str", "Float", "BigInt", "Boolean", "Date", "JsonB"}
IndexTypes == {"unique", "match", "ore", "ste_vec"}

(* A column into_column_config accepts: ste_vec only on JSON.              *)
Configured(column) == "ste_vec" \in column.indexes => column.type = "JsonB"

Columns == {column \in [type : ColumnTypes, indexes : SUBSET IndexTypes] :
              Configured(column)}

(* QueryType is a string: the five constants, the FFI's own "ste_vec", and *)
(* anything else.                                                          *)
QueryTypes == {"unique", "match", "ore", "ste_vec_selector", "ste_vec_term",
               "ste_vec", "other"}

(* resolveQueryType: a JSON query type names an operation of the ste_vec   *)
(* index, any other string is sent as an index type.                       *)
ResolveQueryType(qt) ==
    CASE qt \in {"unique", "match", "ore"} -> [index |-> qt, op |-> "default"]
      [] qt \in {"ste_vec_selector", "ste_vec_term"} -> [index |-> "ste_vec", op |-> qt]
      [] OTHER -> [index |-> qt, op |-> "default"]

StringValues == {"path", "noDollar", "emptyString"}
Values == StringValues \cup {"number", "boolean", "json", "null"}

(* The variant the untagged GoPlaintext takes; null falls through to JsonB.*)
Variant(value) ==
    CASE value \in StringValues -> "String"
      [] value = "number" -> "Number"
      [] value = "boolean" -> "Boolean"
      [] OTHER -> "JsonB"

(* to_plaintext_with_type: coercion between numbers, and nothing else.     *)
Convertible(value, type) ==
    <<Variant(value), type>> \in
        {<<"String", "Utf8Str">>, <<"Number", "Float">>, <<"Number", "BigInt">>,
         <<"Boolean", "Boolean">>, <<"JsonB", "JsonB">>}

NoPlan == [type |-> "none", mode |-> "none"]
Plan(type, mode) == [plan |-> [type |-> type, mode |-> mode], error |-> "none"]
Fails(error) == [plan |-> NoPlan, error |-> error]

Converted(value, type, mode) ==
    IF Convertible(value, type) THEN Plan(type, mode) ELSE Fails("TypeParse")

(* Mutant: the path of a selector is not validated.                        *)
SelectorUnchecked(value) == Converted(value, "Utf8Str", "SteVecSelector")

(* A string selector must be a JSON path (validate_json_path).             *)
Selector(value) ==
    IF value \in {"noDollar", "emptyString"} THEN Fails("InvalidJsonPath")
    ELSE Converted(value, "Utf8Str", "SteVecSelector")

(* Mutant: an inferred containment query is encrypted as a query term.     *)
QueryPlaintextTermMode(value, op, index, type) ==
    CASE op = "ste_vec_selector" -> Selector(value)
      [] op = "ste_vec_term" ->
            (IF Variant(value) = "JsonB" THEN Converted(value, "JsonB", "Store")
             ELSE Fails("InvalidQueryInput"))
      [] op = "default" /\ index = "ste_vec" ->
            (CASE Variant(value) = "String" -> Selector(value)
               [] Variant(value) = "JsonB" -> Converted(value, "JsonB", "Default")
               [] OTHER -> Fails("InvalidQueryInput"))
      [] OTHER -> Converted(value, type, "Default")

(* to_query_plaintext: the plaintext type and the operation of a query.    *)
QueryPlaintext(value, op, index, type) ==
    CASE op = "ste_vec_selector" -> Selector(value)
      [] op = "ste_vec_term" ->
            (IF Variant(value) = "JsonB" THEN Converted(value, "JsonB", "Store")
             ELSE Fails("InvalidQueryInput"))
      [] op = "default" /\ index = "ste_vec" ->
            (CASE Variant(value) = "String" -> Selector(value)
               [] Variant(value) = "JsonB" -> Converted(value, "JsonB", "Store")
               [] OTHER -> Fails("InvalidQueryInput"))
      [] OTHER -> Converted(value, type, "Default")

(***************************************************************************)
(* One call.                                                               *)
(***************************************************************************)

(* Where a caller's text contains a marker: nowhere, or in the column's    *)
(* name, a string value or the query type.                                 *)
Texts == {[in |-> "nowhere", marker |-> "none"]} \cup
         [in : {"column", "value", "queryType"}, marker : Quotable]

VARIABLES
    op,          \* "Encrypt" or "EncryptQuery"
    column,      \* the column the ColumnRef names
    known,       \* whether the client's configuration has it
    queryType,   \* the QueryType
    value,       \* the plaintext
    text,        \* which of the caller's texts contains a marker
    stage,       \* "resolve", "column", "index", "op", "plaintext", "encrypt",
                 \* "classify" or "done"
    ffi,         \* indexType and queryOp as sent to the library
    plan,        \* the plaintext type and the operation decided on
    error,       \* the library's error, or "none"
    sentinel     \* the Go error, or "none"

vars == <<op, column, known, queryType, value, text, stage, ffi, plan, error, sentinel>>
args == <<op, column, known, queryType, value, text>>

TypeOK ==
    /\ op \in {"Encrypt", "EncryptQuery"}
    /\ column \in Columns
    /\ known \in BOOLEAN
    /\ queryType \in QueryTypes
    /\ value \in Values
    /\ text \in Texts
    /\ stage \in {"resolve", "column", "index", "op", "plaintext", "encrypt",
                  "classify", "done"}
    /\ ffi \in [index : IndexTypes \cup {"other", "none"},
                op : {"default", "ste_vec_selector", "ste_vec_term", "none"}]
    /\ plan \in {NoPlan} \cup
                [type : ColumnTypes, mode : {"Store", "Default", "SteVecSelector"}]
    /\ error \in Errors \cup {"none"}
    /\ sentinel \in MarkerSet \cup {"ErrFFI", "none"}

Init ==
    /\ op \in {"Encrypt", "EncryptQuery"}
    /\ column \in Columns
    /\ known \in BOOLEAN
    /\ queryType \in (IF op = "Encrypt" THEN {"unique"} ELSE QueryTypes)
    /\ value \in Values
    /\ text \in Texts
    /\ text.in = "value" => value \in {"path", "noDollar"}
    /\ text.in = "queryType" => queryType = "other"
    /\ stage = "resolve"
    /\ ffi = [index |-> "none", op |-> "none"]
    /\ plan = NoPlan
    /\ error = "none"
    /\ sentinel = "none"

Fail(e) ==
    /\ error' = e
    /\ stage' = "classify"

(* Go fills in the request; Encrypt has no query to describe.              *)
Resolve ==
    /\ stage = "resolve"
    /\ stage' = "column"
    /\ ffi' = IF op = "Encrypt" THEN ffi ELSE ResolveQueryType(queryType)
    /\ UNCHANGED <<args, plan, error, sentinel>>

LookUpColumn ==
    /\ stage = "column"
    /\ \/ /\ ~known
          /\ Fail("UnknownColumn")
       \/ /\ known
          /\ stage' = IF op = "Encrypt" THEN "plaintext" ELSE "index"
          /\ UNCHANGED error
    /\ UNCHANGED <<args, ffi, plan, sentinel>>

(* find_index_for_type.                                                    *)
FindIndex ==
    /\ stage = "index"
    /\ \/ /\ ffi.index \notin column.indexes
          /\ Fail("MissingIndex")
       \/ /\ ffi.index \in column.indexes
          /\ stage' = "op"
          /\ UNCHANGED error
    /\ UNCHANGED <<args, ffi, plan, sentinel>>

(* parse_query_op knows every operation resolveQueryType produces, so its  *)
(* error never occurs here.                                                *)
ParseQueryOp ==
    /\ stage = "op"
    /\ ffi.op \in {"default", "ste_vec_selector", "ste_vec_term"}
    /\ stage' = "plaintext"
    /\ UNCHANGED <<args, ffi, plan, error, sentinel>>

MakePlaintext ==
    /\ stage = "plaintext"
    /\ LET made == IF op = "Encrypt" THEN Converted(value, column.type, "Store")
                   ELSE QueryPlaintext(value, ffi.op, ffi.index, column.type)
       IN  /\ plan' = made.plan
           /\ \/ made.error # "none" /\ Fail(made.error)
              \/ made.error = "none" /\ stage' = "encrypt" /\ UNCHANGED error
    /\ UNCHANGED <<args, ffi, sentinel>>

(* encrypt_eql, outside the repository, succeeds or fails.                 *)
EncryptEql ==
    /\ stage = "encrypt"
    /\ \/ Fail("Encryption")
       \/ stage' = "done" /\ UNCHANGED error
    /\ UNCHANGED <<args, ffi, plan, sentinel>>

(* The caller's text that the error's message quotes.                      *)
Quotes(e) ==
    CASE e = "UnknownColumn" -> {"column"}
      [] e = "MissingIndex" -> {"column", "queryType"}
      [] e \in {"InvalidQueryInput", "InvalidJsonPath"} -> {"value"}
      [] OTHER -> {}

Message(e) == FormatMarkers(e) \cup IF text.in \in Quotes(e) THEN {text.marker} ELSE {}

(* newError.                                                               *)
Classify ==
    /\ stage = "classify"
    /\ sentinel' = InferSentinel(Message(error))
    /\ stage' = "done"
    /\ UNCHANGED <<args, ffi, plan, error>>

Next ==
    \/ Resolve
    \/ LookUpColumn
    \/ FindIndex
    \/ ParseQueryOp
    \/ MakePlaintext
    \/ EncryptEql
    \/ Classify

Spec == Init /\ [][Next]_vars

-----------------------------------------------------------------------------
(* Properties.                                                             *)

Planned == stage \in {"encrypt", "done"} /\ error = "none" /\ op = "EncryptQuery"

(* A query term can match what Encrypt stores in the same column: it uses  *)
(* an index the column has; a term of an index other than ste_vec is made  *)
(* of the type the column stores, from a value the column could store; a   *)
(* containment query is encrypted as a stored JSON document of a JSON      *)
(* column; and a selector is a JSON path into one.  And every variable     *)
(* keeps its type.                                                         *)
QueryMatchesStore ==
    /\ TypeOK
    /\ Planned =>
        /\ known /\ ffi.index \in column.indexes
        /\ ffi.index # "ste_vec" =>
              plan.type = column.type /\ plan.mode = "Default"
        /\ ffi.index = "ste_vec" =>
              /\ column.type = "JsonB"
              /\ \/ plan = [type |-> "JsonB", mode |-> "Store"]
                 \/ plan = [type |-> "Utf8Str", mode |-> "SteVecSelector"] /\ value = "path"
        /\ queryType = "ste_vec_term" => plan.mode = "Store"
        /\ queryType = "ste_vec_selector" => plan.mode = "SteVecSelector"

(* Naming the index and leaving the operation to the library ("ste_vec",   *)
(* with the operation inferred from the value) plans exactly what naming   *)
(* the right query type would: it succeeds when JSONSelector or            *)
(* JSONContains does, with the same plan.                                  *)
InferenceAgrees ==
    (queryType = "ste_vec" /\ stage \in {"encrypt", "classify"} /\ known
     /\ "ste_vec" \in column.indexes) =>
        LET explicit == {QueryPlaintext(value, o, "ste_vec", column.type) :
                           o \in {"ste_vec_selector", "ste_vec_term"}}
            plans == {e.plan : e \in {x \in explicit : x.error = "none"}}
        IN  IF plan = NoPlan THEN plans = {} ELSE plans = {plan}

(* Go callers see the sentinel that describes what went wrong, as long as  *)
(* no text of their own that the message quotes contains a marker tried    *)
(* before the error's own.                                                 *)
ErrorsClassified ==
    (stage = "done" /\ error # "none") =>
        \/ sentinel = Intended(error)
        \/ /\ text.in \in Quotes(error)
           /\ \E i, j \in DOMAIN Markers :
                 i < j /\ Markers[i] = text.marker /\ Markers[j] = Intended(error)
=============================================================================
