-------------------------- MODULE QueryPlanProofs --------------------------
(***************************************************************************)
(* One value on its way to encryption, whatever markers a caller's text    *)
(* may contain.  The inductive invariant says what each stage has found    *)
(* out: the index and operation Go asked for, that the column has the      *)
(* index, that the plan is the one to_query_plaintext makes, and why an    *)
(* error is what it is.                                                    *)
(***************************************************************************)
EXTENDS QueryPlan, TLAPS

(* The plan for the arguments.                                             *)
Asked == ResolveQueryType(queryType)

Made == IF op = "Encrypt" THEN Converted(value, column.type, "Store")
        ELSE QueryPlaintext(value, Asked.op, Asked.index, column.type)

ArgsInv ==
    /\ text.in \in {"nowhere", "column", "value", "queryType"}
    /\ op = "Encrypt" => queryType = "unique"

AskedInv == op = "EncryptQuery" /\ stage # "resolve" => ffi = Asked

(* The column is there and has the index.                                  *)
Indexed == known /\ (op = "EncryptQuery" => ffi.index \in column.indexes)

StageInv ==
    /\ stage \in {"index", "op", "plaintext"} => known
    /\ stage \in {"index", "op"} => op = "EncryptQuery"
    /\ op = "EncryptQuery" /\ stage \in {"op", "plaintext"} => Indexed
    /\ stage \in {"resolve", "column", "index", "op", "plaintext"} =>
          plan = NoPlan /\ error = "none"
    /\ stage \in {"resolve", "column", "index", "op", "plaintext", "encrypt", "classify"} =>
          sentinel = "none"
    /\ stage = "encrypt" => error = "none"
    /\ stage = "classify" => error # "none"

(* Why there is an error, or a plan.                                       *)
PlanInv ==
    stage \in {"encrypt", "classify", "done"} =>
        \/ error = "UnknownColumn" /\ ~known
        \/ /\ error = "MissingIndex" /\ op = "EncryptQuery"
           /\ known /\ ffi.index \notin column.indexes
        \/ /\ Indexed /\ plan = Made.plan
           /\ IF Made.error = "none" THEN error \in {"none", "Encryption"}
              ELSE error = Made.error

SentinelInv == stage = "done" /\ error # "none" => sentinel = InferSentinel(Message(error))

IInv ==
    /\ TypeOK
    /\ ArgsInv
    /\ AskedInv
    /\ StageInv
    /\ PlanInv
    /\ SentinelInv

-----------------------------------------------------------------------------
(* The pure parts: resolveQueryType, to_query_plaintext, inferSentinel.    *)

QueryOps == {"default", "ste_vec_selector", "ste_vec_term"}
Plans == [type : ColumnTypes, mode : {"Store", "Default", "SteVecSelector"}]
PlanErrors == {"InvalidJsonPath", "InvalidQueryInput", "TypeParse"}

(* A plan or an error, never both.                                         *)
PlanOrError(made) ==
    \/ made.plan \in Plans /\ made.error = "none"
    \/ made.plan = NoPlan /\ made.error \in PlanErrors

LEMMA Resolved ==
    ASSUME NEW qt \in QueryTypes
    PROVE  /\ ResolveQueryType(qt) \in [index : IndexTypes \cup {"other", "none"},
                                        op : {"default", "ste_vec_selector", "ste_vec_term", "none"}]
           /\ ResolveQueryType(qt).op \in QueryOps
           /\ qt = "ste_vec" => ResolveQueryType(qt) = [index |-> "ste_vec", op |-> "default"]
           /\ qt = "ste_vec_term" => ResolveQueryType(qt) = [index |-> "ste_vec", op |-> qt]
           /\ qt = "ste_vec_selector" => ResolveQueryType(qt) = [index |-> "ste_vec", op |-> qt]
           /\ ResolveQueryType(qt).op # "default" => ResolveQueryType(qt).index = "ste_vec"
BY DEF QueryTypes, ResolveQueryType, IndexTypes, QueryOps

LEMMA ConvertedMakes ==
    ASSUME NEW v, NEW type \in ColumnTypes, NEW mode \in {"Store", "Default", "SteVecSelector"}
    PROVE  PlanOrError(Converted(v, type, mode))
BY DEF Converted, PlanOrError, Plan, Fails, Plans, PlanErrors

LEMMA SelectorMakes ==
    ASSUME NEW v \in Values
    PROVE  /\ PlanOrError(Selector(v))
           /\ Selector(v) = IF v = "path" THEN Plan("Utf8Str", "SteVecSelector")
                            ELSE Fails(Selector(v).error)
BY DEF Selector, Converted, Convertible, Variant, Values, StringValues, PlanOrError, Plan, Fails,
   Plans, PlanErrors, ColumnTypes

LEMMA QueryPlaintextMakes ==
    ASSUME NEW v \in Values, NEW o \in QueryOps, NEW index, NEW type \in ColumnTypes
    PROVE  PlanOrError(QueryPlaintext(v, o, index, type))
<1>1. PlanOrError(Selector(v))
  BY SelectorMakes
<1>2. PlanOrError(Fails("InvalidQueryInput"))
  BY DEF PlanOrError, Fails, PlanErrors
<1>3. /\ PlanOrError(Converted(v, "JsonB", "Store"))
      /\ PlanOrError(Converted(v, type, "Default"))
  BY ConvertedMakes DEF ColumnTypes
<1>4. QueryPlaintext(v, o, index, type) \in
          {Selector(v), Fails("InvalidQueryInput"), Converted(v, "JsonB", "Store"),
           Converted(v, type, "Default")}
  BY DEF QueryPlaintext, QueryOps, Variant
<1> QED
  BY <1>1, <1>2, <1>3, <1>4

LEMMA MadeMakes ==
    ASSUME TypeOK
    PROVE  PlanOrError(Made)
<1>1. column.type \in ColumnTypes
  BY DEF TypeOK, Columns
<1>2. Asked.op \in QueryOps
  BY Resolved DEF TypeOK, Asked
<1> QED
  BY <1>1, <1>2, ConvertedMakes, QueryPlaintextMakes DEF TypeOK, Made

(* inferSentinel takes the first marker of those that occur.               *)
LEMMA FirstMarker ==
    ASSUME NEW message, NEW k \in DOMAIN Markers, Markers[k] \in message
    PROVE  \E i \in DOMAIN Markers :
              /\ InferSentinel(message) = Markers[i]
              /\ Markers[i] \in message
              /\ \A j \in DOMAIN Markers : Markers[j] \in message => i <= j
<1> DEFINE P(i) == /\ Markers[i] \in message
                   /\ \A j \in DOMAIN Markers : Markers[j] \in message => i <= j
<1>1. DOMAIN Markers = 1..7
  BY DEF Markers
<1>2. \E i \in DOMAIN Markers : P(i)
  <2> DEFINE In(i) == Markers[i] \in message
  <2>1. \/ In(1) \/ In(2) \/ In(3) \/ In(4) \/ In(5) \/ In(6) \/ In(7)
    <3>1. k \in {1, 2, 3, 4, 5, 6, 7}
      BY <1>1
    <3> QED
      BY <3>1
  <2> HIDE DEF In
  <2>2. \E i \in 1..7 : In(i) /\ \A j \in 1..7 : In(j) => i <= j
    BY <2>1
  <2> QED
    BY <1>1, <2>2 DEF In
<1>3. P(CHOOSE i \in DOMAIN Markers : P(i)) /\ (CHOOSE i \in DOMAIN Markers : P(i)) \in DOMAIN Markers
  <2> HIDE DEF P
  <2> QED
    BY <1>2
<1>4. message # {}
  OBVIOUS
<1>5. InferSentinel(message) = Markers[CHOOSE i \in DOMAIN Markers : P(i)]
  BY <1>4 DEF InferSentinel
<1> QED
  BY <1>3, <1>5

(* What a message contains: the marker of its format, and what it quotes.  *)
LEMMA MessageMarkers ==
    ASSUME TypeOK, ArgsInv, NEW e \in Errors
    PROVE  /\ Message(e) \subseteq MarkerSet
           /\ \A m \in Message(e) : m \in FormatMarkers(e) \/ (m = text.marker /\ text.in \in Quotes(e))
<1>1. FormatMarkers(e) \subseteq MarkerSet
  <2>1. \A i \in 1..7 : Markers[i] \in MarkerSet
    BY DEF MarkerSet, Markers
  <2>2. /\ Markers[2] = "ErrUnknownQueryOp" /\ Markers[3] = "ErrUnknownColumn"
        /\ Markers[4] = "ErrMissingIndex" /\ Markers[5] = "ErrInvalidQueryInput"
        /\ Markers[6] = "ErrInvalidJSONPath"
    BY DEF Markers
  <2>3. {Markers[2], Markers[3], Markers[4], Markers[5], Markers[6]} \subseteq MarkerSet
    BY <2>1
  <2> QED
    BY <2>2, <2>3 DEF FormatMarkers, Errors
<1>2. text.in \in Quotes(e) => text.marker \in Quotable
  <2>1. "nowhere" \notin Quotes(e)
    BY DEF Quotes, Errors
  <2> QED
    BY <2>1 DEF TypeOK, Texts
<1> QED
  BY <1>1, <1>2, QuotableAssumption DEF Message

-----------------------------------------------------------------------------
(* The steps.                                                              *)

LEMMA ArgsFixed ==
    ASSUME [Next]_vars
    PROVE  /\ op' = op /\ column' = column /\ known' = known /\ queryType' = queryType
           /\ value' = value /\ text' = text
           /\ Asked' = Asked /\ Made' = Made
           /\ \A e : Message(e)' = Message(e)
<1>1. /\ op' = op /\ column' = column /\ known' = known /\ queryType' = queryType
      /\ value' = value /\ text' = text
  BY DEF Next, vars, args, Resolve, LookUpColumn, FindIndex, ParseQueryOp, MakePlaintext,
     EncryptEql, Classify
<1> QED
  BY <1>1 DEF Asked, Made, Message

(* MakePlaintext makes what was asked for.                                 *)
LEMMA MakesAsked ==
    ASSUME IInv, MakePlaintext
    PROVE  /\ plan' = Made.plan /\ stage = "plaintext" /\ Indexed
           /\ \/ Made.error \in PlanErrors /\ Fail(Made.error)
              \/ Made.error = "none" /\ stage' = "encrypt" /\ UNCHANGED error
           /\ UNCHANGED <<ffi, sentinel>>
<1>1. stage = "plaintext"
  BY DEF MakePlaintext
<1>2. op \in {"Encrypt", "EncryptQuery"} /\ (op = "EncryptQuery" => ffi = Asked)
  BY <1>1 DEF IInv, TypeOK, AskedInv
<1>3. Indexed
  BY <1>1, <1>2 DEF IInv, StageInv, Indexed
<1>4. PlanOrError(Made)
  BY MadeMakes DEF IInv
<1>5. (IF op = "Encrypt" THEN Converted(value, column.type, "Store")
       ELSE QueryPlaintext(value, ffi.op, ffi.index, column.type)) = Made
  BY <1>2 DEF Made
<1> QED
  BY <1>1, <1>3, <1>4, <1>5 DEF MakePlaintext, PlanOrError, PlanErrors

(* newError picks a sentinel there is.                                     *)
LEMMA Classified ==
    ASSUME TypeOK, ArgsInv, NEW e \in Errors
    PROVE  InferSentinel(Message(e)) \in MarkerSet \cup {"ErrFFI"}
<1>1. CASE Message(e) = {}
  BY <1>1 DEF InferSentinel
<1>2. CASE Message(e) # {}
  <2>1. PICK k \in DOMAIN Markers : Markers[k] \in Message(e)
    BY <1>2, MessageMarkers DEF MarkerSet
  <2> QED
    BY <2>1, FirstMarker DEF MarkerSet
<1> QED
  BY <1>1, <1>2

LEMMA TypePreserved ==
    ASSUME IInv, [Next]_vars
    PROVE  TypeOK'
<1>0. /\ op' = op /\ column' = column /\ known' = known /\ queryType' = queryType
      /\ value' = value /\ text' = text
  BY ArgsFixed
<1>1. CASE UNCHANGED vars
  BY <1>1 DEF vars, IInv, TypeOK
<1>2. CASE Resolve
  <2>1. ResolveQueryType(queryType) \in [index : IndexTypes \cup {"other", "none"},
                op : {"default", "ste_vec_selector", "ste_vec_term", "none"}]
    BY Resolved DEF IInv, TypeOK
  <2> QED
    BY <1>0, <1>2, <2>1 DEF Resolve, IInv, TypeOK
<1>3. CASE LookUpColumn \/ FindIndex
  BY <1>0, <1>3 DEF LookUpColumn, FindIndex, Fail, IInv, TypeOK, Errors
<1>4. CASE ParseQueryOp
  BY <1>0, <1>4 DEF ParseQueryOp, IInv, TypeOK
<1>5. CASE MakePlaintext
  <2>1. plan' \in {NoPlan} \cup Plans
    BY <1>5, MakesAsked, MadeMakes DEF IInv, PlanOrError
  <2>2. stage' \in {"classify", "encrypt"} /\ error' \in Errors \cup {"none"}
        /\ ffi' = ffi /\ sentinel' = sentinel
    BY <1>5, MakesAsked DEF Fail, IInv, TypeOK, PlanErrors, Errors
  <2> QED
    BY <1>0, <2>1, <2>2 DEF IInv, TypeOK, Plans
<1>6. CASE EncryptEql
  BY <1>0, <1>6 DEF EncryptEql, Fail, IInv, TypeOK, Errors
<1>7. CASE Classify
  <2>1. error \in Errors
    BY <1>7 DEF Classify, IInv, StageInv, TypeOK
  <2>2. sentinel' \in MarkerSet \cup {"ErrFFI"}
    BY <1>7, <2>1, Classified DEF Classify, IInv
  <2>3. stage' = "done" /\ UNCHANGED <<ffi, plan, error>>
    BY <1>7 DEF Classify
  <2> QED
    BY <1>0, <2>2, <2>3 DEF IInv, TypeOK
<1> QED
  BY <1>1, <1>2, <1>3, <1>4, <1>5, <1>6, <1>7 DEF Next

LEMMA StagesPreserved ==
    ASSUME IInv, [Next]_vars
    PROVE  ArgsInv' /\ AskedInv' /\ StageInv' /\ PlanInv' /\ SentinelInv'
<1>0. /\ op' = op /\ column' = column /\ known' = known /\ queryType' = queryType
      /\ value' = value /\ text' = text /\ Asked' = Asked /\ Made' = Made
      /\ \A e : Message(e)' = Message(e)
      /\ op \in {"Encrypt", "EncryptQuery"}
  BY ArgsFixed DEF IInv, TypeOK
<1>1. ArgsInv'
  BY <1>0 DEF IInv, ArgsInv
<1> USE DEF IInv, AskedInv, StageInv, PlanInv, SentinelInv, Indexed, Fail
<1>2. CASE UNCHANGED vars
  BY <1>0, <1>1, <1>2 DEF vars
<1>3. CASE Resolve
  BY <1>0, <1>1, <1>3 DEF Resolve, Asked
<1>4. CASE LookUpColumn
  BY <1>0, <1>1, <1>4 DEF LookUpColumn
<1>5. CASE FindIndex
  BY <1>0, <1>1, <1>5 DEF FindIndex
<1>6. CASE ParseQueryOp
  BY <1>0, <1>1, <1>6 DEF ParseQueryOp
<1>7. CASE MakePlaintext
  <2>1. /\ plan' = Made.plan /\ stage = "plaintext" /\ Indexed
        /\ \/ Made.error \in PlanErrors /\ Fail(Made.error)
           \/ Made.error = "none" /\ stage' = "encrypt" /\ UNCHANGED error
        /\ UNCHANGED <<ffi, sentinel>>
    <3> HIDE DEF IInv
    <3> QED
      BY <1>7, MakesAsked
  <2> QED
    BY <1>0, <1>1, <2>1 DEF PlanErrors
<1>8. CASE EncryptEql
  BY <1>0, <1>1, <1>8 DEF EncryptEql
<1>9. CASE Classify
  BY <1>0, <1>1, <1>9 DEF Classify
<1> HIDE DEF IInv, AskedInv, StageInv, PlanInv, SentinelInv, Indexed, Fail
<1> QED
  BY <1>2, <1>3, <1>4, <1>5, <1>6, <1>7, <1>8, <1>9 DEF Next

LEMMA InitIInv ==
    ASSUME Init
    PROVE  IInv
<1>1. TypeOK
  BY DEF Init, TypeOK, QueryTypes
<1>2. ArgsInv
  BY DEF Init, ArgsInv, Texts
<1>3. AskedInv /\ StageInv /\ PlanInv /\ SentinelInv
  BY DEF Init, AskedInv, StageInv, PlanInv, SentinelInv
<1> QED
  BY <1>1, <1>2, <1>3 DEF IInv

-----------------------------------------------------------------------------
(* What the invariant says to a caller.                                    *)

LEMMA MatchesByIInv ==
    ASSUME IInv
    PROVE  QueryMatchesStore
<1> SUFFICES ASSUME Planned
             PROVE  /\ known /\ ffi.index \in column.indexes
                    /\ ffi.index # "ste_vec" =>
                          plan.type = column.type /\ plan.mode = "Default"
                    /\ ffi.index = "ste_vec" =>
                          /\ column.type = "JsonB"
                          /\ \/ plan = [type |-> "JsonB", mode |-> "Store"]
                             \/ /\ plan = [type |-> "Utf8Str", mode |-> "SteVecSelector"]
                                /\ value = "path"
                    /\ queryType = "ste_vec_term" => plan.mode = "Store"
                    /\ queryType = "ste_vec_selector" => plan.mode = "SteVecSelector"
  BY DEF IInv, QueryMatchesStore
<1>1. /\ op = "EncryptQuery" /\ known /\ ffi.index \in column.indexes /\ ffi = Asked
      /\ plan = Made.plan /\ Made.error = "none"
  BY MadeMakes DEF Planned, IInv, AskedInv, PlanInv, Indexed, PlanOrError, PlanErrors
<1>2. Made = QueryPlaintext(value, Asked.op, Asked.index, column.type)
  BY <1>1 DEF Made
<1>3. /\ queryType \in QueryTypes /\ value \in Values /\ column.type \in ColumnTypes
      /\ ffi.index = "ste_vec" => column.type = "JsonB"
  BY <1>1 DEF IInv, TypeOK, Columns, Configured
<1>4. CASE Asked.op = "ste_vec_selector" \/ (Asked.op = "default" /\ Asked.index = "ste_vec" /\ Variant(value) = "String")
  <2>1. Made = Selector(value)
    BY <1>2, <1>4 DEF QueryPlaintext
  <2>2. value = "path" /\ plan = [type |-> "Utf8Str", mode |-> "SteVecSelector"]
    <3>1. CASE value = "path"
      BY <1>1, <2>1, <3>1, SelectorMakes DEF Plan, Values, StringValues
    <3>2. CASE value # "path"
      <4>1. Made.plan = NoPlan
        BY <1>3, <2>1, <3>2, SelectorMakes DEF Fails
      <4>2. PlanOrError(Made)
        BY <1>3, <2>1, SelectorMakes
      <4> QED
        BY <1>1, <4>1, <4>2 DEF PlanOrError, PlanErrors, Plans, NoPlan, ColumnTypes
    <3> QED
      BY <3>1, <3>2
  <2>3. Asked.index = "ste_vec" /\ queryType # "ste_vec_term"
    BY <1>3, <1>4, Resolved DEF Asked
  <2> QED
    BY <1>1, <1>3, <2>2, <2>3
<1>5. CASE Asked.op = "ste_vec_term" \/ (Asked.op = "default" /\ Asked.index = "ste_vec" /\ Variant(value) # "String")
  <2>1. Made \in {Converted(value, "JsonB", "Store"), Fails("InvalidQueryInput")}
    BY <1>2, <1>5 DEF QueryPlaintext
  <2>2. plan = [type |-> "JsonB", mode |-> "Store"]
    BY <1>1, <2>1 DEF Converted, Plan, Fails
  <2>3. Asked.index = "ste_vec" /\ queryType # "ste_vec_selector"
    BY <1>3, <1>5, Resolved DEF Asked
  <2> QED
    BY <1>1, <1>3, <2>2, <2>3
<1>6. CASE Asked.op = "default" /\ Asked.index # "ste_vec"
  <2>1. Made = Converted(value, column.type, "Default")
    BY <1>2, <1>6 DEF QueryPlaintext
  <2>2. plan = [type |-> column.type, mode |-> "Default"]
    BY <1>1, <2>1 DEF Converted, Plan, Fails
  <2>3. queryType \notin {"ste_vec_term", "ste_vec_selector"}
    BY <1>3, <1>6, Resolved DEF Asked
  <2> QED
    BY <1>1, <1>6, <2>2, <2>3
<1> QED
  BY <1>3, <1>4, <1>5, <1>6, Resolved DEF Asked, QueryOps

LEMMA AgreesByIInv ==
    ASSUME IInv
    PROVE  InferenceAgrees
<1> DEFINE explicit == {QueryPlaintext(value, o, "ste_vec", column.type) :
                           o \in {"ste_vec_selector", "ste_vec_term"}}
           plans == {e.plan : e \in {x \in explicit : x.error = "none"}}
<1> SUFFICES ASSUME queryType = "ste_vec", stage \in {"encrypt", "classify"}, known,
                    "ste_vec" \in column.indexes
             PROVE  IF plan = NoPlan THEN plans = {} ELSE plans = {plan}
  BY DEF InferenceAgrees
<1>1. op = "EncryptQuery" /\ Asked = [index |-> "ste_vec", op |-> "default"] /\ ffi = Asked
  BY Resolved DEF IInv, TypeOK, ArgsInv, AskedInv, Asked
<1>2. plan = Made.plan
  BY <1>1 DEF IInv, PlanInv
<1>3. Made = QueryPlaintext(value, "default", "ste_vec", column.type) /\ value \in Values
  BY <1>1 DEF Made, IInv, TypeOK
<1> DEFINE term == QueryPlaintext(value, "ste_vec_term", "ste_vec", column.type)
<1>4. QueryPlaintext(value, "ste_vec_selector", "ste_vec", column.type) = Selector(value)
  BY DEF QueryPlaintext
<1>5. term = IF Variant(value) = "JsonB" THEN Converted(value, "JsonB", "Store")
             ELSE Fails("InvalidQueryInput")
  BY DEF QueryPlaintext
<1>6. explicit = {Selector(value), term}
  BY <1>4
<1>7. CASE Variant(value) = "String"
  <2>1. Made = Selector(value)
    BY <1>3, <1>7 DEF QueryPlaintext
  <2>2. term.error = "InvalidQueryInput"
    BY <1>5, <1>7 DEF Fails
  <2>3. PlanOrError(Selector(value))
    BY <1>3, SelectorMakes
  <2>4. plans = IF Selector(value).error = "none" THEN {Selector(value).plan} ELSE {}
    BY <1>6, <2>2
  <2> QED
    BY <1>2, <2>1, <2>3, <2>4 DEF PlanOrError, Plans, NoPlan, ColumnTypes, PlanErrors
<1>8. CASE Variant(value) # "String"
  <2>1. Selector(value) = Fails("TypeParse")
    BY <1>3, <1>8 DEF Selector, Converted, Convertible, Variant, Values, StringValues
  <2>2. Made = term
    BY <1>3, <1>5, <1>8 DEF QueryPlaintext
  <2>3. PlanOrError(term)
    BY <1>3, ConvertedMakes, <1>5 DEF ColumnTypes, PlanOrError, Fails, PlanErrors
  <2>4. plans = IF term.error = "none" THEN {term.plan} ELSE {}
    BY <1>6, <2>1 DEF Fails
  <2> QED
    BY <1>2, <2>2, <2>3, <2>4 DEF PlanOrError, Plans, NoPlan, ColumnTypes, PlanErrors
<1> QED
  BY <1>7, <1>8

(* The marker of an error's own format is the sentinel intended for it.    *)
LEMMA OwnMarker ==
    ASSUME NEW e \in Errors
    PROVE  \/ e \in {"TypeParse", "Encryption"} /\ Intended(e) = "ErrFFI" /\ Quotes(e) = {}
              /\ FormatMarkers(e) = {}
           \/ /\ FormatMarkers(e) = {Intended(e)}
              /\ \E j \in DOMAIN Markers : Markers[j] = Intended(e)
<1>1. /\ DOMAIN Markers = 1..7
      /\ Markers[2] = "ErrUnknownQueryOp" /\ Markers[3] = "ErrUnknownColumn"
      /\ Markers[4] = "ErrMissingIndex" /\ Markers[5] = "ErrInvalidQueryInput"
      /\ Markers[6] = "ErrInvalidJSONPath"
  BY DEF Markers
<1>2. CASE e \in {"TypeParse", "Encryption"}
  BY <1>2 DEF Intended, Quotes, FormatMarkers
<1>3. CASE e \notin {"TypeParse", "Encryption"}
  <2>1. FormatMarkers(e) = {Intended(e)}
    BY <1>3 DEF Errors, FormatMarkers, Intended
  <2>2. Intended(e) \in {Markers[2], Markers[3], Markers[4], Markers[5], Markers[6]}
    BY <1>1, <1>3 DEF Errors, Intended
  <2> QED
    BY <1>1, <2>1, <2>2
<1> QED
  BY <1>2, <1>3

LEMMA ClassifiedByIInv ==
    ASSUME IInv
    PROVE  ErrorsClassified
<1> SUFFICES ASSUME stage = "done", error # "none"
             PROVE  \/ sentinel = Intended(error)
                    \/ /\ text.in \in Quotes(error)
                       /\ \E i, j \in DOMAIN Markers :
                             i < j /\ Markers[i] = text.marker /\ Markers[j] = Intended(error)
  BY DEF ErrorsClassified
<1>1. error \in Errors /\ sentinel = InferSentinel(Message(error))
  BY DEF IInv, TypeOK, SentinelInv
<1>2. CASE Quotes(error) = {} /\ FormatMarkers(error) = {} /\ Intended(error) = "ErrFFI"
  BY <1>1, <1>2 DEF InferSentinel, Message
<1>3. ASSUME FormatMarkers(error) = {Intended(error)},
             NEW j \in DOMAIN Markers, Markers[j] = Intended(error)
      PROVE  \/ sentinel = Intended(error)
             \/ /\ text.in \in Quotes(error)
                /\ \E i \in DOMAIN Markers : i < j /\ Markers[i] = text.marker
  <2>1. Markers[j] \in Message(error)
    BY <1>3 DEF Message
  <2>2. PICK i \in DOMAIN Markers :
           /\ InferSentinel(Message(error)) = Markers[i]
           /\ Markers[i] \in Message(error)
           /\ i <= j
    BY <2>1, FirstMarker
  <2>3. DOMAIN Markers = 1..7
    BY DEF Markers
  <2>4. Markers[i] \in FormatMarkers(error) \/ (Markers[i] = text.marker /\ text.in \in Quotes(error))
    BY <1>1, <2>2, MessageMarkers DEF IInv
  <2> QED
    BY <1>1, <1>3, <2>2, <2>3, <2>4
<1> QED
  BY <1>1, <1>2, <1>3, OwnMarker

-----------------------------------------------------------------------------
(* The inductive invariant holds throughout.                               *)
THEOREM Invariance == Spec => []IInv
<1>1. Init => IInv
  BY InitIInv
<1>2. IInv /\ [Next]_vars => IInv'
  BY TypePreserved, StagesPreserved DEF IInv
<1> QED
  BY <1>1, <1>2, PTL DEF Spec

(* A query term that is planned is one Encrypt's terms can match: the      *)
(* column's own index, type and operation (lib.rs, encrypt_query_impl and  *)
(* to_query_plaintext).                                                    *)
THEOREM QueriesMatch == Spec => []QueryMatchesStore
<1>1. IInv => QueryMatchesStore
  BY MatchesByIInv
<1> QED
  BY <1>1, Invariance, PTL

(* Leaving the operation of a ste_vec query to the library plans what      *)
(* naming the right query type would (lib.rs, to_query_plaintext).         *)
THEOREM InferenceIsExplicit == Spec => []InferenceAgrees
<1>1. IInv => InferenceAgrees
  BY AgreesByIInv
<1> QED
  BY <1>1, Invariance, PTL

(* Whatever markers a caller's text may contain: the sentinel is the       *)
(* intended one unless the message quotes a text with an earlier marker    *)
(* (errors.go, inferSentinel).                                             *)
THEOREM Classification == Spec => []ErrorsClassified
<1>1. IInv => ErrorsClassified
  BY ClassifiedByIInv
<1> QED
  BY <1>1, Invariance, PTL
=============================================================================
