---------------------------- MODULE MCNewClient ----------------------------
(* What a client is made of, for TLC: the schemas built and registered     *)
(* (SchemaConfig), the tags of one struct field (CsTag) and the options    *)
(* (ClientCreation).  SchemaConfig starts from tags that have been read,   *)
(* and ClientCreation from schemas that convert or do not, so a behaviour  *)
(* is one of the three and leaves the others alone.                        *)
EXTENDS SchemaConfig, TLC

CONSTANTS
    users, orders, email, meta,   \* tables and columns
    Chunks, MaxChunks,            \* of CsTag
    MaxOptions                    \* of ClientCreation

ASSUME ChunksAssumption == Chunks \subseteq Seq(STRING) /\ MaxChunks \in Nat
ASSUME OptionsAssumption == MaxOptions \in Nat

VARIABLES
    subject,   \* "schemas", "tags" or "options"
    chunks, tag, at, i, start, depth, parts, column, modelField,
    env, profile, schemasOk, malformed, applied, cfg, credentials, named, emptied, step,
    sent, token, secretKey, opened, created

tagVars == <<chunks, tag, at, i, start, depth, parts, column, modelField>>
optionVars == <<env, profile, schemasOk, malformed, applied, cfg, credentials, named, emptied,
                step, sent, token, secretKey, opened, created>>
allVars == <<subject, vars, tagVars, optionVars>>

CsTag == INSTANCE CsTag
Creation == INSTANCE ClientCreation WITH at <- step, result <- created

Symmetric == Permutations(Schemas) \cup Permutations(ColBuilders)

Tag(name, cast, indexes, inferred) ==
    [name |-> name, cast |-> cast, indexes |-> indexes, inferred |-> inferred]

MCModels == {
    <<Tag(email, NoValue, {"unique"}, "number"), Tag(meta, NoValue, {"ste_vec"}, "string")>>,
    <<Tag(meta, "string", {"ste_vec"}, "json")>>,
    <<Tag(email, "varchar", {}, "string")>>,
    <<Tag(email, "json", {"unique"}, "string"), Tag(email, NoValue, {"ste_vec"}, "string")>>}

MCTables == {users, orders}
MCNames == {email, meta}

(* The directives of README.md, with their commas, and what it takes to    *)
(* get them wrong.                                                         *)
MCChunks == {<<"a">>, <<"-">>, <<",">>, <<"(">>, <<")">>, <<"cast=">>, <<",", "unique">>,
             <<",", "unique", "(", "downcase", ")">>,
             <<",", "unique", "(", "token_filter=", "downcase", ",", "a", ")">>}

(* The world of the options stands still in one initial state of its own.  *)
NewClientInit ==
    /\ Init
    /\ CsTag!Init
    /\ Creation!Init
    /\ \/ subject \in {"schemas", "tags"} /\ env = {} /\ profile /\ schemasOk
       \/ subject = "options"

Tagging ==
    /\ subject = "tags"
    /\ CsTag!Next
    /\ UNCHANGED <<subject, vars, optionVars>>

Building ==
    /\ subject = "schemas"
    /\ Next
    /\ UNCHANGED <<subject, tagVars, optionVars>>

Creating ==
    /\ subject = "options"
    /\ Creation!Next
    /\ UNCHANGED <<subject, vars, tagVars>>

NewClientNext == Tagging \/ Building \/ Creating

NewClientSpec == NewClientInit /\ [][NewClientNext]_allVars

-----------------------------------------------------------------------------
(* The properties of CsTag and of ClientCreation.                          *)

(* splitTagParts loses nothing, and keeps a directive's parameters         *)
(* together.                                                               *)
PartsAreTheTag == CsTag!PartsAreTheTag

(* TableSchema and analyzeStruct read the same column from a tag.          *)
ReadersAgree == CsTag!ReadersAgree

(* The client is made of the credentials, the key and the keyset asked     *)
(* for, or there is none.                                                  *)
ClientAsAsked == Creation!ClientAsAsked

(* Without WithCredentials, the key pair of the environment is used (the   *)
(* comment on WithCredentials, protect.go).                                *)
EnvironmentKeyIsUsed == Creation!EnvironmentKeyIsUsed
=============================================================================
