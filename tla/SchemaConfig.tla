--------------------------- MODULE SchemaConfig ---------------------------
(***************************************************************************)
(* Schemas and the client's column configuration: TableSchema and the      *)
(* builder chain NewSchema ... Build (schema.go), WithSchemas and          *)
(* buildEncryptConfigFromSchemas (protect.go), and into_config_map         *)
(* (encrypt_config.rs), which makes the client's configuration.            *)
(*                                                                         *)
(* The point is sharing.  A TableDef holds the map of the SchemaBuilder it *)
(* was built from, and a column stored by Done holds a pointer to the      *)
(* index record of its ColumnBuilder, so builders that are kept and used   *)
(* again write into definitions already handed out.  The client has a copy *)
(* made when it was created.                                               *)
(***************************************************************************)
EXTENDS Integers, Sequences

CONSTANTS
    Tables,       \* table names
    Names,        \* column names
    Schemas,      \* column maps: one per SchemaBuilder or TableSchema call
    ColBuilders,  \* ColumnBuilders
    Casts,        \* CastAs values callers write
    Kinds,        \* the indexes callers ask for
    Models,       \* struct types given to TableSchema
    MaxSchemas,   \* bound on the schemas registered with a client
    Nothing       \* no table, no column, no builder

NoValue == "none"
KnownCasts == {"bigint", "boolean", "date", "number", "string", "text", "json"}
AllKinds == {"ore", "unique", "match", "ste_vec"}

(* An exported field with a cs tag: its column, its cast=, its index       *)
(* directives and the cast inferred from its Go type.                      *)
Field == [name : Names, cast : Casts \cup {NoValue}, indexes : SUBSET Kinds,
          inferred : {"string", "number", "boolean", "json"}]

ASSUME SchemaAssumption ==
    /\ Kinds \subseteq AllKinds
    /\ "json" \in Casts /\ NoValue \notin Casts
    /\ Models \subseteq Seq(Field)
    /\ MaxSchemas \in Nat

VARIABLES
    schema,   \* a column map: its table, where it comes from, whether a
              \* TableDef refers to it, its columns
    builder,  \* a ColumnBuilder: parent, column name, cast and index record
    late,     \* history: column builders used after their Done, and schemas
              \* written to after a TableDef was made of them
    client    \* how NewClient ended, the schemas it was given, its columns

vars == <<schema, builder, late, client>>

(* A stored column has its own cast; its index record is a column          *)
(* builder's, or its own when it comes from a tag.                         *)
Stored == [cast : Casts \cup {"string", "number", "boolean", "json"},
           indexes : ColBuilders \cup SUBSET Kinds]
Builder == [parent : Schemas, name : Names, cast : Casts, indexes : SUBSET Kinds]
Configured == [cast : KnownCasts, indexes : SUBSET Kinds]

(* Nothing is none of the things there may be, and a pointer is no record. *)
ASSUME NothingAssumption ==
    /\ Nothing \notin Tables \cup Stored \cup Builder
    /\ \A indexes \in SUBSET Kinds : indexes \notin ColBuilders

TypeOK ==
    /\ schema \in [Schemas ->
          [table : Tables \cup {Nothing}, built : BOOLEAN, tagged : BOOLEAN,
           columns : [Names -> Stored \cup {Nothing}]]]
    /\ builder \in [ColBuilders -> {Nothing} \cup Builder]
    /\ late \subseteq ColBuilders \cup Schemas
    /\ client.status \in {NoValue, "ok", "Parse", "SteVecRequiresJson"}
    /\ client.given \in Seq(Schemas) /\ Len(client.given) <= MaxSchemas
    /\ DOMAIN client.config \subseteq Tables \X Names
    /\ \A key \in DOMAIN client.config : client.config[key] \in Configured

Init ==
    /\ schema = [s \in Schemas |->
          [table |-> Nothing, built |-> FALSE, tagged |-> FALSE,
           columns |-> [n \in Names |-> Nothing]]]
    /\ builder = [c \in ColBuilders |-> Nothing]
    /\ late = {}
    /\ client = [status |-> NoValue, given |-> <<>>, config |-> <<>>]

(***************************************************************************)
(* What a TableDef says at the moment.                                     *)
(***************************************************************************)

Columns(s) == {n \in Names : schema[s].columns[n] # Nothing}

IndexRecord(col) ==
    IF col.indexes \in ColBuilders THEN builder[col.indexes].indexes ELSE col.indexes

View(s) ==
    [n \in Columns(s) |->
        [cast |-> schema[s].columns[n].cast, indexes |-> IndexRecord(schema[s].columns[n])]]

(* Does a stored column point into c?                                      *)
StoredIn(c, s) == \E n \in Columns(s) : schema[s].columns[n].indexes = c

(***************************************************************************)
(* Struct tags.                                                            *)
(***************************************************************************)

(* Mutant: a tag's ste_vec does not make the column JSON.                  *)
ParseColumnNoAutoJson(field) ==
    [cast |-> IF field.cast # NoValue THEN field.cast ELSE field.inferred,
     indexes |-> field.indexes]

(* parseColumn: cast= wins, then ste_vec means JSON, then the field's type.*)
ParseColumn(field) ==
    [cast |-> IF field.cast # NoValue THEN field.cast
              ELSE IF "ste_vec" \in field.indexes THEN "json"
              ELSE field.inferred,
     indexes |-> field.indexes]

(* The last field that names a column defines it.                          *)
TableSchema(s, t, model) ==
    /\ schema[s].table = Nothing
    /\ schema' = [schema EXCEPT ![s] =
          [table |-> t, built |-> TRUE, tagged |-> TRUE,
           columns |-> [n \in Names |->
              LET at == {i \in DOMAIN model : model[i].name = n}
              IN  IF at = {} THEN Nothing
                  ELSE ParseColumn(model[CHOOSE i \in at : \A j \in at : j <= i])]]]
    /\ UNCHANGED <<builder, late, client>>

(***************************************************************************)
(* The builder.                                                            *)
(***************************************************************************)

NewSchema(s, t) ==
    /\ schema[s].table = Nothing
    /\ schema' = [schema EXCEPT ![s].table = t]
    /\ UNCHANGED <<builder, late, client>>

Column(s, c, n, ca) ==
    /\ schema[s].table # Nothing /\ ~schema[s].tagged
    /\ builder[c] = Nothing
    /\ builder' = [builder EXCEPT ![c] =
          [parent |-> s, name |-> n, cast |-> ca, indexes |-> {}]]
    /\ UNCHANGED <<schema, late, client>>

(* A call on c: late if Done already stored its record somewhere, and late *)
(* for each TableDef that this reaches.                                    *)
NoteCall(c) ==
    late' = late \cup {s \in Schemas : schema[s].built /\ StoredIn(c, s)}
                 \cup {d \in {c} : \E s \in Schemas : StoredIn(d, s)}

(* Equality, FreeTextSearch, OrderAndRange.                                *)
AddIndex(c, kind) ==
    /\ builder[c] # Nothing /\ kind # "ste_vec"
    /\ builder' = [builder EXCEPT ![c].indexes = @ \cup {kind}]
    /\ NoteCall(c)
    /\ UNCHANGED <<schema, client>>

SearchableJSON(c) ==
    /\ builder[c] # Nothing /\ "ste_vec" \in Kinds
    /\ builder' = [builder EXCEPT ![c].cast = "json", ![c].indexes = @ \cup {"ste_vec"}]
    /\ NoteCall(c)
    /\ UNCHANGED <<schema, client>>

(* Done copies the cast and keeps a pointer to the index record.           *)
Done(c) ==
    /\ builder[c] # Nothing
    /\ LET b == builder[c]
       IN  /\ schema' = [schema EXCEPT ![b.parent].columns[b.name] =
                            [cast |-> b.cast, indexes |-> c]]
           /\ late' = late \cup {s \in {b.parent} : schema[s].built}
    /\ UNCHANGED <<builder, client>>

Build(s) ==
    /\ schema[s].table # Nothing /\ ~schema[s].built
    /\ schema' = [schema EXCEPT ![s].built = TRUE]
    /\ UNCHANGED <<builder, late, client>>

(***************************************************************************)
(* NewClient.                                                              *)
(***************************************************************************)

(* Mutant: the first schema of a table is the one that counts.             *)
BuildEncryptConfigFirst(given) ==
    [t \in {schema[given[i]].table : i \in DOMAIN given} |->
        LET at == {i \in DOMAIN given : schema[given[i]].table = t}
        IN  View(given[CHOOSE i \in at : \A j \in at : i <= j])]

(* buildEncryptConfigFromSchemas: a later schema replaces an earlier one   *)
(* of the same table as a whole.                                           *)
BuildEncryptConfig(given) ==
    [t \in {schema[given[i]].table : i \in DOMAIN given} |->
        LET at == {i \in DOMAIN given : schema[given[i]].table = t}
        IN  View(given[CHOOSE i \in at : \A j \in at : j <= i])]

Keys(tables) == {key \in Tables \X Names :
                    key[1] \in DOMAIN tables /\ key[2] \in DOMAIN tables[key[1]]}

(* EncryptConfig::from_str and into_config_map: an unknown cast does not   *)
(* parse; then any ste_vec column that is not JSON is an error.            *)
IntoConfigMap(tables) ==
    LET columns == [key \in Keys(tables) |-> tables[key[1]][key[2]]]
    IN  IF \E key \in DOMAIN columns : columns[key].cast \notin KnownCasts
        THEN [status |-> "Parse", config |-> <<>>]
        ELSE IF \E key \in DOMAIN columns :
                  "ste_vec" \in columns[key].indexes /\ columns[key].cast # "json"
        THEN [status |-> "SteVecRequiresJson", config |-> <<>>]
        ELSE [status |-> "ok", config |-> columns]

(* One client per behaviour.                                               *)
NewClient(given) ==
    /\ client.status = NoValue
    /\ \A i \in DOMAIN given : schema[given[i]].built
    /\ LET made == IntoConfigMap(BuildEncryptConfig(given))
       IN  client' = [status |-> made.status, given |-> given, config |-> made.config]
    /\ UNCHANGED <<schema, builder, late>>

Next ==
    \/ \E s \in Schemas, t \in Tables :
          \/ \E model \in Models : TableSchema(s, t, model)
          \/ NewSchema(s, t)
    \/ \E s \in Schemas, c \in ColBuilders, n \in Names, ca \in Casts : Column(s, c, n, ca)
    \/ \E c \in ColBuilders :
          \/ \E kind \in Kinds : AddIndex(c, kind)
          \/ SearchableJSON(c)
          \/ Done(c)
    \/ \E s \in Schemas : Build(s)
    \/ \E k \in 0..MaxSchemas : \E given \in [1..k -> Schemas] : NewClient(given)

Spec == Init /\ [][Next]_vars

-----------------------------------------------------------------------------
(* Properties.                                                             *)

(* TableDef.Column and ColumnOK give a reference to these columns, and the *)
(* client finds a reference when its configuration has it.                 *)
ColumnOK(s, n) == n \in Columns(s)
Finds(t, n) == <<t, n>> \in DOMAIN client.config

(* The schema at place i of NewClient's is not replaced by a later one.    *)
Effective(i) == \A j \in DOMAIN client.given :
    schema[client.given[j]].table = schema[client.given[i]].table => j <= i

(* A TableDef and a client made with it agree on the columns there are and *)
(* on how each is cast and indexed, unless the caller went on using a      *)
(* builder of the TableDef or registered another schema of the same table  *)
(* after it: Column never hands out a reference the client does not know.  *)
(* And every variable keeps its type.                                      *)
RefsResolve ==
    /\ TypeOK
    /\ client.status = "ok" =>
        \A i \in DOMAIN client.given :
            LET s == client.given[i]
            IN  (Effective(i) /\ s \notin late) =>
                  \A n \in Names :
                      /\ ColumnOK(s, n) <=> Finds(schema[s].table, n)
                      /\ ColumnOK(s, n) => client.config[<<schema[s].table, n>>] = View(s)[n]

(* The chain Column(...) ... Done(), and a tag without cast=, never make a *)
(* column that NewClient rejects for its ste_vec index: one that does was  *)
(* made by SearchableJSON on a builder after its Done, or by a tag with    *)
(* ste_vec and an explicit cast= of its own.                               *)
HasCause ==
    \A s \in Schemas : \A n \in Columns(s) :
        LET col == schema[s].columns[n]
        IN  ("ste_vec" \in IndexRecord(col) /\ col.cast # "json") =>
              IF schema[s].tagged THEN \E m \in Models : \E i \in DOMAIN m :
                                          /\ m[i].name = n
                                          /\ m[i].cast = col.cast
                                          /\ m[i].indexes = col.indexes
              ELSE col.indexes \in late

(* ... and NewClient does reject it, by whatever route it came: no client  *)
(* has a ste_vec column that is not JSON.                                  *)
RejectedForCause ==
    /\ HasCause
    /\ client.status = "ok" =>
          \A key \in DOMAIN client.config :
              "ste_vec" \in client.config[key].indexes => client.config[key].cast = "json"
=============================================================================
