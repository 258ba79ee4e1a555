# Verification of protectgo

protectgo is a Go SDK (`pkg/protect`) over a Rust library (`crates/protect-ffi-c`) that
encrypts and decrypts single values, lists of values and whole structs with keys from the
ZeroKMS key server. These TLA+ modules model its core, TLC checks them on small instances,
and TLAPS proves the results that matter most for every instance.

Run everything in this directory: `tlc -config MCClientHandle.cfg MCClientHandle`,
`tlapm ClientHandleProofs.tla`, and so on.

## The system

| Component | State | Operations | Talks to |
|---|---|---|---|
| Client handle (`protect.go`) | `ptr`, the native client; `mu`, a `sync.RWMutex` | `NewClient`, `acquirePtr`, `Close` | every operation calls `acquirePtr`; `Close` calls `protect_free_client` |
| C memory (`protect.go`, `lib.rs`) | the C copy of a call's options, the library's result string | `C.CString`/`C.free`, `string_to_c_str`/`protect_free_string` | crosses the boundary in each native call |
| Bulk encryption (`protect.go`, `lib.rs`) | one call's groups by lock context and its vector of results | `EncryptBulk`, `EncryptQueryBulk` | `encrypt_eql`, one call per group |
| Bulk decryption | one call's records and results | `DecryptBulk`, `DecryptBulkFallible` | ZeroKMS `decrypt`, `decrypt_fallible` |
| Single operations and query planning | none | `Encrypt`, `Decrypt`, `EncryptQuery`; `find_index_for_type`, `parse_query_op`, `to_query_plaintext` | the client's column configuration |
| Error classification (`errors.go`) | none | `newError`, `inferSentinel` | the text of the library's errors |
| Client creation (`protect.go`, `lib.rs`) | the options' record, then the client's key, keyset and configuration | `WithCredentials`, `WithKeyset`, `WithKeysetID`, `new_client_impl` | the environment, the profile store, ZeroKMS |
| Model operations (`model.go`) | none of their own | `EncryptModel`, `DecryptModel`, `BulkEncryptModels`, `BulkDecryptModels` | one nested `Encrypt`/`Decrypt` per field, or one bulk call |
| Schemas (`schema.go`) | the builder's columns and index records | `TableSchema`, `NewSchema` ... `Build`, `Column` | `WithSchemas` copies them into the configuration |
| Configuration (`encrypt_config.rs`) | column configuration, fixed once built | `into_config_map`, `into_column_config` | read by every encryption |
| Conversions (`go_plaintext.rs`, `setFieldValue`) | none | `to_plaintext_with_type`, `try_from` | every encryption and decryption |

What makes each correct, and what is hard about it:

* **Client handle.** A goroutine that read the pointer may use it until it returns;
  `Close` runs at any moment, several times and concurrently; model operations check
  first, unlock, and come back once per field; every operation has half a dozen ways to
  return. The handle must never be used after it is freed, never be freed twice, and
  no way out may keep the lock.
* **Bulk encryption.** The library reorders: groups are encrypted in the order of
  their lock contexts. Each ciphertext must come back in its item's place and bound to
  its item's own context; a failure in a later group, after an earlier one was
  encrypted, must return nothing; a short answer must be noticed.
* **Bulk decryption.** All-or-nothing for one call and per-item for the other, on
  the same request; item failures must not shift results.
* **Query planning.** A term made with another type, index or operation than the
  stored value does not fail, it just never matches.
* **Error classification.** By substring, in messages that quote the caller's text.
* **Models.** Field-to-slot bookkeeping across nil models and nil fields; partially
  filled destinations on errors.
* **Schemas and configuration.** Builders that share maps and index records with
  what they built; later schemas replacing earlier ones of the same table; two parsers
  of one struct tag.
* **Conversions.** Every number passes through an `f64` both ways, and comes back as
  whatever JSON makes of it.
* **Texts at the boundary.** NULs and invalid UTF-8; strings that one side allocates and
  the other frees.
* **Client creation.** Options blend into one record; each credential may come from
  elsewhere when it is missing, but must not when it is wrong.
* **Cancellation.** The context is looked at between native calls, not during one.
* **Callers' code.** `json.Marshal` runs the caller's `MarshalJSON` under the read lock.

`PROJECT.json` lists each of these hazards at its line, with the properties that cover it
or the reason none does.

## Modules

**`ClientHandle`** (with **`GoRWMutex`**, **`HandleSpec`**) models `Client` with any set
`Procs` of goroutines. `ptr` is `Client.ptr`, `handle` the box behind it; `pc` says
where each goroutine is. A direct operation runs through `DirectCall` (it calls
`RLock`), `AcquirePtr` (the nil check under the lock), `Prepare` (context check, marshal,
`C.CString`), `FfiReturn`, `ReadResult` (copy and free the result) and `Return` (decode and
run the deferred `C.free` and `RUnlock`). The seven direct operations share that shape
exactly, so they are one action each way with the payload abstracted to its outcomes.
`ModelCall` starts a model operation with a number of nested calls still to make (`todo`,
at most `MaxNested`): the precheck takes and drops the lock, `NextNested` starts each
nested call. `EncryptModel` and `DecryptModel` make one per non-nil encrypted field, the
bulk ones none or one. `Close` announces itself to the lock, waits for the readers,
frees (`CloseHandle`) and clears the pointer (`CloseClear`). A panic of a caller's
`MarshalJSON` unwinds through the same deferred calls as an error return and is the same
choice; an operation between two nested calls holds nothing, so a panic there
(`schema.Column` of an unknown column) is again a failing return.
`GoRWMutex` states what the client leans on from Go's `sync.RWMutex`: readers that arrive
after a writer announced itself queue behind it, and the writer's `Unlock` admits all
that queued. `HandleSpec` is the abstract promise: created once, used only while live,
disposed of once with no user inside, calls refused only after that. `ClientHandle`
implements it with the obvious mapping (`users` are the goroutines inside a native call).

**`BulkEncrypt`** (with **`BulkSpec`**) models one `EncryptBulk`: the default lock context
(`PayloadCtx`), grouping (`PushPayload`, one step per payload), then for each group in the
order of its context `PickGroup`, `PreparePayload` per payload (column lookup and
conversion, the `?` of the loop), `EncryptGroup` (`encrypt_eql`: fails, or returns 0 up to
all of the batch's ciphertexts) and `PlaceGroup`; at the end `Unwrap`. `EncryptQueryBulk`
differs only in what preparing an item means, which `QueryPlan` models. Contexts are
numbers in `BTreeMap` order, 0 the empty one; a ciphertext is its item and the context it
is bound to. `BulkSpec` says the same in one step: all items at their positions in their
contexts, or an error, and if an item is to blame it is the first bad one in order of
encryption.

**`BulkDecrypt`** runs `DecryptBulk` and `DecryptBulkFallible` side by side on one request
(`op` is a parameter of each action), because they share their first half in the code
and promises relate them: `ParseRequest` (a nil item makes the request unreadable),
`BuildRecord` (a payload without a ciphertext), `AskKms`, `DecodeItem`, `Decoded`.
`DecryptOne` is what a single `Decrypt` of one of the items returns.
**`BulkRoundTrip`** EXTENDS it and INSTANCEs `BulkEncrypt`: the request is either any stored
one, or what a caller makes of the answer of an `EncryptBulk`, picking ciphertexts in any
order, with repetitions, and one lock context.

**`QueryPlan`** follows one value through `Encrypt` or `EncryptQuery`: `Resolve`
(`resolveQueryType`), `LookUpColumn`, `FindIndex`, `ParseQueryOp`, `MakePlaintext`
(`to_plaintext_with_type` or `to_query_plaintext`), `EncryptEql`, and on an error `Classify`
(`newError`, `inferSentinel`). A value is the `GoPlaintext` variant it deserializes to; an
error message is the set of `inferSentinel`'s markers that occur in it, from its format
and from the caller's text it quotes.

**`SchemaConfig`** models the heap behind schemas: a column map per `SchemaBuilder` or
`TableSchema` call, an index record per `ColumnBuilder`. `Done` copies the cast and keeps
the `ColumnBuilder` itself as the column's index record, as the code keeps `&cb.indexes`;
`Build` only marks the map as referred to by a `TableDef`. `NewClient` merges the given
maps (`BuildEncryptConfig`) and converts them (`IntoConfigMap`). `late` remembers which
builders were used after the fact, so that properties can say what holds without that.

**`ModelEncrypt`** runs `EncryptModel` on each model of a slice, field by field
(`StartSingle`, `EncryptField`, `EndSingle`), then `BulkEncryptModels` on the slice
(`StartCollect`, `CollectField`, `EndCollect`, then `SendBulk`, which is `EncryptBulk` as
`BulkSpec` states it).
The plaintext of field j of model i is the pair (i, j). **`ModelSpec`** says what the two
operations promise, in one step each: `Single(i)` returns `SingleMap(i)`, where the last tagged
field of a key stays, fails at a field it reached or panics at one in an unknown column; `Bulk`
returns all `BulkMap`s, where a ciphertext stays even if a later tagged field of its key is nil,
or none, and panics wherever in the slice the unknown column is asked for. `ModelEncrypt`
implements it with each operation's map hidden until it returns.
**`ModelDecrypt`** EXTENDS `ModelEncrypt`: the
maps are stored (`Store`: through JSON or as they are, with at most one value missing,
undecryptable or malformed), then `DecryptModel` fills each destination field by field
and `BulkDecryptModels` all at once. `SetField` is `setFieldValue` on the values a map
can hold; fields are strings or numbers and pointers or not.

**`Conversions`** takes one tagged field twice through Go value, JSON, `GoPlaintext`,
`Plaintext` and back (`Deserialize`, `Encrypt`, `Decrypt`, `SetFieldValue`), for every Go
kind and every cast, declared or inferred. Numbers are scaled down: a float has
`Precision` significant bits instead of 53, integers `Bits` instead of 64, and one unit is
1/`Scale`, so that fractions exist. Widths are constants and powers of two the recursive
function `Pow2`, so that the proofs can speak of every width at once. `RoundF64` is rounding to nearest even, `AsI64` Rust's
saturating cast, `GoInt64` and `GoUint64` Go's conversion, which leaves out-of-range values
to the platform and is a choice here.

**`FfiCall`** follows the texts of a call: a text is the set of marks ("nul", "bad" for
invalid UTF-8) it contains. `heap` says what the two pointers of a call point to: nothing
(null), a live string and the side that allocated it, a freed one, or the client. `Freed` is
`C.free` and `protect_free_string`: harmless on null, and corrupting on anything but a live
string of its side, a freed one included. `Marshal` is what `encoding/json`
does to marks, `ReadOptions` is `c_str_to_string`, `StringToCStr` and `Wrap` make the
`CResult`, `ReadResult` and `Return` read and free it. `NewClient`, `Encrypt`, `Decrypt` and
`IsEncrypted` are called one after the other about the same texts.

**`ReentrantCalls`** is `ClientHandle`'s lock with callers that call again: a goroutine is
a stack of calls, each a reader of its own to `GoRWMutex`. `Marshal` may enter another
operation or a `Close`.

**`Cancellation`** looks at one context under several operations: direct ones, model
operations with a call per field and bulk ones, with a `Close` among them.

**`ClientCreation`** applies options to `clientConfig`, sends the non-empty fields and
walks `new_client_impl`: `BuildStrategy`, `SecretKey`, `Build`, `InitKeyset`, `ConfigMap`. A
value is the number of the option that gave it, so that blends show, and 0 if it is empty: any
argument may be. The environment holds an access key, the pair `CS_CLIENT_ID` and
`CS_CLIENT_KEY`, both or neither. `credentials`, `named` and `emptied` remember what the
options were given, and `Standing` which keysets that leaves.

**`CsTag`** scans one tag token by token as `splitTagParts` does, makes the column of it
and sets it against `analyzeStruct`'s reading of the same tag.

**`MC...`** modules instantiate these for TLC. Three of them put modules side by side that
have nothing to do with each other's state: `MCNewClient` (`SchemaConfig`, `CsTag` and
`ClientCreation`), `MCModels` (`ModelDecrypt` and `Conversions`) and `MCCalls` (`Cancellation`
and `FfiCall`). A variable `subject` says which of them a behaviour is about, and the others
stay in an initial state of their own. Nothing is lost by it: `SchemaConfig` starts from tags
that have been read and the options do not look into schemas, `ModelDecrypt` does not look into
values, and a call's texts do not depend on its context.

**`...Proofs`** modules hold the theorems, one module per run: `ClientHandleProofs`,
`ReentrantCallsProofs`, `BulkEncryptProofs`, `BulkRoundTripProofs`, `QueryPlanProofs`,
`CallsProofs`, `NewClientProofs` and `ModelsProofs`.

Operators named as mutants (`AcquirePtrUnlocked`, `PlaceGroupByPosition`, ...) are broken
versions of the definition after them; no specification uses them. Each stands for a
plausible bug and breaks a property of a run, which shows that the property depends on
the code.

## What the runs check

| Run | Instance | States | Shows |
|---|---|---|---|
| `handle` | 3 goroutines, 1 nested call, fair | 39,834 | `NoUseAfterFree`, `FreedOnce`, `IdleHoldsNothing`, `LateCallRefused`, `CloseIsBarrier`, `HandleImplemented`, `CloseReturns`, `CallReturns`; no deadlock |
| `reentrant` | 3 goroutines, 3 calls deep, fair | 4,576 | `OuterCallsCovered`, `HangsOnlyNested`, `NestedWaitIsForever` |
| `bulk_encrypt` | up to 3 items, contexts 0..2 and nil, fair | 89,486 | `Aligned`, `BatchesUniform`, `EncryptedAtMostOnce`, `BulkImplemented`, `Ends` |
| `bulk_decrypt` | up to 3 items, stored or selected from an encryption's answer, contexts 0..1 and nil | 923,011 | `StrictMatchesSingles`, `ItemsIndependent`, `OpensGivenContext` |
| `query_plan` | all columns, query types, kinds of value; 3 quotable markers | 157,336 | `QueryMatchesStore`, `InferenceAgrees`, `ErrorsClassified` |
| `new_client` | 2 schemas, 2 column builders (symmetric), 2 tables, 2 columns, 4 struct types; tags of up to 4 of 9 pieces; up to 3 options, empty arguments, any environment, a profile or none | 1,651,506 | `RefsResolve`, `RejectedForCause`, `PartsAreTheTag`, `ReadersAgree`, `ClientAsAsked` |
| `models` | up to 2 models of up to 2 fields over 2 keys; all Go kinds and casts, 4-bit floats, 6- and 3-bit integers, quarters | 280,186 | `Sealed`, `BulkMatchesSingles`, `RoundTrip`, `BulkDecryptMatchesSingles`, `PrefixFilled`, `ModelsImplemented`, `Exact`, `NoDrift`, `OrderPreserved` |
| `calls` | 3 operations (symmetric), up to 3 fields; all combinations of marks in a call's texts, calls without end | 28,052 | `CancelDecides`, `StringsFreed`, `OutcomeArrives` |

`handle` checks its type invariant separately; elsewhere a property that says so includes its
module's.

The other four runs are expected to end in a violation: each checks a sentence of the
documentation, and the counterexample shows what the code does instead.

| Run | The documentation | The code |
|---|---|---|
| `bulk_decrypt_fallible_whole` | "a single item's failure does not cause the entire operation to fail" (`protect.go:726`) | a payload without a ciphertext does |
| `model_plain_pointers` | "everything else passes through" (`README.md:202`) | plain pointer fields come back as something else |
| `environment_key` | "If not provided, the client falls back to environment variables." (`protect.go:280`), which are `CS_CLIENT_ID` and `CS_CLIENT_KEY` (`protect.go:20`, `README.md:103`) | the key pair in them is not read: the key comes from the profile store (`lib.rs:327`, `lib.rs:342`) |
| `model_unset` | "the resulting plaintext is set on the field" (`model.go:178`) | typed slices, structs, `[]byte` and `time.Time` are silently left alone |

Smaller differences between what is said and what is done came up while modelling. They have
no run of their own; the models have them, and a passing property is stated so as to
describe them.

* "a single KMS call for all items" (`protect.go:574`): one call per lock context
  (`BatchesUniform`).
* "Exactly one of Data or Err is populated" (`protect.go:245`): neither is for a JSON null
  (`GoValue` in `BulkDecrypt`).
* `ErrUnknownQueryOp`: "an unknown query operation was requested" (`errors.go:23`): an unknown
  `QueryType` gets `ErrMissingIndex`, for it is sent as an index type (`ResolveQueryType`).
* `ErrInvariantViolation`: "an internal invariant was violated" (`errors.go:29`): also when
  the caller's quoted text has the words (`ErrorsClassified`).
* "JsonB (Object/Array) -> StoreMode" (`lib.rs:660`): also a nil plaintext (`Variant` in
  `QueryPlan`).
* "Done finalizes the column" (`schema.go:191`): a later index call on the builder changes
  it; and of two schemas of a table only the later counts, against "The schemas define which
  tables and columns can be encrypted" (`protect.go:272`). Both are conditions of
  `RefsResolve`.
* "Non-tagged fields are set directly from the map" (`model.go:179`): a nil is skipped
  (`WithPlain`).
* The largest `int64` comes back as 2^63, which no `int64` is (a condition of `Exact`).
* "`map`, `any`, `[]T` -> `json`" (`README.md:154`): a `[]byte`, or an `any` with a string, does
  not encrypt under that cast (`ToPlaintext`).
* "Message is the original error message" (`errors.go:50`): empty if it quotes a NUL
  (`OutcomeArrives`).
* "safe for concurrent use by multiple goroutines" (`protect.go:15`): an operation from a
  `MarshalJSON` hangs when a `Close` waits (`NestedWaitIsForever`).
* "WithKeyset selects a named keyset" (`protect.go:290`): with an empty name it takes back
  the keyset an earlier `WithKeyset` named, and the client works under the default keyset
  (`Standing`, a condition of `KeysetNotDropped`).

### Bounds

* `Procs`: three goroutines are the fewest at which a call is inside the lock, a
  `Close` waits for it and a third goroutine (another call or another `Close`) queues
  behind; the theorems hold for any number. Goroutines are interchangeable, but the run
  checks liveness too, which symmetry does not go with.
* `MaxNested` = 1: a `Close` can come before and after the nested call, and the nested call
  can queue behind it. With two there is also a `Close` between them, which looks to the lock
  like one before the last; the theorems hold for any number.
* `MaxItems` = 3 and three contexts are the fewest at which two items of one group
  enclose an item of another in the request, and a group comes first in encryption
  order but last in the request. `MaxCtx` = 1 is enough for decryption, where the call
  has one context and an item is bound to it or not.
* `Quotable` has three markers: tried before all, between, and after the others.
* `SchemaConfig`: two schemas are the fewest of which one can replace the other, and two
  column builders the fewest that can be stored under one column. A column builder's
  options are in its index set, two kinds of which suffice: one bound to a cast, one not.
* `ModelEncrypt` and `ModelDecrypt`: two models are the fewest that can be shifted into one
  another by a nil one, and two fields over two keys the fewest with
  a nil field before a value and a key that a plain and a tagged field share; their types
  differ or not.
* `Conversions`: `Precision` < `Bits` is what makes some integers inexact, `SmallBits` <
  `Precision` what keeps the narrow ones exact, and `Limit` exceeds the range of the
  integers, so that floats saturate; the proportions are those of 53, 64 and 32.
* `ReentrantCalls`: three goroutines and depth three let a nested call queue behind a
  `Close` while another goroutine does the same one level deeper.
* `ClientCreation`: three options are the fewest with a keyset between two credentials, or
  with a keyset named, emptied and named again.
* `CsTag`: four pieces, some of which begin with a comma, make a name and two directives.
* `Cancellation`: with three fields a cancellation has a field before and one after it.
* A client is created once per behaviour (`NewClient` after a failed one may be tried
  again); a second client shares nothing with the first but the runtime.

The runs of one bulk call or one value end, so their configurations turn the deadlock check
off; `handle` keeps it, because the client's users can always begin another call.

### Fairness

`ClientHandle!Fairness` is weak fairness of the steps inside a call: goroutines are
scheduled, and native calls return. The second is an assumption about the library and its
network: the Go code passes no deadline to it. `CloseAnnounce`, the acquisition of
the mutex inside `RWMutex.Lock`, is strongly fair because Go's mutex hands over to a
starving waiter. Nothing makes a program begin a call. `BulkEncrypt!FairSpec` only
assumes that a call in progress goes on, `encrypt_eql` included. `ReentrantCalls!Fairness` is
`ClientHandle`'s, and assumes of the caller that a `MarshalJSON` which keeps being given the
chance to end does (strong fairness of `Marshal`): what hangs in spite of that hangs on
the lock.

## What is proved

For all values of the constants, under the named assumptions of the modules.
`NoProcAssumption`, `NobodyAssumption`, `NoCtxAssumption` and `NothingAssumption` say that a value
that stands for nothing is not one that stands for something; `BulkAssumption` says it of
`NoCtx` too. `MaxNestedAssumption`, `DepthAssumption`, `DecryptAssumption`, `FieldsAssumption`,
`OptionsAssumption`, `ModelAssumption`, `ChunksAssumption`, `QuotableAssumption` and
`SchemaAssumption` give the bounds and the sets that are enumerated their types.
`SchemaAssumption` adds that `json` is one of the casts, because the code names it.
`WidthsAssumption` relates the widths of numbers as the code's 53, 64 and at most 32 bits are
related: a narrow integer is exact as a float, a wide one is not by two bits at least.

None of the properties is inductive alone. In each module `IInv` is the strengthening, checked
by TLC on the run's instance before it was proved. That the initial states satisfy it and every
step preserves it, action by action, gives `Invariance`, and the properties follow.

**`ClientHandleProofs`.** That the handle is live while a goroutine is inside a native call
depends on who holds the lock and on when `ptr` and `handle` may disagree. `IInv` conjoins

* `TypeOK`;
* `LockInv`: a goroutine's `pc` determines whether it is in `readers`, in `waiting` or
  is the `writer`, the writer excludes readers once it is past `drain`, and nobody waits
  without a writer;
* `PtrInv`: `ptr` is set exactly while the handle is live, but for the two windows
  (creation before it is published, and `Close` between freeing and clearing);
* `NewInv`: at most one creation is under way and nobody else is active during it;
* `MemInv`: who owns C memory, by `pc`;
* `LateInv`: where a goroutine can be whose call began on a closed client.

From it follow `Typing`, `UseSafety`, `FreeSafety`, `NothingHeld`, `LateSafety`, the action
property `Barrier`, and `Implementation`: each step maps to a step or a stutter of
`HandleSpec`.

**`ReentrantCallsProofs`.** The invariant is about stacks: `OuterInv` (every call below a
goroutine's innermost is a reader inside `MarshalJSON`), `TopInv` (where the innermost call
stands with the lock, by its place), `QueueInv` (who waits or writes is an innermost call,
and nobody waits for nobody) and `OpenInv` (the client is open as long as a call that got
through `acquirePtr` is under way). `OuterCallsStayCovered` follows, and the action property
`NestedWaitsForever`: an operation that a `MarshalJSON` calls, once it queues behind a `Close`
that its own outer call holds up, never gets the lock, for any number of goroutines and any
depth.

**`BulkEncryptProofs`.** `IInv` conjoins `TypeOK` with

* `GroupsInv`: each group holds exactly the indices pushed so far that are promised its
  context, in increasing order;
* `LoopInv`: the groups already taken off `pending` had only good items, and of the
  current one the prefix already prepared;
* `SlotInv`: a filled slot holds its own item under its own context, and the item is good;
* `KmsInv`: the calls made are uniform and in order, and precede every pending context;
* `OutcomeInv`: the call has an outcome exactly when it is done.

From it follow `Alignment`, `Batching`, `AtMostOnce`, and `Implementation`: the loops implement
the one-step `BulkSpec`. That a failing preparation blames the first bad item in order of
encryption (`BlamesFirst`) needs `LoopInv`, and that `Unwrap` only succeeds with all items
good (`SucceedsWithAll`) needs `SlotInv`.

**`BulkRoundTripProofs`.** The invariant of `BulkEncryptProofs` is used as it stands, through an
instance, for the half that encrypts. To it come `DecryptInv`, for each of the two operations
on the same input (`LoopsInv`: the answers collected so far are what a single `Decrypt` of
their items would give; `EndInv`: so is the outcome), and `PickedInv`, which ties the
ciphertexts picked out of the answer to the slots `EncryptBulk` filled. `StrictAgreement`,
`Independence` and `ContextBinding` follow for any number of items and contexts.

**`QueryPlanProofs`.** `ArgsInv` and `AskedInv` (what the call was asked and what crosses the
boundary of it), `StageInv` (what is decided at each stage), `PlanInv` (every plan and every
error has its reason) and `SentinelInv` (the sentinel is inferred from that error's message)
give `QueriesMatch`, `InferenceIsExplicit` and `Classification`, the last for any
set of marker texts a caller can have quoted.

**`CallsProofs`.** `CancelInv`: before the cancellation nothing is owed or late; after it an
operation still has all its remaining calls to look at the context, except for the one that
had looked already. With the counts of `left` this gives `CancellationDecides` for any number of
operations and fields. `OwnersInv` says what each pointer points to by the call's place: that
the options are live until the deferred free and the result is null until `Wrap` and live until
Go has read it, so that no free meets a freed string. It gives `Ownership`; `ResultInv` and
`AnswerInv` (what the pointers returned stand for) give `Arrival`.

**`NewClientProofs`.** For the schemas, `BuilderInv`, `StoredInv` and `GivenInv` say how far
builders, what they have stored and the client's configuration may drift apart, which is
what `ColumnsResolve` and `RefusalsHaveCause` rest on; `RefusalKept` adds that no client has
a `ste_vec` column that is not JSON. For the tags, `ScanInv` (until the first
parenthesis the depth is zero, so that the first part ends at the first comma) and `NameInv` (the
column is named by the first part) give `TagReaders`. `TagSplit` says that the parts are the
tag: `SplitInv` ties `start` and `depth` to the parentheses counted so far, and each part to
its place between two cuts (`Piece`), of which there are as many as commas outside of
parentheses before it (`SplitsTo`); a part of a tag whose parentheses match then has matching
ones itself, because the depth is zero before and behind it. For the options, `SentInv`, `KeyInv` and
`OpenedInv` carry the last option of each sort through each step of the creation, to
`OptionsHeeded`. `SentInv` relates the configuration to the history of the options: a field that
names a keyset holds the last option of its kind, and an empty one had every name of its kind
taken back.

**`ModelsProofs`.** The loops over fields write into a map in an order, and several fields may
write under one key. The invariant says what is there after n fields in closed form:

* `ShapeInv`: the models, and how far each operation is;
* `SingleInv`: the map of an `EncryptModel` is `Filled(i, n)`, where the last tagged field of a
  key wins over every plain one;
* `BulkInv`: the maps are skeletons and the payloads those `Taken` so far, in order, until the
  answer is distributed (`BulkMap`);
* `DataInv`: the maps that are decrypted are those of `BulkEncryptModels`, through JSON or not,
  unless they were damaged;
* `DestInv` and `BulkDestInv`: the destination is `Partial(i, n)`, the fields set so far over
  what was there before.

The lemmas say how `Filled`, the skeleton and `Partial` grow by one field, and what `LastWith`,
`Put` and `Over` return. They give `NothingInTheClear`, `BulkEncryptsAlike`, `ModelsComeBack`,
`BulkDecryptsAlike` and `FailuresLeavePrefix`, for any number of models of any fields.

`ModelsImplementation` shows that the encrypting loops implement `ModelSpec`. A step that fills
a map is a stutter (`SingleFills`), one that returns is a step of `ModelSpec`, whose condition
`SingleInv` and `BulkInv` supply: the fields before the one reached were known and good, so it
is that field's error or panic; and `MapsAlike` proves that the closed forms are the maps
`ModelSpec` names, whichever fields share keys. A nil model adds one invariant, `NilMaps`
(`NilsStayNil`): the skeletons of `BulkInv` speak of the models there are.

The second half of the module is about the numbers. Its lemmas build the arithmetic from
nothing, since the provers know no powers of a variable exponent: `Pow2` is the function its
definition says (a recursive function exists only by proof, `Pow2Defined`), the exponent of
a number exists (`UlpExists`), rounding gives a float64 (`RoundFixed`), the nearest one
(`Nearest`), in the same order (`RoundMonotone`) and whole if the number was
(`RoundKeepsWhole`); truncating, saturating and wrapping are monotone or exact where they
should be (`TruncateMonotone`, `SaturateMonotone`, `Wrapped`), and the one place where a
rounded number leaves its type is the end of the integers (`EndsRounded`). Induction over
exponents is done with a least counterexample (`Least`). `ValuesInv` is the invariant of a field's
way: `ValuesTyped`; `FirstTrip` and `SecondTrip` (the first plaintext is `EncodedAs` of the
value, the second one that of a number Go may have set for the first); and `OnTheWay` (what the
JSON holds between). With `BackExactly`, `DriftFree` and `OrderKept`, which say what one trip makes
of a number, it gives `NumbersComeBack`, `RoundingHappensOnce` and `OrderSurvives` for every number
of every type, the code's own widths among the ones covered.

**Model-checked only.**

* Liveness (`CloseReturns`, `CallReturns`, `Ends`, `HangsOnlyNested`): it rests on fairness and
  `ENABLED`, which are out of TLAPS's reach.

Every other property of the passing runs, invariants and action properties alike, is proved; the
abstract specifications are implemented by theorem as well as by run (safety; `BulkSpec`,
`HandleSpec` and `ModelSpec` state no fairness). No module declares a recursive operator.

## Not modelled, and why

* Cryptography, `encrypt_eql`, ZeroKMS, the credential strategy and the key provider:
  outside the repository, modelled by how the code uses them (they fail, or answer in
  order; a record opens under its own context; explicit credentials come first).
* The Tokio runtime cell: no state of this code's own. The generated C header, build
  script, CI, examples.
* Parameters of indexes (`k`, `m`, tokenizers, prefixes) and their defaults: data that no
  control depends on. `float32` fields, and the column types no cast leads to.
* A library answer that Go cannot decode is a failing return in `ClientHandle` and
  `FfiCall` and left out of the bulk modules, where it would only discard what was returned.
* Process aborts: a panic at the `extern "C"` boundary (`encrypted.remove(0)` on an empty
  answer) ends the program, after which there is no state to check.

## Further work

The system is modelled as far as the list above, and every safety property of the runs is
proved. What could be added:

1. Abstract specifications of the decrypting operations in one step each, with the loops shown
   to implement them, as `BulkSpec` and `ModelSpec` are for the encrypting ones. `Partial` and
   `LoopsInv` are the functions such a step would compute.
2. `float32` fields, which round once more on the way back, and with them a second precision
   in `Conversions`.
