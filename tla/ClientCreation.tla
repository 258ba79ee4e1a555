--------------------------- MODULE ClientCreation ---------------------------
(***************************************************************************)
(* NewClient and what becomes of its options: the functional options are   *)
(* applied in order (protect.go), sent as JSON without the empty fields,   *)
(* and lib.rs's new_client_impl looks for an access token, a client key    *)
(* and a keyset, each from the options or from somewhere else.             *)
(*                                                                         *)
(* A value is the number of the option that gave it, 0 is the empty        *)
(* string; the environment and the profile store have numbers of their     *)
(* own.  cipherstash-client is external: it is modelled by the order in    *)
(* which lib.rs says it looks for things, and may always fail.             *)
(***************************************************************************)
EXTENDS Naturals

CONSTANT MaxOptions   \* options passed to NewClient, a natural number

Credentials == {"workspaceCRN", "accessKey", "clientID", "clientKey"}
Keysets == {"keysetName", "keysetID"}
Fields == Credentials \cup Keysets
Environment == MaxOptions + 1
Profile == MaxOptions + 2
Sources == 0..MaxOptions + 2

VARIABLES
    env,           \* what the environment holds: CS_CLIENT_ACCESS_KEY, and
                   \* the pair CS_CLIENT_ID and CS_CLIENT_KEY
    profile,       \* whether the profile store holds an access key and a pair
    schemasOk,     \* whether the schemas convert to a config map
    malformed,     \* options whose CRN or client key does not parse
    applied,       \* options applied so far
    cfg,           \* clientConfig
    credentials,   \* history: what the last WithCredentials was given
    named,         \* history: the options that named a keyset, with its kind
    emptied,       \* history: those that were given an empty name or ID
    at,            \* the step NewClient is at
    sent,          \* the fields of clientOpts in the JSON (0: left out)
    token,         \* where the access key comes from
    secretKey,     \* SecretKey: <<id, key>>, or the source of both, or <<>>
    opened,        \* the keyset of the cipher: how it is identified, or <<>>
    result         \* "none", "client" or the error

vars == <<env, profile, schemasOk, malformed, applied, cfg, credentials, named,
          emptied, at, sent, token, secretKey, opened, result>>
world == <<env, profile, schemasOk>>
goSide == <<malformed, applied, cfg, credentials, named, emptied>>

Errors == {"parse", "auth", "config", "builder", "keyset", "steVec"}
EnvironmentHolds == {"accessKey", "keyPair"}
Empty == [f \in Fields |-> 0]

TypeOK ==
    /\ env \subseteq EnvironmentHolds /\ profile \in BOOLEAN /\ schemasOk \in BOOLEAN
    /\ malformed \subseteq (1..MaxOptions) \X {"workspaceCRN", "clientKey"}
    /\ applied \in 0..MaxOptions
    /\ cfg \in [Fields -> 0..MaxOptions] /\ sent \in [Fields -> 0..MaxOptions]
    /\ credentials \in [Credentials -> 0..MaxOptions]
    /\ named \subseteq Keysets \X (1..MaxOptions) /\ emptied \subseteq Keysets \X (1..MaxOptions)
    /\ at \in {"options", "strategy", "key", "build", "keyset", "config", "done"}
    /\ token \in Sources
    /\ secretKey \in {<<>>} \cup {<<i, k>> : i, k \in Sources}
    /\ opened \in {<<>>} \cup (Keysets \X (1..MaxOptions))
    /\ result \in {"none", "client"} \cup Errors
    /\ at = "done" <=> result # "none"

Init ==
    /\ env \in SUBSET EnvironmentHolds /\ profile \in BOOLEAN /\ schemasOk \in BOOLEAN
    /\ malformed = {} /\ applied = 0
    /\ cfg = Empty /\ sent = Empty
    /\ credentials = [f \in Credentials |-> 0]
    /\ named = {} /\ emptied = {}
    /\ at = "options"
    /\ token = 0 /\ secretKey = <<>>
    /\ opened = <<>>
    /\ result = "none"

Fail(error) ==
    /\ result' = error
    /\ at' = "done"

Continue(next) ==
    /\ at' = next
    /\ UNCHANGED result

(* Mutant: empty arguments leave what an earlier option set.               *)
WithCredentialsMerging(given) ==
    cfg' = [f \in Fields |-> IF f \in given THEN applied + 1 ELSE cfg[f]]

(* WithCredentials sets all four fields, the empty ones too.               *)
WithCredentials(given) ==
    cfg' = [f \in Fields |-> IF f \in given THEN applied + 1
                             ELSE IF f \in Credentials THEN 0 ELSE cfg[f]]

(* The next option is a WithCredentials, of which some arguments are empty *)
(* and some may be malformed.                                              *)
ApplyCredentials ==
    /\ at = "options"
    /\ applied < MaxOptions
    /\ \E given \in SUBSET Credentials :
          /\ WithCredentials(given)
          /\ credentials' = [f \in Credentials |-> IF f \in given THEN applied + 1 ELSE 0]
          /\ \E bad \in SUBSET (given \cap {"workspaceCRN", "clientKey"}) :
                malformed' = malformed \cup ({applied + 1} \X bad)
    /\ applied' = applied + 1
    /\ UNCHANGED <<world, named, emptied, at, sent, token, secretKey, opened, result>>

(* WithKeyset, WithKeysetID.  An empty argument takes back what an earlier *)
(* option of the same kind set.                                            *)
ApplyKeyset ==
    /\ at = "options"
    /\ applied < MaxOptions
    /\ \E f \in Keysets :
          \/ /\ cfg' = [cfg EXCEPT ![f] = applied + 1]
             /\ named' = named \cup {<<f, applied + 1>>}
             /\ UNCHANGED emptied
          \/ /\ cfg' = [cfg EXCEPT ![f] = 0]
             /\ emptied' = emptied \cup {<<f, applied + 1>>}
             /\ UNCHANGED named
    /\ applied' = applied + 1
    /\ UNCHANGED <<world, malformed, credentials, at, sent, token, secretKey, opened, result>>

(* Mutant: clientOpts is left out when the four credentials are empty.     *)
ClientOptsOfCredentials ==
    IF \A f \in Credentials : cfg[f] = 0 THEN Empty ELSE cfg

(* The clientOpts object: left out when every field is empty.              *)
ClientOpts == cfg

Named == {f \in Keysets : sent[f] # 0}

(* The JSON is sent and parsed; a malformed CRN fails the parse, and so    *)
(* may a keyset, which IdentifiedBy identifies in one way only.            *)
Send ==
    /\ at = "options"
    /\ sent' = ClientOpts
    /\ \/ /\ <<sent'["workspaceCRN"], "workspaceCRN">> \in malformed
          /\ Fail("parse")
       \/ Named' # {} /\ Fail("parse")
       \/ /\ <<sent'["workspaceCRN"], "workspaceCRN">> \notin malformed
          /\ Continue("strategy")
    /\ UNCHANGED <<world, goSide, token, secretKey, opened>>

(* AutoStrategy::detect: explicit, then the environment, then the profile. *)
AccessKey ==
    IF sent["accessKey"] # 0 THEN sent["accessKey"]
    ELSE IF "accessKey" \in env THEN Environment
    ELSE IF profile THEN Profile ELSE 0

BuildStrategy ==
    /\ at = "strategy"
    /\ token' = AccessKey
    /\ \/ token' # 0 /\ Continue("key")
       \/ Fail("auth")
    /\ UNCHANGED <<world, goSide, sent, secretKey, opened>>

(* secret_key: a pair, checked by from_hex, or nothing if either is        *)
(* missing.  Nothing here or in Build looks at a pair in the environment.  *)
SecretKey ==
    /\ at = "key"
    /\ \/ /\ 0 \in {sent["clientID"], sent["clientKey"]}
          /\ Continue("build")
          /\ UNCHANGED secretKey
       \/ /\ 0 \notin {sent["clientID"], sent["clientKey"]}
          /\ <<sent["clientKey"], "clientKey">> \in malformed
          /\ Fail("config")
          /\ UNCHANGED secretKey
       \/ /\ 0 \notin {sent["clientID"], sent["clientKey"]}
          /\ <<sent["clientKey"], "clientKey">> \notin malformed
          /\ secretKey' = <<sent["clientID"], sent["clientKey"]>>
          /\ Continue("build")
    /\ UNCHANGED <<world, goSide, sent, token, opened>>

(* ZeroKMSBuilder::build with the FallbackKeyProvider.                     *)
Build ==
    /\ at = "build"
    /\ secretKey' = IF secretKey = <<>> /\ profile THEN <<Profile, Profile>> ELSE secretKey
    /\ \/ secretKey' # <<>> /\ Continue("keyset")
       \/ Fail("builder")
    /\ UNCHANGED <<world, goSide, sent, token, opened>>

(* ScopedZeroKMS::init with the keyset, or the default one.                *)
InitKeyset ==
    /\ at = "keyset"
    /\ \/ /\ \E f \in Named : opened' = <<f, sent[f]>>
          /\ Continue("config")
       \/ /\ Named = {}
          /\ Continue("config")
          /\ UNCHANGED opened
       \/ /\ Fail("keyset")
          /\ UNCHANGED opened
    /\ UNCHANGED <<world, goSide, sent, token, secretKey>>

(* into_config_map comes last, after the key server has been contacted.    *)
ConfigMap ==
    /\ at = "config"
    /\ IF schemasOk THEN result' = "client" /\ at' = "done" ELSE Fail("steVec")
    /\ UNCHANGED <<world, goSide, sent, token, secretKey, opened>>

Next ==
    \/ ApplyCredentials
    \/ ApplyKeyset
    \/ Send
    \/ BuildStrategy
    \/ SecretKey
    \/ Build
    \/ InitKeyset
    \/ ConfigMap

Spec == Init /\ [][Next]_vars

-----------------------------------------------------------------------------
(* Properties.                                                             *)

(* Two WithCredentials never blend: what is sent is what the last of them  *)
(* was given, an empty argument included, whatever other options stand     *)
(* between or after.                                                       *)
CredentialsOfOneCall ==
    at # "options" => \A f \in Credentials : sent[f] = credentials[f]

(* A caller who gives a client ID and a client key gets a client with      *)
(* exactly that pair or none: a malformed key is not quietly replaced by   *)
(* another.  Without both, neither is used: the pair is one that the       *)
(* environment or the profile store holds, whole.  (Which of the two is    *)
(* EnvironmentKeyIsUsed's matter.)                                         *)
CallersKeyOrNone ==
    result = "client" =>
        IF 0 \notin {credentials["clientID"], credentials["clientKey"]}
        THEN secretKey = <<credentials["clientID"], credentials["clientKey"]>>
        ELSE \/ "keyPair" \in env /\ secretKey = <<Environment, Environment>>
             \/ profile /\ secretKey = <<Profile, Profile>>

(* A keyset that was named stands until an option of its kind names        *)
(* another or is given an empty argument.                                  *)
Standing == {k \in named : \A later \in named \cup emptied :
                               later[1] = k[1] => later[2] <= k[2]}

(* Keysets isolate tenants: a client for which a keyset was named works    *)
(* under a keyset that was named last, also when everything else comes     *)
(* from the environment.  It falls back to the default keyset only if none *)
(* was named, or each was taken back by a later WithKeyset("") or          *)
(* WithKeysetID("") of its kind: emptying one kind does not drop the other.*)
KeysetNotDropped ==
    result = "client" => IF Standing = {} THEN opened = <<>> ELSE opened \in Standing

(* What the comment on WithCredentials says ("If not provided, the client  *)
(* falls back to environment variables"): a client that was given no       *)
(* credentials uses the key pair of the environment, where there is one.   *)
EnvironmentKeyIsUsed ==
    (/\ result = "client"
     /\ \A f \in Credentials : credentials[f] = 0
     /\ env = EnvironmentHolds) => secretKey = <<Environment, Environment>>

(* The client a caller gets is the one asked for, whatever the order of    *)
(* the options, or there is none; and every variable keeps its type.       *)
ClientAsAsked == TypeOK /\ CredentialsOfOneCall /\ CallersKeyOrNone /\ KeysetNotDropped
=============================================================================
