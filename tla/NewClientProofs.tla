-------------------------- MODULE NewClientProofs --------------------------
(***************************************************************************)
(* What a client is made of: the options asked for (ClientCreation, for    *)
(* any number of them), the columns its schemas had (SchemaConfig, for any *)
(* tables, builders and models), and the names its tags give (CsTag, for   *)
(* any tags).                                                              *)
(***************************************************************************)
EXTENDS MCNewClient, FiniteSetTheorems, WellFoundedInduction, SequenceTheorems, TLAPS

(* ClientCreation: the options applied so far are the configuration, in    *)
(* which a keyset was named last or has been taken back, and what is sent  *)
(* is the configuration ...                                                *)
SentInv ==
    /\ \A f \in Creation!Credentials : cfg[f] = credentials[f]
    /\ \A f \in Creation!Keysets :
          IF cfg[f] = 0
          THEN \A k \in named : k[1] = f => \E e \in emptied : e[1] = f /\ k[2] < e[2]
          ELSE /\ <<f, cfg[f]>> \in named
               /\ \A later \in named \cup emptied : later[1] = f => later[2] <= cfg[f]
    /\ \A k \in named \cup emptied : k[2] <= applied
    /\ step # "options" => sent = cfg

(* ... the key is the caller's pair, if it is one, and the profile's from  *)
(* ZeroKMSBuilder on, if it is not ...                                     *)
Paired == 0 \notin {sent["clientID"], sent["clientKey"]}
Pair == <<sent["clientID"], sent["clientKey"]>>

KeyInv ==
    /\ step \in {"options", "strategy", "key"} => secretKey = <<>>
    /\ step = "build" => secretKey = IF Paired THEN Pair ELSE <<>>
    /\ step \in {"keyset", "config"} \/ created = "client" =>
          IF Paired THEN secretKey = Pair
          ELSE profile /\ secretKey = <<Creation!Profile, Creation!Profile>>

(* ... and the keyset that is opened is one that was named, if any.        *)
OpenedInv ==
    /\ step \in {"options", "strategy", "key", "build", "keyset"} => opened = <<>>
    /\ step = "config" \/ created = "client" =>
          IF Creation!Named = {} THEN opened = <<>>
          ELSE \E f \in Creation!Named : opened = <<f, sent[f]>>

CreationIInv == Creation!TypeOK /\ SentInv /\ KeyInv /\ OpenedInv

(* SchemaConfig: builders belong to schemas of their own, a column of such *)
(* a schema points to a builder's record, a tag's column has its own ...   *)
BuilderInv ==
    \A c \in ColBuilders : builder[c] # Nothing =>
        /\ schema[builder[c].parent].table # Nothing
        /\ ~schema[builder[c].parent].tagged
        /\ "ste_vec" \in builder[c].indexes => builder[c].cast = "json"

StoredInv ==
    \A s \in Schemas :
        /\ schema[s].built \/ schema[s].tagged => schema[s].table # Nothing
        /\ \A n \in Columns(s) :
              IF schema[s].tagged THEN schema[s].columns[n].indexes \in SUBSET Kinds
              ELSE /\ schema[s].columns[n].indexes \in ColBuilders
                   /\ builder[schema[s].columns[n].indexes] # Nothing

(* ... and a client was made of finished schemas.                          *)
GivenInv == \A k \in DOMAIN client.given : schema[client.given[k]].built

SchemaIInv == RefsResolve /\ RejectedForCause /\ BuilderInv /\ StoredInv /\ GivenInv

(* CsTag: where strings.Split cuts, and whether parentheses come before.   *)
Cut == CsTag!FirstComma(tag)

Plain == \A k \in 1..Cut - 1 : tag[k] \notin {CsTag!Open, CsTag!Close}

(* If none do, splitTagParts cuts there first.                             *)
ScanInv ==
    /\ depth \in -(i - 1)..(i - 1)
    /\ at = "write" => i = 1 /\ start = 1 /\ depth = 0 /\ parts = <<>>
    /\ at # "done" => column = CsTag!NoColumn
    /\ at # "write" => modelField = CsTag!Analyze(tag)
    /\ at = "scan" /\ Plain =>
          IF i <= Cut THEN start = 1 /\ parts = <<>> /\ depth = 0
          ELSE parts # <<>> /\ parts[1] = CsTag!BeforeComma(tag)
    /\ at \in {"column", "done"} /\ Plain =>
          IF tag = <<>> THEN parts = <<>>
          ELSE parts # <<>> /\ parts[1] = CsTag!BeforeComma(tag)

(* A part that names no column has no name.                                *)
NameInv ==
    at = "done" =>
        column.name = IF parts = <<>> \/ parts[1] = CsTag!Dash THEN <<>> ELSE parts[1]

TagIInv == CsTag!TypeOK /\ ScanInv /\ NameInv

(* splitTagParts has cut at the commas outside of parentheses so far, and  *)
(* the parts lie between them.                                             *)
SplitsTo(t, k) == {c \in CsTag!Cuts(t) : c <= k}

Piece(t, piece, p, before) ==
    /\ before \in 0..Len(t) - Len(piece)
    /\ piece = SubSeq(t, before + 1, before + Len(piece))
    /\ before = 0 \/ before \in CsTag!Cuts(t)
    /\ \A k \in before + 1..before + Len(piece) : k \notin CsTag!Cuts(t)
    /\ Cardinality(SplitsTo(t, before)) = p - 1

SplitInv ==
    at \in {"write", "scan"} =>
        /\ depth = CsTag!Depth(tag, i - 1)
        /\ start = 1 \/ start - 1 \in CsTag!Cuts(tag)
        /\ \A k \in start..i - 1 : k \notin CsTag!Cuts(tag)
        /\ Len(parts) = Cardinality(SplitsTo(tag, i - 1))
        /\ \A p \in DOMAIN parts : \E before \in 0..Len(tag) :
              /\ Piece(tag, parts[p], p, before)
              /\ before + Len(parts[p]) + 1 \in CsTag!Cuts(tag)

IInv == CreationIInv /\ SchemaIInv /\ TagIInv /\ SplitInv /\ PartsAreTheTag

-----------------------------------------------------------------------------
(* ClientCreation.                                                         *)

LEMMA CreationTypes ==
    ASSUME CreationIInv, [Creation!Next]_(Creation!vars)
    PROVE  Creation!TypeOK'
<1> USE OptionsAssumption DEF CreationIInv, Creation!TypeOK, Creation!world, Creation!goSide,
    Creation!Errors, Creation!Fail, Creation!Continue
<1>1. CASE UNCHANGED Creation!vars
  BY <1>1 DEF Creation!vars
<1>2. CASE Creation!ApplyCredentials
  <2>1. applied + 1 \in 0..MaxOptions /\ 0 \in 0..MaxOptions
    BY <1>2 DEF Creation!ApplyCredentials
  <2>2. malformed' \subseteq (1..MaxOptions) \X {"workspaceCRN", "clientKey"}
    BY <1>2, <2>1 DEF Creation!ApplyCredentials
  <2>3. /\ cfg' \in [Creation!Fields -> 0..MaxOptions]
        /\ credentials' \in [Creation!Credentials -> 0..MaxOptions]
    BY <1>2, <2>1 DEF Creation!ApplyCredentials, Creation!WithCredentials
  <2> QED
    BY <1>2, <2>1, <2>2, <2>3 DEF Creation!ApplyCredentials
<1>3. CASE Creation!ApplyKeyset
  <2>1. applied + 1 \in 0..MaxOptions
    BY <1>3 DEF Creation!ApplyKeyset
  <2>2. /\ cfg' \in [Creation!Fields -> 0..MaxOptions]
        /\ named' \subseteq Creation!Keysets \X (1..MaxOptions)
        /\ emptied' \subseteq Creation!Keysets \X (1..MaxOptions)
    <3>1. PICK g \in Creation!Keysets : \E v \in {0, applied + 1} :
             /\ cfg' = [cfg EXCEPT ![g] = v]
             /\ named' \subseteq named \cup {<<g, applied + 1>>}
             /\ emptied' \subseteq emptied \cup {<<g, applied + 1>>}
      BY <1>3 DEF Creation!ApplyKeyset
    <3>2. 0 \in 0..MaxOptions /\ applied + 1 \in 1..MaxOptions
          /\ cfg \in [Creation!Fields -> 0..MaxOptions]
          /\ named \subseteq Creation!Keysets \X (1..MaxOptions)
          /\ emptied \subseteq Creation!Keysets \X (1..MaxOptions)
      BY <1>3, <2>1 DEF Creation!ApplyKeyset
    <3> QED
      <4>1. PICK v \in {0, applied + 1} : cfg' = [cfg EXCEPT ![g] = v]
        BY <3>1
      <4>2. v \in 0..MaxOptions
        BY <3>2
      <4>3. <<g, applied + 1>> \in Creation!Keysets \X (1..MaxOptions)
        BY <3>2
      <4> QED
        BY ONLY <3>1, <3>2, <4>1, <4>2, <4>3
  <2> QED
    BY <1>3, <2>1, <2>2 DEF Creation!ApplyKeyset
<1>4. CASE Creation!Send
  BY <1>4 DEF Creation!Send, Creation!ClientOpts
<1>5. CASE Creation!BuildStrategy
  <2>1. token' \in Creation!Sources
    BY <1>5 DEF Creation!BuildStrategy, Creation!AccessKey, Creation!Sources, Creation!Environment,
       Creation!Profile, Creation!Fields, Creation!Credentials
  <2> QED
    BY <1>5, <2>1 DEF Creation!BuildStrategy
<1>6. CASE Creation!SecretKey
  <2>1. <<sent["clientID"], sent["clientKey"]>> \in {<<j, k>> : j, k \in Creation!Sources}
    <3>1. sent["clientID"] \in Creation!Sources /\ sent["clientKey"] \in Creation!Sources
      BY DEF Creation!Sources, Creation!Fields, Creation!Credentials
    <3> QED
      BY <3>1
  <2> QED
    BY <1>6, <2>1 DEF Creation!SecretKey
<1>7. CASE Creation!Build
  <2>1. <<Creation!Profile, Creation!Profile>> \in {<<j, k>> : j, k \in Creation!Sources}
    BY DEF Creation!Sources, Creation!Profile
  <2> QED
    BY <1>7, <2>1 DEF Creation!Build
<1>8. CASE Creation!InitKeyset
  <2>1. \A f \in Creation!Named : <<f, sent[f]>> \in Creation!Keysets \X (1..MaxOptions)
    BY DEF Creation!Named, Creation!Fields
  <2> QED
    BY <1>8, <2>1 DEF Creation!InitKeyset
<1>9. CASE Creation!ConfigMap
  BY <1>9 DEF Creation!ConfigMap
<1> HIDE DEF CreationIInv, Creation!TypeOK, Creation!world, Creation!goSide, Creation!Errors,
    Creation!Fail, Creation!Continue
<1> QED
  BY <1>1, <1>2, <1>3, <1>4, <1>5, <1>6, <1>7, <1>8, <1>9 DEF Creation!Next

(* Two WithCredentials never blend, and options change nothing once sent.  *)
LEMMA SentPreserved ==
    ASSUME CreationIInv, [Creation!Next]_(Creation!vars)
    PROVE  SentInv'
<1> USE DEF CreationIInv, Creation!TypeOK, SentInv, Creation!Credentials, Creation!Keysets,
    Creation!Fields
<1>1. CASE UNCHANGED Creation!vars
  BY <1>1 DEF Creation!vars
<1>2. CASE Creation!ApplyCredentials
  <2>1. /\ \A f \in Creation!Credentials : cfg'[f] = credentials'[f]
        /\ \A f \in Creation!Keysets : cfg'[f] = cfg[f]
    BY <1>2 DEF Creation!ApplyCredentials, Creation!WithCredentials
  <2>2. /\ named' = named /\ emptied' = emptied /\ applied \in Nat /\ applied' = applied + 1
        /\ step = "options" /\ step' = "options"
    BY <1>2 DEF Creation!ApplyCredentials
  <2>3. \A k \in named \cup emptied : k[2] \in Nat /\ k[2] <= applied
    BY OptionsAssumption
  <2>4. \A k \in named' \cup emptied' : k[2] <= applied'
    BY <2>2, <2>3
  <2> QED
    BY <2>1, <2>2, <2>4
<1>3. CASE Creation!ApplyKeyset
  <2>1. PICK g \in Creation!Keysets :
           \/ /\ cfg' = [cfg EXCEPT ![g] = applied + 1]
              /\ named' = named \cup {<<g, applied + 1>>} /\ emptied' = emptied
           \/ /\ cfg' = [cfg EXCEPT ![g] = 0]
              /\ emptied' = emptied \cup {<<g, applied + 1>>} /\ named' = named
    BY <1>3 DEF Creation!ApplyKeyset
  <2>2. /\ applied \in Nat /\ applied' = applied + 1 /\ applied + 1 # 0
        /\ step = "options" /\ step' = "options" /\ credentials' = credentials
    BY <1>3 DEF Creation!ApplyKeyset
  <2>3. \A k \in named \cup emptied : k[2] \in Nat /\ k[2] < applied + 1
    BY <2>2, OptionsAssumption
  <2>4. \A k \in (named \cup emptied)' : k[2] <= applied'
    BY <2>1, <2>2, <2>3
  <2>5. ASSUME NEW f \in Creation!Keysets
        PROVE  IF cfg'[f] = 0
               THEN \A k \in named' : k[1] = f => \E e \in emptied' : e[1] = f /\ k[2] < e[2]
               ELSE /\ <<f, cfg'[f]>> \in named'
                    /\ \A later \in named' \cup emptied' : later[1] = f => later[2] <= cfg'[f]
    <3>1. CASE f = g /\ cfg' = [cfg EXCEPT ![g] = applied + 1]
      <4>1. cfg'[f] = applied + 1 /\ <<f, applied + 1>> \in named' /\ emptied' = emptied
        BY <2>1, <2>2, <3>1
      <4>2. \A later \in named' \cup emptied' : later[2] <= applied + 1
        BY <2>2, <2>4
      <4> QED
        BY <2>2, <4>1, <4>2
    <3>2. CASE f = g /\ cfg' # [cfg EXCEPT ![g] = applied + 1]
      <4>1. cfg'[f] = 0 /\ <<f, applied + 1>> \in emptied' /\ named' = named
        BY <2>1, <3>2
      <4>2. \A k \in named : k[2] < <<f, applied + 1>>[2]
        BY <2>3
      <4> QED
        BY <4>1, <4>2
    <3>3. CASE f # g
      <4>1. cfg'[f] = cfg[f] /\ named \subseteq named' /\ emptied \subseteq emptied'
        BY <2>1, <3>3
      <4>2. \A k \in named' \cup emptied' : k[1] = f => k \in named \cup emptied
        BY <2>1, <3>3
      <4>3. \A k \in named' : k[1] = f => k \in named
        BY <2>1, <3>3
      <4>4. CASE cfg[f] = 0
        <5>1. \A k \in named : k[1] = f => \E e \in emptied : e[1] = f /\ k[2] < e[2]
          BY <4>4
        <5> QED
          BY ONLY <4>1, <4>3, <4>4, <5>1
      <4>5. CASE cfg[f] # 0
        <5>1. /\ <<f, cfg[f]>> \in named
              /\ \A later \in named \cup emptied : later[1] = f => later[2] <= cfg[f]
          BY <4>5
        <5> QED
          BY ONLY <4>1, <4>2, <4>5, <5>1
      <4> QED
        BY <4>4, <4>5
    <3> QED
      BY <3>1, <3>2, <3>3
  <2>6. \A f \in Creation!Credentials : cfg'[f] = credentials'[f]
    BY <2>1, <2>2
  <2> QED
    BY <2>2, <2>4, <2>5, <2>6
<1>4. CASE Creation!Send
  BY <1>4 DEF Creation!Send, Creation!ClientOpts, Creation!goSide
<1>5. CASE UNCHANGED <<applied, cfg, credentials, named, emptied, sent>> /\ step # "options"
  BY <1>5
<1> QED
  BY <1>1, <1>2, <1>3, <1>4, <1>5 DEF Creation!Next, Creation!BuildStrategy, Creation!SecretKey,
     Creation!Build, Creation!InitKeyset, Creation!ConfigMap, Creation!goSide

LEMMA KeyPreserved ==
    ASSUME CreationIInv, [Creation!Next]_(Creation!vars)
    PROVE  KeyInv' /\ OpenedInv'
<1>1. Pair # <<>>
  BY DEF Pair
<1>2. CASE step = "options"
  <2>1. /\ secretKey = <<>> /\ opened = <<>> /\ step' \in {"options", "strategy", "done"}
        /\ created' # "client" /\ secretKey' = secretKey /\ opened' = opened
    BY <1>2 DEF CreationIInv, Creation!TypeOK, KeyInv, OpenedInv, Creation!Next, Creation!vars,
       Creation!ApplyCredentials, Creation!ApplyKeyset, Creation!Send, Creation!Fail,
       Creation!Continue, Creation!BuildStrategy, Creation!SecretKey, Creation!Build,
       Creation!InitKeyset, Creation!ConfigMap
  <2> QED
    BY <2>1 DEF KeyInv, OpenedInv
<1>3. CASE step # "options"
  <2>1. sent' = sent /\ profile' = profile /\ Paired' = Paired /\ Pair' = Pair /\ Creation!Named' = Creation!Named
    BY <1>3 DEF Creation!Next, Creation!vars, Creation!ApplyCredentials, Creation!ApplyKeyset,
       Creation!Send, Creation!BuildStrategy, Creation!SecretKey, Creation!Build,
       Creation!InitKeyset, Creation!ConfigMap, Creation!world, Paired, Pair, Creation!Named
  <2> USE DEF CreationIInv, Creation!TypeOK, KeyInv, OpenedInv, Creation!Fail, Creation!Continue
  <2>2. CASE UNCHANGED Creation!vars
    BY <2>1, <2>2 DEF Creation!vars
  <2>3. CASE Creation!BuildStrategy
    BY <2>1, <2>3 DEF Creation!BuildStrategy
  <2>4. CASE Creation!SecretKey
    BY <2>1, <2>4 DEF Creation!SecretKey, Paired, Pair
  <2>5. CASE Creation!Build
    BY <1>1, <2>1, <2>5 DEF Creation!Build
  <2>6. CASE Creation!InitKeyset
    BY <2>1, <2>6 DEF Creation!InitKeyset
  <2>7. CASE Creation!ConfigMap
    BY <2>1, <2>7 DEF Creation!ConfigMap
  <2> HIDE DEF CreationIInv, Creation!TypeOK, KeyInv, OpenedInv, Creation!Fail, Creation!Continue
  <2> QED
    BY <1>3, <2>2, <2>3, <2>4, <2>5, <2>6, <2>7 DEF Creation!Next, Creation!ApplyCredentials,
       Creation!ApplyKeyset, Creation!Send
<1> QED
  BY <1>2, <1>3

LEMMA CreationInit ==
    ASSUME Creation!Init
    PROVE  CreationIInv
<1>1. Creation!TypeOK
  BY OptionsAssumption DEF Creation!Init, Creation!TypeOK, Creation!Empty, Creation!Sources
<1>2. SentInv
  BY DEF Creation!Init, SentInv, Creation!Empty, Creation!Fields
<1>3. KeyInv /\ OpenedInv
  BY DEF Creation!Init, KeyInv, OpenedInv
<1> QED
  BY <1>1, <1>2, <1>3 DEF CreationIInv

LEMMA CreationPreserved == CreationIInv /\ [Creation!Next]_(Creation!vars) => CreationIInv'
BY CreationTypes, SentPreserved, KeyPreserved DEF CreationIInv

LEMMA AskedByIInv ==
    ASSUME CreationIInv
    PROVE  ClientAsAsked
<1>1. created = "client" => step = "done"
  BY DEF CreationIInv, Creation!TypeOK
<1>2. Creation!CredentialsOfOneCall
  BY DEF CreationIInv, SentInv, Creation!CredentialsOfOneCall
<1>3. Creation!CallersKeyOrNone
  BY <1>1 DEF CreationIInv, SentInv, KeyInv, Paired, Pair, Creation!Credentials,
     Creation!CallersKeyOrNone
<1>4. Creation!KeysetNotDropped
  <2>1. /\ named \subseteq Creation!Keysets \X (1..MaxOptions)
        /\ emptied \subseteq Creation!Keysets \X (1..MaxOptions)
        /\ cfg \in [Creation!Fields -> 0..MaxOptions]
    BY DEF CreationIInv, Creation!TypeOK
  <2>2. ASSUME NEW k \in Creation!Standing
        PROVE  cfg[k[1]] # 0
    <3>1. k \in named /\ k[1] \in Creation!Keysets
      BY <2>1 DEF Creation!Standing
    <3>2. \A e \in emptied : e[1] = k[1] => ~(k[2] < e[2])
      BY <2>1, OptionsAssumption DEF Creation!Standing
    <3> QED
      BY <3>1, <3>2 DEF CreationIInv, SentInv
  <2>3. ASSUME NEW f \in Creation!Keysets, cfg[f] # 0
        PROVE  <<f, cfg[f]>> \in Creation!Standing
    BY <2>3 DEF CreationIInv, SentInv, Creation!Standing
  <2>4. ASSUME created = "client"
        PROVE  IF Creation!Standing = {} THEN opened = <<>> ELSE opened \in Creation!Standing
    <3>1. /\ sent = cfg
          /\ IF Creation!Named = {} THEN opened = <<>>
             ELSE \E f \in Creation!Named : opened = <<f, cfg[f]>>
      BY <1>1, <2>4 DEF CreationIInv, SentInv, OpenedInv
    <3>2. Creation!Named = {f \in Creation!Keysets : cfg[f] # 0}
      BY <3>1 DEF Creation!Named
    <3>3. \A k \in Creation!Standing : k[1] \in Creation!Named
      BY <2>1, <2>2, <3>2 DEF Creation!Standing
    <3> QED
      BY <2>3, <3>1, <3>2, <3>3
  <2> QED
    BY <2>4 DEF Creation!KeysetNotDropped
<1> QED
  BY <1>2, <1>3, <1>4 DEF CreationIInv, ClientAsAsked, Creation!ClientAsAsked

-----------------------------------------------------------------------------
(* SchemaConfig.                                                           *)

(* The first of several places, and the last, which CHOOSE picks.          *)
LEMMA FirstPlace ==
    ASSUME NEW S \in SUBSET Nat, S # {}
    PROVE  LET first == CHOOSE x \in S : \A y \in S : x <= y
           IN  first \in S /\ \A y \in S : first <= y
<1>1. \E low \in S : \A z \in S : <<z, low>> \notin OpToRel(<, Nat)
  BY NatLessThanWellFounded, WFMin, Zenon
<1>2. \A a, b \in Nat : <<a, b>> \notin OpToRel(<, Nat) => b <= a
  BY DEF OpToRel
<1>3. \E low \in S : \A z \in S : low <= z
  BY <1>1, <1>2, Zenon
<1> QED
  BY <1>3

LEMMA LastPlace ==
    ASSUME NEW k \in Nat, NEW S \in SUBSET (1..k), S # {}
    PROVE  LET last == CHOOSE x \in S : \A y \in S : y <= x
           IN  last \in S /\ \A y \in S : y <= last
<1> DEFINE flipped == {k - x : x \in S}
<1>1. flipped \in SUBSET Nat /\ flipped # {}
  <2>1. \A x \in S : k - x \in Nat
    OBVIOUS
  <2> QED
    BY <2>1
<1>2. PICK low \in flipped : \A z \in flipped : low <= z
  <2> HIDE DEF flipped
  <2> QED
    BY <1>1, FirstPlace
<1>3. PICK x \in S : low = k - x
  OBVIOUS
<1>4. \A y \in S : y <= x
  <2> TAKE y \in S
  <2>1. low <= k - y
    BY <1>2
  <2> QED
    BY <1>3, <2>1
<1> QED
  BY <1>4

(* A column made from tags is made from one of the fields that name it.    *)
LEMMA TaggedColumn ==
    ASSUME NEW model \in Models, NEW n \in Names
    PROVE  LET places == {x \in DOMAIN model : model[x].name = n}
               made == IF places = {} THEN Nothing
                       ELSE ParseColumn(model[CHOOSE x \in places : \A y \in places : y <= x])
           IN  \/ made = Nothing
               \/ /\ made \in Stored /\ made.indexes \in SUBSET Kinds
                  /\ \E x \in DOMAIN model : model[x].name = n /\ made = ParseColumn(model[x])
<1> DEFINE places == {x \in DOMAIN model : model[x].name = n}
<1>1. /\ model \in Seq(Field) /\ DOMAIN model = 1..Len(model) /\ Len(model) \in Nat
      /\ \A x \in DOMAIN model : model[x] \in Field
  BY SchemaAssumption
<1>2. \A x \in DOMAIN model : ParseColumn(model[x]) \in Stored /\ ParseColumn(model[x]).indexes \in SUBSET Kinds
  BY <1>1, SchemaAssumption DEF ParseColumn, Stored, Field
<1>3. ASSUME places # {}
      PROVE  (CHOOSE x \in places : \A y \in places : y <= x) \in places
  BY <1>1, <1>3, LastPlace
<1> QED
  BY <1>2, <1>3

(* What may write into a definition that was handed out is noted.          *)
LEMMA ViewStable ==
    ASSUME TypeOK, BuilderInv, StoredInv, [Next]_vars,
           NEW s \in Schemas, schema[s].built, s \notin late'
    PROVE  /\ View(s)' = View(s) /\ Columns(s)' = Columns(s)
           /\ schema'[s].table = schema[s].table /\ schema'[s].built
<1>1. SUFFICES /\ schema'[s] = schema[s]
               /\ \A n \in Columns(s) :
                     IndexRecord(schema[s].columns[n])' = IndexRecord(schema[s].columns[n])
  BY DEF View, Columns
<1> USE DEF IndexRecord, Columns, TypeOK
<1>2. CASE UNCHANGED vars
  BY <1>2 DEF vars
<1>3. CASE \E q \in Schemas, t \in Tables :
              (\E model \in Models : TableSchema(q, t, model)) \/ NewSchema(q, t)
  BY <1>3 DEF TableSchema, NewSchema, StoredInv
<1>4. ASSUME NEW q \in Schemas, NEW c \in ColBuilders, NEW n \in Names, NEW ca \in Casts,
             Column(q, c, n, ca)
      PROVE  /\ schema'[s] = schema[s]
             /\ \A k \in Columns(s) :
                   IndexRecord(schema[s].columns[k])' = IndexRecord(schema[s].columns[k])
  <2>1. schema' = schema /\ builder[c] = Nothing /\ \A d \in ColBuilders \ {c} : builder'[d] = builder[d]
    BY <1>4 DEF Column
  <2>2. \A k \in Columns(s) : schema[s].columns[k].indexes # c
    BY <2>1, NothingAssumption DEF StoredInv
  <2> QED
    BY <2>1, <2>2
<1>5. ASSUME NEW c \in ColBuilders,
             (\E kind \in Kinds : AddIndex(c, kind)) \/ SearchableJSON(c)
      PROVE  /\ schema'[s] = schema[s]
             /\ \A k \in Columns(s) :
                   IndexRecord(schema[s].columns[k])' = IndexRecord(schema[s].columns[k])
  <2>1. schema' = schema /\ \A d \in ColBuilders \ {c} : builder'[d] = builder[d]
    BY <1>5 DEF AddIndex, SearchableJSON
  <2>2. ~StoredIn(c, s)
    BY <1>5 DEF AddIndex, SearchableJSON, NoteCall
  <2> QED
    BY <2>1, <2>2 DEF StoredIn
<1>6. ASSUME NEW c \in ColBuilders, Done(c)
      PROVE  schema'[s] = schema[s] /\ builder' = builder
  <2>1. builder[c].parent # s
    BY <1>6 DEF Done
  <2> QED
    BY <1>6, <2>1 DEF Done
<1>7. ASSUME NEW q \in Schemas, Build(q)
      PROVE  schema'[s] = schema[s] /\ builder' = builder
  BY <1>7 DEF Build
<1>8. ASSUME NEW given, NewClient(given)
      PROVE  schema' = schema /\ builder' = builder
  BY <1>8 DEF NewClient
<1> QED
  BY <1>2, <1>3, <1>4, <1>5, <1>6, <1>7, <1>8 DEF Next

LEMMA SchemasKeep ==
    ASSUME TypeOK, BuilderInv, StoredInv, [Next]_vars
    PROVE  BuilderInv' /\ StoredInv'
<1> USE DEF TypeOK, BuilderInv, StoredInv, Columns, Builder
<1>1. CASE UNCHANGED vars
  BY <1>1 DEF vars
<1>2. ASSUME NEW q \in Schemas, NEW t \in Tables, NEW model \in Models, TableSchema(q, t, model)
      PROVE  BuilderInv' /\ StoredInv'
  <2>1. \A n \in Names : schema'[q].columns[n] # Nothing =>
            schema'[q].columns[n].indexes \in SUBSET Kinds
    BY <1>2, TaggedColumn DEF TableSchema
  <2>2. /\ schema[q].table = Nothing /\ schema'[q].table = t /\ schema'[q].tagged
        /\ \A x \in Schemas \ {q} : schema'[x] = schema[x]
        /\ builder' = builder
    BY <1>2 DEF TableSchema
  <2>3. BuilderInv'
    BY <2>2
  <2>4. StoredInv'
    <3> SUFFICES ASSUME NEW x \in Schemas
                 PROVE  /\ schema'[x].built \/ schema'[x].tagged => schema'[x].table # Nothing
                        /\ \A n \in Columns(x)' :
                              IF schema'[x].tagged THEN schema'[x].columns[n].indexes \in SUBSET Kinds
                              ELSE /\ schema'[x].columns[n].indexes \in ColBuilders
                                   /\ builder'[schema'[x].columns[n].indexes] # Nothing
      OBVIOUS
    <3>1. CASE x = q
      BY <2>1, <2>2, <3>1, NothingAssumption
    <3>2. CASE x # q
      BY <2>2, <3>2
    <3> QED
      BY <3>1, <3>2
  <2> QED
    BY <2>3, <2>4
<1>3. ASSUME NEW q \in Schemas, NEW t \in Tables, NewSchema(q, t)
      PROVE  BuilderInv' /\ StoredInv'
  BY <1>3, NothingAssumption DEF NewSchema
<1>4. ASSUME NEW q \in Schemas, NEW c \in ColBuilders, NEW n \in Names, NEW ca \in Casts,
             Column(q, c, n, ca)
      PROVE  BuilderInv' /\ StoredInv'
  BY <1>4, NothingAssumption DEF Column
<1>5. ASSUME NEW c \in ColBuilders, NEW kind \in Kinds, AddIndex(c, kind)
      PROVE  BuilderInv' /\ StoredInv'
  <2>1. /\ builder'[c] \in Builder /\ builder'[c].parent = builder[c].parent
        /\ builder[c] # Nothing /\ builder'[c].cast = builder[c].cast
        /\ "ste_vec" \in builder'[c].indexes => "ste_vec" \in builder[c].indexes
    <3>1. builder[c] \in Builder /\ builder[c] # Nothing /\ builder' = [builder EXCEPT
              ![c].indexes = @ \cup {kind}]
      BY <1>5 DEF AddIndex
    <3>2. builder'[c] = [builder[c] EXCEPT !.indexes = @ \cup {kind}]
      BY <3>1
    <3>3. kind # "ste_vec" /\ kind \in Kinds
      BY <1>5 DEF AddIndex
    <3> QED
      BY <3>1, <3>2, <3>3
  <2>2. schema' = schema /\ \A d \in ColBuilders \ {c} : builder'[d] = builder[d]
    BY <1>5 DEF AddIndex
  <2>3. builder'[c] # Nothing
    BY <2>1, NothingAssumption
  <2>4. BuilderInv'
    BY <2>1, <2>2
  <2>5. StoredInv'
    BY <2>2, <2>3
  <2> QED
    BY <2>4, <2>5
<1>6. ASSUME NEW c \in ColBuilders, SearchableJSON(c)
      PROVE  BuilderInv' /\ StoredInv'
  <2>1. /\ builder'[c] \in Builder /\ builder'[c].parent = builder[c].parent
        /\ builder[c] # Nothing /\ builder'[c].cast = "json"
        /\ "ste_vec" \in builder'[c].indexes
    <3>1. builder[c] \in Builder /\ builder[c] # Nothing /\ builder' = [builder EXCEPT
              ![c].cast = "json", ![c].indexes = @ \cup {"ste_vec"}]
      BY <1>6 DEF SearchableJSON
    <3>2. builder'[c] = [builder[c] EXCEPT !.cast = "json", !.indexes = @ \cup {"ste_vec"}]
      BY <3>1
    <3>3. "ste_vec" \in Kinds /\ "json" \in Casts
      BY <1>6, SchemaAssumption DEF SearchableJSON
    <3> QED
      BY <3>1, <3>2, <3>3
  <2>2. schema' = schema /\ \A d \in ColBuilders \ {c} : builder'[d] = builder[d]
    BY <1>6 DEF SearchableJSON
  <2>3. builder'[c] # Nothing
    BY <2>1, NothingAssumption
  <2>4. BuilderInv'
    BY <2>1, <2>2
  <2>5. StoredInv'
    BY <2>2, <2>3
  <2> QED
    BY <2>4, <2>5
<1>7. ASSUME NEW c \in ColBuilders, Done(c)
      PROVE  BuilderInv' /\ StoredInv'
  BY <1>7, NothingAssumption DEF Done
<1>8. ASSUME NEW q \in Schemas, Build(q)
      PROVE  BuilderInv' /\ StoredInv'
  BY <1>8 DEF Build
<1>9. ASSUME NEW given, NewClient(given)
      PROVE  BuilderInv' /\ StoredInv'
  BY <1>9 DEF NewClient
<1> HIDE DEF TypeOK, BuilderInv, StoredInv, Columns, Builder
<1> QED
  BY <1>1, <1>2, <1>3, <1>4, <1>5, <1>6, <1>7, <1>8, <1>9 DEF Next

(* Finished definitions keep their table, and what was late stays so.      *)
LEMMA BuiltStay ==
    ASSUME TypeOK, StoredInv, [Next]_vars
    PROVE  /\ late \subseteq late'
           /\ \A s \in Schemas : schema[s].built =>
                 schema'[s].table = schema[s].table /\ schema'[s].built
<1>1. late \subseteq late'
  BY DEF Next, vars, TableSchema, NewSchema, Column, AddIndex, SearchableJSON, Done, Build,
     NewClient, NoteCall
<1>2. ASSUME NEW s \in Schemas, schema[s].built
      PROVE  schema'[s].table = schema[s].table /\ schema'[s].built
  <2>1. schema[s].table # Nothing
    BY <1>2 DEF StoredInv
  <2> USE DEF TypeOK
  <2>2. CASE schema' = schema
    BY <1>2, <2>2
  <2>3. ASSUME NEW q \in Schemas, NEW t \in Tables,
               (\E model \in Models : TableSchema(q, t, model)) \/ NewSchema(q, t)
        PROVE  schema'[s] = schema[s]
    BY <2>1, <2>3 DEF TableSchema, NewSchema
  <2>4. ASSUME NEW c \in ColBuilders, Done(c)
        PROVE  schema'[s].table = schema[s].table /\ schema'[s].built
    BY <1>2, <2>4 DEF Done, Builder
  <2>5. ASSUME NEW q \in Schemas, Build(q)
        PROVE  schema'[s].table = schema[s].table /\ schema'[s].built
    BY <1>2, <2>5 DEF Build
  <2> QED
    BY <1>2, <2>2, <2>3, <2>4, <2>5 DEF Next, vars, Column, AddIndex, SearchableJSON, NewClient
<1> QED
  BY <1>1, <1>2

(* The field of a struct type that a stored column was made of.            *)
FieldOf(field, n, col) ==
    field.name = n /\ field.cast = col.cast /\ field.indexes = col.indexes

(* Only a call after Done, or a cast= of its own, makes a column that      *)
(* NewClient rejects for its ste_vec index.                                *)
LEMMA CauseKept ==
    ASSUME TypeOK, BuilderInv, StoredInv, HasCause, [Next]_vars
    PROVE  HasCause'
<1> SUFFICES ASSUME NEW s \in Schemas, NEW n \in Columns(s)',
                    "ste_vec" \in IndexRecord(schema[s].columns[n])',
                    schema'[s].columns[n].cast # "json"
             PROVE  IF schema'[s].tagged
                    THEN \E m \in Models : \E j \in DOMAIN m :
                            FieldOf(m[j], n, schema'[s].columns[n])
                    ELSE schema'[s].columns[n].indexes \in late'
  BY DEF HasCause, FieldOf
<1>1. n \in Names /\ schema'[s].columns[n] # Nothing
  BY DEF Columns
<1>2. ASSUME schema'[s].columns = schema[s].columns, schema'[s].tagged = schema[s].tagged,
             "ste_vec" \in IndexRecord(schema[s].columns[n])
      PROVE  IF schema'[s].tagged
             THEN \E m \in Models : \E j \in DOMAIN m :
                     FieldOf(m[j], n, schema'[s].columns[n])
             ELSE schema'[s].columns[n].indexes \in late'
  BY <1>1, <1>2, BuiltStay DEF HasCause, FieldOf, Columns
<1>3. ASSUME schema'[s].columns = schema[s].columns, schema'[s].tagged = schema[s].tagged,
             builder' = builder
      PROVE  IF schema'[s].tagged
             THEN \E m \in Models : \E j \in DOMAIN m :
                     FieldOf(m[j], n, schema'[s].columns[n])
             ELSE schema'[s].columns[n].indexes \in late'
  BY <1>2, <1>3 DEF IndexRecord
<1> DEFINE Goal == IF schema'[s].tagged
                   THEN \E m \in Models : \E j \in DOMAIN m :
                           FieldOf(m[j], n, schema'[s].columns[n])
                   ELSE schema'[s].columns[n].indexes \in late'
<1> HIDE DEF Goal
<1>4. CASE UNCHANGED vars
  BY <1>3, <1>4 DEF vars, Goal
<1>5. ASSUME NEW q \in Schemas, NEW t \in Tables, NEW model \in Models, TableSchema(q, t, model)
      PROVE  Goal
  <2>1. CASE s = q
    <3>1. PICK x \in DOMAIN model : /\ model[x].name = n
                                    /\ schema'[s].columns[n] = ParseColumn(model[x])
                                    /\ schema'[s].columns[n].indexes \in SUBSET Kinds
      BY <1>1, <1>5, <2>1, TaggedColumn DEF TableSchema, TypeOK
    <3>2. "ste_vec" \in schema'[s].columns[n].indexes /\ schema'[s].tagged
      BY <1>5, <2>1, <3>1, NothingAssumption DEF TableSchema, TypeOK, IndexRecord
    <3>3. schema'[s].columns[n].cast = model[x].cast
      BY <3>1, <3>2 DEF ParseColumn
    <3>4. schema'[s].columns[n].indexes = model[x].indexes
      BY <3>1 DEF ParseColumn
    <3> QED
      BY <3>1, <3>2, <3>3, <3>4 DEF Goal, FieldOf
  <2>2. CASE s # q
    BY <1>3, <1>5, <2>2 DEF TableSchema, TypeOK, Goal
  <2> QED
    BY <2>1, <2>2
<1>6. ASSUME NEW q \in Schemas, NEW t \in Tables, NewSchema(q, t)
      PROVE  Goal
  BY <1>3, <1>6 DEF NewSchema, TypeOK, Goal
<1>7. ASSUME NEW q \in Schemas, NEW c \in ColBuilders, NEW k \in Names, NEW ca \in Casts,
             Column(q, c, k, ca)
      PROVE  Goal
  <2>1. schema' = schema /\ builder[c] = Nothing /\ \A d \in ColBuilders \ {c} : builder'[d] = builder[d]
    BY <1>7 DEF Column, TypeOK
  <2>2. schema[s].columns[n].indexes # c
    BY <1>1, <2>1, NothingAssumption DEF StoredInv, Columns
  <2> QED
    BY <1>2, <2>1, <2>2 DEF IndexRecord, Goal
<1>8. ASSUME NEW c \in ColBuilders, NEW kind \in Kinds, AddIndex(c, kind)
      PROVE  Goal
  <2>1. schema' = schema /\ \A d \in ColBuilders \ {c} : builder'[d] = builder[d]
    BY <1>8 DEF AddIndex, TypeOK
  <2>2. "ste_vec" \in builder'[c].indexes => "ste_vec" \in builder[c].indexes
    <3>1. builder[c] \in Builder /\ kind # "ste_vec" /\ builder' = [builder EXCEPT
              ![c].indexes = @ \cup {kind}]
      BY <1>8 DEF AddIndex, TypeOK
    <3>2. builder'[c].indexes = builder[c].indexes \cup {kind}
      BY <3>1 DEF TypeOK, Builder
    <3> QED
      BY <3>1, <3>2
  <2> QED
    BY <1>2, <2>1, <2>2 DEF IndexRecord, Goal
<1>9. ASSUME NEW c \in ColBuilders, SearchableJSON(c)
      PROVE  Goal
  <2>1. schema' = schema /\ \A d \in ColBuilders \ {c} : builder'[d] = builder[d]
    BY <1>9 DEF SearchableJSON, TypeOK
  <2>2. CASE schema[s].columns[n].indexes = c
    <3>1. c \in late'
      BY <1>1, <1>9, <2>1, <2>2 DEF SearchableJSON, NoteCall, StoredIn, Columns
    <3>2. ~schema[s].tagged
      BY <1>1, <2>1, <2>2, NothingAssumption DEF StoredInv, Columns
    <3> QED
      BY <2>1, <2>2, <3>1, <3>2 DEF Goal
  <2>3. CASE schema[s].columns[n].indexes # c
    BY <1>2, <2>1, <2>3 DEF IndexRecord, Goal
  <2> QED
    BY <2>2, <2>3
<1>10. ASSUME NEW c \in ColBuilders, Done(c)
       PROVE  Goal
  <2>1. builder[c] \in Builder /\ builder' = builder /\ builder[c] # Nothing
    BY <1>10 DEF Done, TypeOK
  <2>2. CASE s = builder[c].parent /\ n = builder[c].name
    <3>1. schema'[s].columns[n] = [cast |-> builder[c].cast, indexes |-> c]
      BY <1>1, <1>10, <2>2 DEF Done, TypeOK
    <3>2. "ste_vec" \in builder[c].indexes
      BY <2>1, <3>1 DEF IndexRecord
    <3> QED
      BY <2>1, <3>1, <3>2 DEF BuilderInv
  <2>3. CASE ~(s = builder[c].parent /\ n = builder[c].name)
    <3>1. schema'[s].columns[n] = schema[s].columns[n] /\ schema'[s].tagged = schema[s].tagged
      BY <1>1, <1>10, <2>3 DEF Done, TypeOK
    <3>2. n \in Columns(s) /\ "ste_vec" \in IndexRecord(schema[s].columns[n])
      BY <1>1, <2>1, <3>1 DEF Columns, IndexRecord
    <3> QED
      BY <3>1, <3>2, BuiltStay DEF HasCause, FieldOf, Goal
  <2> QED
    BY <2>2, <2>3
<1>11. ASSUME NEW q \in Schemas, Build(q)
       PROVE  Goal
  BY <1>3, <1>11 DEF Build, TypeOK, Goal
<1>12. ASSUME NEW given, NewClient(given)
       PROVE  Goal
  BY <1>3, <1>12 DEF NewClient, Goal
<1> QED
  BY <1>4, <1>5, <1>6, <1>7, <1>8, <1>9, <1>10, <1>11, <1>12 DEF Next, Goal

-----------------------------------------------------------------------------
(* buildEncryptConfigFromSchemas and into_config_map.                      *)

(* A definition's columns, when it is one that a client can be given.      *)
LEMMA ViewTyped ==
    ASSUME TypeOK, StoredInv, NEW s \in Schemas
    PROVE  /\ Columns(s) \subseteq Names /\ DOMAIN View(s) = Columns(s)
           /\ \A n \in Columns(s) : View(s)[n].indexes \in SUBSET Kinds
<1>1. ASSUME NEW n \in Columns(s)
      PROVE  IndexRecord(schema[s].columns[n]) \in SUBSET Kinds
  BY <1>1, NothingAssumption DEF TypeOK, StoredInv, Columns, IndexRecord, Builder
<1> QED
  BY <1>1 DEF View, Columns

(* The configuration of a table is that of the last schema of the table.   *)
LastOf(given, t) ==
    LET places == {j \in DOMAIN given : schema[given[j]].table = t}
    IN  CHOOSE x \in places : \A y \in places : y <= x

LEMMA LastSchemaCounts ==
    ASSUME TypeOK, NEW given \in Seq(Schemas), NEW k \in DOMAIN given
    PROVE  LET t == schema[given[k]].table
           IN  /\ LastOf(given, t) \in DOMAIN given
               /\ schema[given[LastOf(given, t)]].table = t
               /\ \A j \in DOMAIN given : schema[given[j]].table = t => j <= LastOf(given, t)
               /\ BuildEncryptConfig(given)[t] = View(given[LastOf(given, t)])
<1> DEFINE t == schema[given[k]].table
           places == {j \in DOMAIN given : schema[given[j]].table = t}
<1>1. places \in SUBSET (1..Len(given)) /\ places # {} /\ Len(given) \in Nat
  OBVIOUS
<1>2. LastOf(given, t) \in places /\ \A y \in places : y <= LastOf(given, t)
  BY <1>1, LastPlace DEF LastOf
<1>3. BuildEncryptConfig(given)[t] = View(given[LastOf(given, t)])
  BY DEF BuildEncryptConfig, LastOf
<1> QED
  BY <1>2, <1>3

(* What NewClient makes of finished schemas.                               *)
LEMMA ClientMade ==
    ASSUME TypeOK, StoredInv, NEW given \in Seq(Schemas), NewClient(given),
           \A j \in DOMAIN given : schema[given[j]].table \in Tables
    PROVE  /\ client'.status \in {"ok", "Parse", "SteVecRequiresJson"}
           /\ client'.given = given
           /\ DOMAIN client'.config \subseteq Tables \X Names
           /\ \A key \in DOMAIN client'.config : client'.config[key] \in Configured
           /\ client'.status = "ok" =>
                 LET tables == BuildEncryptConfig(given)
                 IN  client'.config = [key \in Keys(tables) |-> tables[key[1]][key[2]]]
<1> DEFINE tables == BuildEncryptConfig(given)
           columns == [key \in Keys(tables) |-> tables[key[1]][key[2]]]
<1>1. client' = [status |-> IntoConfigMap(tables).status, given |-> given,
                 config |-> IntoConfigMap(tables).config]
  BY DEF NewClient
<1>2. \/ /\ IntoConfigMap(tables) = [status |-> "ok", config |-> columns]
         /\ \A key \in DOMAIN columns : columns[key].cast \in KnownCasts
      \/ IntoConfigMap(tables) \in
            {[status |-> e, config |-> <<>>] : e \in {"Parse", "SteVecRequiresJson"}}
  BY DEF IntoConfigMap
<1>3. DOMAIN columns \subseteq Tables \X Names
  BY DEF Keys
<1>4. ASSUME NEW key \in DOMAIN columns
      PROVE  /\ columns[key].indexes \in SUBSET Kinds
             /\ columns[key] = [cast |-> columns[key].cast, indexes |-> columns[key].indexes]
  <2>1. key[1] \in DOMAIN tables /\ key[2] \in DOMAIN tables[key[1]]
        /\ columns[key] = tables[key[1]][key[2]]
    BY <1>4 DEF Keys
  <2>2. PICK k \in DOMAIN given : key[1] = schema[given[k]].table
    BY <2>1 DEF BuildEncryptConfig
  <2>3. PICK j \in DOMAIN given : tables[key[1]] = View(given[j])
    BY <2>2, LastSchemaCounts
  <2>4. given[j] \in Schemas
    OBVIOUS
  <2> QED
    BY <2>1, <2>3, <2>4, ViewTyped DEF View
<1> HIDE DEF tables, columns
<1>5. CASE IntoConfigMap(tables) = [status |-> "ok", config |-> columns]
           /\ \A key \in DOMAIN columns : columns[key].cast \in KnownCasts
  <2>1. \A key \in DOMAIN columns : columns[key] \in Configured
    BY <1>4, <1>5 DEF Configured
  <2> QED
    BY <1>1, <1>3, <1>5, <2>1 DEF tables, columns
<1>6. CASE IntoConfigMap(tables) \in
            {[status |-> e, config |-> <<>>] : e \in {"Parse", "SteVecRequiresJson"}}
  BY <1>1, <1>6
<1> QED
  BY <1>2, <1>5, <1>6

(* The schemas NewClient is given are finished ones.                       *)
LEMMA GivenKeep ==
    ASSUME TypeOK, StoredInv, GivenInv, [Next]_vars
    PROVE  GivenInv'
<1>1. CASE client' = client
  BY <1>1, BuiltStay DEF TypeOK, GivenInv
<1>2. ASSUME NEW k \in 0..MaxSchemas, NEW given \in [1..k -> Schemas], NewClient(given)
      PROVE  GivenInv'
  BY <1>2 DEF NewClient, GivenInv
<1> QED
  BY <1>1, <1>2 DEF Next, vars, TableSchema, NewSchema, Column, AddIndex, SearchableJSON, Done,
     Build

LEMMA GivenTables ==
    ASSUME TypeOK, StoredInv, NEW k \in 0..MaxSchemas, NEW given \in [1..k -> Schemas],
           NewClient(given)
    PROVE  /\ given \in Seq(Schemas) /\ Len(given) = k
           /\ \A j \in DOMAIN given : schema[given[j]].built /\ schema[given[j]].table \in Tables
BY SchemaAssumption DEF TypeOK, StoredInv, NewClient

LEMMA SchemaTypes ==
    ASSUME TypeOK, BuilderInv, StoredInv, [Next]_vars
    PROVE  TypeOK'
<1> DEFINE SchemaType == [Schemas -> [table : Tables \cup {Nothing}, built : BOOLEAN,
                             tagged : BOOLEAN, columns : [Names -> Stored \cup {Nothing}]]]
           ClientOK == /\ client.status \in {NoValue, "ok", "Parse", "SteVecRequiresJson"}
                       /\ client.given \in Seq(Schemas) /\ Len(client.given) <= MaxSchemas
                       /\ DOMAIN client.config \subseteq Tables \X Names
                       /\ \A key \in DOMAIN client.config : client.config[key] \in Configured
<1>1. schema' \in SchemaType
  <2> USE DEF TypeOK
  <2>1. CASE schema' = schema
    BY <2>1
  <2>2. ASSUME NEW q \in Schemas, NEW t \in Tables, NEW model \in Models, TableSchema(q, t, model)
        PROVE  schema' \in SchemaType
    <3>1. schema'[q] \in [table : Tables \cup {Nothing}, built : BOOLEAN,
                             tagged : BOOLEAN, columns : [Names -> Stored \cup {Nothing}]]
      <4>1. schema'[q].table = t /\ schema'[q].built = TRUE /\ schema'[q].tagged = TRUE
            /\ schema'[q] = [table |-> schema'[q].table, built |-> schema'[q].built,
                             tagged |-> schema'[q].tagged, columns |-> schema'[q].columns]
        BY <2>2 DEF TableSchema
      <4>2. schema'[q].columns \in [Names -> Stored \cup {Nothing}]
        <5>1. \A n \in Names : schema'[q].columns[n] \in Stored \cup {Nothing}
          BY <2>2, TaggedColumn DEF TableSchema
        <5>2. schema'[q].columns = [n \in Names |-> schema'[q].columns[n]]
          BY <2>2 DEF TableSchema
        <5> QED
          BY <5>1, <5>2
      <4> QED
        BY <4>1, <4>2
    <3> QED
      BY <2>2, <3>1 DEF TableSchema
  <2>3. ASSUME NEW q \in Schemas, NEW t \in Tables, NewSchema(q, t)
        PROVE  schema' \in SchemaType
    BY <2>3 DEF NewSchema
  <2>4. ASSUME NEW c \in ColBuilders, Done(c)
        PROVE  schema' \in SchemaType
    <3>1. builder[c] \in Builder
      BY <2>4 DEF Done
    <3>2. [cast |-> builder[c].cast, indexes |-> c] \in Stored
      BY <3>1 DEF Builder, Stored
    <3> QED
      <4> DEFINE place == builder[c].parent
                 name == builder[c].name
      <4>1. place \in Schemas /\ name \in Names
        BY <3>1 DEF Builder
      <4>2. schema' = [schema EXCEPT ![place].columns[name] =
                          [cast |-> builder[c].cast, indexes |-> c]]
        BY <2>4 DEF Done
      <4> HIDE DEF place, name
      <4> QED
        BY <3>2, <4>1, <4>2
  <2>5. ASSUME NEW q \in Schemas, Build(q)
        PROVE  schema' \in SchemaType
    BY <2>5 DEF Build
  <2> QED
    BY <2>1, <2>2, <2>3, <2>4, <2>5 DEF Next, vars, Column, AddIndex, SearchableJSON, NewClient
<1>2. builder' \in [ColBuilders -> {Nothing} \cup Builder]
  <2> USE DEF TypeOK
  <2>1. CASE builder' = builder
    BY <2>1
  <2>2. ASSUME NEW q \in Schemas, NEW c \in ColBuilders, NEW n \in Names, NEW ca \in Casts,
               Column(q, c, n, ca)
        PROVE  builder' \in [ColBuilders -> {Nothing} \cup Builder]
    <3>1. [parent |-> q, name |-> n, cast |-> ca, indexes |-> {}] \in Builder
      BY DEF Builder
    <3> QED
      BY <2>2, <3>1 DEF Column
  <2>3. ASSUME NEW c \in ColBuilders, NEW kind \in Kinds, AddIndex(c, kind)
        PROVE  builder' \in [ColBuilders -> {Nothing} \cup Builder]
    <3>1. builder[c] \in Builder /\ builder' = [builder EXCEPT ![c].indexes = @ \cup {kind}]
      BY <2>3 DEF AddIndex
    <3>2. builder'[c] \in Builder
      BY <3>1 DEF Builder
    <3> QED
      BY <3>1, <3>2
  <2>4. ASSUME NEW c \in ColBuilders, SearchableJSON(c)
        PROVE  builder' \in [ColBuilders -> {Nothing} \cup Builder]
    <3>1. builder[c] \in Builder /\ "ste_vec" \in Kinds /\ "json" \in Casts
          /\ builder' = [builder EXCEPT ![c].cast = "json", ![c].indexes = @ \cup {"ste_vec"}]
      BY <2>4, SchemaAssumption DEF SearchableJSON
    <3>2. builder'[c] \in Builder
      BY <3>1 DEF Builder
    <3> QED
      BY <3>1, <3>2
  <2> QED
    BY <2>1, <2>2, <2>3, <2>4 DEF Next, vars, TableSchema, NewSchema, Done, Build, NewClient
<1>3. late' \subseteq ColBuilders \cup Schemas
  <2>1. \A c \in ColBuilders : builder[c] # Nothing => builder[c].parent \in Schemas
    BY DEF TypeOK, Builder
  <2> QED
    BY <2>1 DEF TypeOK, Next, vars, TableSchema, NewSchema, Column, AddIndex, SearchableJSON,
       NoteCall, Done, Build, NewClient
<1>4. ClientOK'
  <2>1. CASE client' = client
    BY <2>1 DEF TypeOK
  <2>2. ASSUME NEW k \in 0..MaxSchemas, NEW given \in [1..k -> Schemas], NewClient(given)
        PROVE  ClientOK'
    <3>1. /\ given \in Seq(Schemas) /\ Len(given) = k
          /\ \A j \in DOMAIN given : schema[given[j]].table \in Tables
      BY <2>2, GivenTables
    <3>2. k <= MaxSchemas
      BY SchemaAssumption
    <3> QED
      BY <2>2, <3>1, <3>2, ClientMade
  <2> QED
    BY <2>1, <2>2 DEF Next, vars, TableSchema, NewSchema, Column, AddIndex, SearchableJSON, Done,
       Build
<1> QED
  BY <1>1, <1>2, <1>3, <1>4 DEF TypeOK

(* A client keeps agreeing with the definitions it was made with.          *)
LEMMA RefsKept ==
    ASSUME RefsResolve, BuilderInv, StoredInv, GivenInv, [Next]_vars, client' = client,
           client.status = "ok", NEW k \in DOMAIN client.given, Effective(k)',
           client.given[k] \notin late', NEW n \in Names
    PROVE  LET s == client.given[k]
           IN  /\ ColumnOK(s, n)' <=> Finds(schema[s].table, n)'
               /\ ColumnOK(s, n)' => client.config[<<schema'[s].table, n>>] = View(s)'[n]
<1> DEFINE s == client.given[k]
<1>1. TypeOK /\ s \in Schemas /\ \A j \in DOMAIN client.given : client.given[j] \in Schemas
  BY DEF RefsResolve, TypeOK
<1>2. \A j \in DOMAIN client.given :
         schema'[client.given[j]].table = schema[client.given[j]].table
  BY <1>1, BuiltStay DEF GivenInv
<1>3. Effective(k)
  BY <1>2 DEF Effective
<1>4. s \notin late
  BY <1>1, BuiltStay
<1>5. /\ ColumnOK(s, n) <=> Finds(schema[s].table, n)
      /\ ColumnOK(s, n) => client.config[<<schema[s].table, n>>] = View(s)[n]
  BY <1>3, <1>4 DEF RefsResolve
<1>6. View(s)' = View(s) /\ Columns(s)' = Columns(s) /\ schema'[s].table = schema[s].table
  BY <1>1, ViewStable DEF GivenInv
<1> QED
  BY <1>5, <1>6 DEF ColumnOK, Finds

(* And it agrees with them when it is made.                                *)
LEMMA RefsMade ==
    ASSUME TypeOK, StoredInv, NEW m \in 0..MaxSchemas, NEW given \in [1..m -> Schemas],
           NewClient(given), client'.status = "ok", NEW k \in DOMAIN given, Effective(k)',
           NEW n \in Names
    PROVE  LET s == given[k]
           IN  /\ ColumnOK(s, n) <=> <<schema[s].table, n>> \in DOMAIN client'.config
               /\ ColumnOK(s, n) => client'.config[<<schema[s].table, n>>] = View(s)[n]
<1> DEFINE s == given[k]
           t == schema[s].table
           tables == BuildEncryptConfig(given)
           last == LastOf(given, t)
<1>1. /\ given \in Seq(Schemas) /\ s \in Schemas /\ t \in Tables
      /\ \A j \in DOMAIN given : schema[given[j]].table \in Tables
  BY GivenTables
<1>2. client'.given = given /\ client'.config = [key \in Keys(tables) |-> tables[key[1]][key[2]]]
  BY <1>1, ClientMade
<1>3. last = k
  <2>1. last \in DOMAIN given /\ schema[given[last]].table = t /\ k <= last
    BY <1>1, LastSchemaCounts
  <2>2. \A j \in DOMAIN given : schema[given[j]].table = t => j <= k
    BY <1>2 DEF Effective, NewClient
  <2> HIDE DEF last
  <2> QED
    BY <2>1, <2>2
<1>4. tables[t] = View(s)
  BY <1>1, <1>3, LastSchemaCounts
<1>5. t \in DOMAIN tables
  BY DEF BuildEncryptConfig
<1>6. <<t, n>> \in Keys(tables) <=> n \in Columns(s)
  BY <1>1, <1>4, <1>5, ViewTyped DEF Keys
<1> HIDE DEF s, t, tables, last
<1> QED
  BY <1>2, <1>4, <1>6 DEF s, t, ColumnOK

LEMMA RefsKeep ==
    ASSUME RefsResolve, BuilderInv, StoredInv, GivenInv, [Next]_vars
    PROVE  RefsResolve'
<1>1. TypeOK'
  BY SchemaTypes DEF RefsResolve
<1>2. CASE client' = client
  BY <1>1, <1>2, RefsKept DEF RefsResolve
<1>3. ASSUME NEW m \in 0..MaxSchemas, NEW given \in [1..m -> Schemas], NewClient(given)
      PROVE  RefsResolve'
  <2>1. schema' = schema /\ builder' = builder /\ client'.given = given
    BY <1>3 DEF NewClient
  <2>2. \A s : View(s)' = View(s) /\ Columns(s)' = Columns(s)
    BY <2>1 DEF View, Columns, IndexRecord
  <2>3. TypeOK
    BY DEF RefsResolve
  <2> SUFFICES ASSUME client'.status = "ok", NEW k \in DOMAIN given, Effective(k)', NEW n \in Names
               PROVE  /\ ColumnOK(given[k], n)' <=> Finds(schema[given[k]].table, n)'
                      /\ ColumnOK(given[k], n)' =>
                            client'.config[<<schema'[given[k]].table, n>>] = View(given[k])'[n]
    BY <1>1, <2>1 DEF RefsResolve
  <2>4. LET s == given[k]
        IN  /\ ColumnOK(s, n) <=> <<schema[s].table, n>> \in DOMAIN client'.config
            /\ ColumnOK(s, n) => client'.config[<<schema[s].table, n>>] = View(s)[n]
    BY <1>3, <2>3, RefsMade
  <2> QED
    BY <2>1, <2>2, <2>4 DEF ColumnOK, Finds
<1> QED
  BY <1>2, <1>3 DEF Next, vars, TableSchema, NewSchema, Column, AddIndex, SearchableJSON, Done,
     Build

(* A client that is made has no ste_vec column but JSON ones.              *)
LEMMA RefusalKept ==
    ASSUME TypeOK, BuilderInv, StoredInv, RejectedForCause, [Next]_vars
    PROVE  RejectedForCause'
<1>1. HasCause'
  BY CauseKept DEF RejectedForCause
<1>2. CASE client' = client
  BY <1>1, <1>2 DEF RejectedForCause
<1>3. ASSUME NEW given, NewClient(given), client'.status = "ok",
             NEW key \in DOMAIN client'.config, "ste_vec" \in client'.config[key].indexes
      PROVE  client'.config[key].cast = "json"
  <2> DEFINE made == IntoConfigMap(BuildEncryptConfig(given))
  <2>1. client'.status = made.status /\ client'.config = made.config
    BY <1>3 DEF NewClient
  <2>2. made.status = "ok" => \A k \in DOMAIN made.config :
            "ste_vec" \in made.config[k].indexes => made.config[k].cast = "json"
    BY DEF IntoConfigMap
  <2> HIDE DEF made
  <2> QED
    BY <1>3, <2>1, <2>2
<1>4. CASE \E given : NewClient(given)
  BY <1>1, <1>3, <1>4 DEF RejectedForCause
<1> QED
  BY <1>2, <1>4 DEF Next, vars, TableSchema, NewSchema, Column, AddIndex, SearchableJSON, Done,
     Build

LEMMA SchemaInit ==
    ASSUME Init
    PROVE  SchemaIInv
<1>1. TypeOK
  BY SchemaAssumption DEF Init, TypeOK
<1>2. RefsResolve /\ GivenInv
  BY <1>1 DEF Init, RefsResolve, GivenInv, NoValue
<1>3. RejectedForCause /\ BuilderInv /\ StoredInv
  BY DEF Init, RejectedForCause, HasCause, NoValue, BuilderInv, StoredInv, Columns
<1> QED
  BY <1>2, <1>3 DEF SchemaIInv

LEMMA SchemaPreserved == SchemaIInv /\ [Next]_vars => SchemaIInv'
BY SchemasKeep, CauseKept, RefusalKept, GivenKeep, RefsKeep DEF SchemaIInv, RefsResolve

-----------------------------------------------------------------------------
(* CsTag.                                                                  *)

(* What strings.Split leaves before the first comma.                       *)
LEMMA BeforeCut ==
    ASSUME tag \in Seq(CsTag!Tokens)
    PROVE  /\ Cut \in 1..Len(tag) + 1
           /\ \A k \in 1..Cut - 1 : tag[k] # CsTag!Comma
           /\ Cut <= Len(tag) => tag[Cut] = CsTag!Comma
           /\ CsTag!BeforeComma(tag) = SubSeq(tag, 1, Cut - 1)
           /\ CsTag!BeforeComma(tag) \in Seq(CsTag!Tokens)
           /\ Len(CsTag!BeforeComma(tag)) = Cut - 1
           /\ \A k \in 1..Cut - 1 : CsTag!BeforeComma(tag)[k] = tag[k]
<1> DEFINE commas == {k \in DOMAIN tag : tag[k] = CsTag!Comma}
<1>1. Len(tag) \in Nat /\ DOMAIN tag = 1..Len(tag) /\ \A k \in 1..Len(tag) : tag[k] \in CsTag!Tokens
  OBVIOUS
<1>2. Cut \in 1..Len(tag) + 1 /\ (Cut <= Len(tag) => tag[Cut] = CsTag!Comma)
      /\ \A k \in 1..Cut - 1 : tag[k] # CsTag!Comma
  <2>1. CASE commas = {}
    <3>1. Cut = Len(tag) + 1
      BY <2>1 DEF Cut, CsTag!FirstComma
    <3> QED
      BY <1>1, <2>1, <3>1
  <2>2. CASE commas # {}
    <3>1. Cut = CHOOSE k \in commas : \A c \in commas : k <= c
      BY <2>2 DEF Cut, CsTag!FirstComma
    <3>2. commas \in SUBSET Nat
      BY <1>1
    <3>3. Cut \in commas /\ \A c \in commas : Cut <= c
      <4> HIDE DEF commas
      <4> QED
        BY <2>2, <3>1, <3>2, FirstPlace
    <3> QED
      BY <1>1, <3>3
  <2> QED
    BY <2>1, <2>2
<1>3. /\ SubSeq(tag, 1, Cut - 1) \in Seq(CsTag!Tokens)
      /\ Len(SubSeq(tag, 1, Cut - 1)) = Cut - 1
      /\ \A k \in 1..Cut - 1 : SubSeq(tag, 1, Cut - 1)[k] = tag[k]
  <2>1. 1 \in Int /\ Cut - 1 \in Int /\ \A k \in 1..Cut - 1 : tag[k] \in CsTag!Tokens
    BY <1>1, <1>2
  <2>2. /\ SubSeq(tag, 1, Cut - 1) \in Seq(CsTag!Tokens)
        /\ Len(SubSeq(tag, 1, Cut - 1)) = IF 1 <= Cut - 1 THEN Cut - 1 - 1 + 1 ELSE 0
        /\ \A k \in 1..Cut - 1 - 1 + 1 : SubSeq(tag, 1, Cut - 1)[k] = tag[1 + k - 1]
    BY <2>1, SubSeqProperties
  <2> QED
    BY <1>1, <1>2, <2>2
<1>4. CsTag!BeforeComma(tag) = SubSeq(tag, 1, Cut - 1)
  BY DEF CsTag!BeforeComma, Cut
<1> QED
  BY <1>2, <1>3, <1>4

LEMMA PiecesAreTokens ==
    ASSUME NEW chunk \in Chunks
    PROVE  chunk \in Seq(CsTag!Tokens)
<1>1. chunk \in Seq(STRING) /\ DOMAIN chunk = 1..Len(chunk) /\ Len(chunk) \in Nat
  BY ChunksAssumption
<1>2. \A k \in DOMAIN chunk : chunk[k] \in CsTag!Tokens
  BY DEF CsTag!Tokens, CsTag!Range
<1> QED
  BY <1>1, <1>2

(* A part of the tag that is cut off.                                      *)
LEMMA PartTyped ==
    ASSUME CsTag!TypeOK, NEW last \in 0..Len(tag)
    PROVE  /\ SubSeq(tag, start, last) \in Seq(CsTag!Tokens)
           /\ Append(parts, SubSeq(tag, start, last)) \in Seq(Seq(CsTag!Tokens))
           /\ Append(parts, SubSeq(tag, start, last)) # <<>>
           /\ parts # <<>> => Append(parts, SubSeq(tag, start, last))[1] = parts[1]
           /\ parts = <<>> => Append(parts, SubSeq(tag, start, last))[1] = SubSeq(tag, start, last)
<1>1. tag \in Seq(CsTag!Tokens) /\ start \in Int /\ start >= 1 /\ parts \in Seq(Seq(CsTag!Tokens))
      /\ Len(tag) \in Nat
  BY DEF CsTag!TypeOK
<1>2. SubSeq(tag, start, last) \in Seq(CsTag!Tokens)
  <2>1. \A k \in start..last : tag[k] \in CsTag!Tokens
    BY <1>1
  <2> QED
    BY <1>1, <2>1, SubSeqProperties
<1>3. Len(parts) \in Nat /\ (parts # <<>> => Len(parts) >= 1) /\ (parts = <<>> => Len(parts) = 0)
  BY <1>1, EmptySeq
<1> DEFINE part == SubSeq(tag, start, last)
<1>4. /\ Append(parts, part) \in Seq(Seq(CsTag!Tokens)) /\ Append(parts, part) # <<>>
      /\ \A k \in 1..Len(parts) : Append(parts, part)[k] = parts[k]
      /\ Append(parts, part)[Len(parts) + 1] = part
  <2>1. part \in Seq(CsTag!Tokens)
    BY <1>2
  <2> HIDE DEF part
  <2> DEFINE T == Seq(CsTag!Tokens)
  <2>2. parts \in Seq(T) /\ part \in T
    BY <1>1, <2>1
  <2> HIDE DEF T
  <2>3. /\ Append(parts, part) \in Seq(T) /\ Append(parts, part) # <<>>
        /\ \A k \in 1..Len(parts) : Append(parts, part)[k] = parts[k]
        /\ Append(parts, part)[Len(parts) + 1] = part
    BY <2>2, AppendProperties
  <2> QED
    BY <2>3 DEF T
<1> HIDE DEF part
<1>5. /\ parts # <<>> => Append(parts, part)[1] = parts[1]
      /\ parts = <<>> => Append(parts, part)[1] = part
  BY <1>3, <1>4
<1> QED
  BY <1>2, <1>4, <1>5 DEF part

LEMMA TagInit ==
    ASSUME CsTag!Init
    PROVE  TagIInv
<1>1. CsTag!TypeOK
  BY ChunksAssumption, EmptySeq DEF CsTag!Init, CsTag!TypeOK, CsTag!NoColumn
<1>2. ScanInv /\ NameInv
  BY DEF CsTag!Init, ScanInv, NameInv
<1> QED
  BY <1>1, <1>2 DEF TagIInv

LEMMA Written ==
    ASSUME TagIInv, NEW chunk \in Chunks, CsTag!Write(chunk)
    PROVE  TagIInv'
<1> DEFINE longer == tag \o chunk
<1>1. longer \in Seq(CsTag!Tokens) /\ Len(longer) \in Nat
  <2>1. tag \in Seq(CsTag!Tokens) /\ chunk \in Seq(CsTag!Tokens)
    BY PiecesAreTokens DEF TagIInv, CsTag!TypeOK
  <2> QED
    BY <2>1, ConcatProperties, LenProperties
<1>2. tag' = longer /\ chunks' \in 0..MaxChunks
  BY ChunksAssumption DEF CsTag!Write, TagIInv, CsTag!TypeOK
<1> HIDE DEF longer
<1>3. /\ at = "write" /\ i = 1 /\ start = 1 /\ depth = 0 /\ parts = <<>> /\ column = CsTag!NoColumn
      /\ UNCHANGED <<at, i, start, depth, parts, column, modelField>>
  BY DEF CsTag!Write, TagIInv, ScanInv
<1>4. CsTag!TypeOK'
  BY <1>1, <1>2, <1>3 DEF TagIInv, CsTag!TypeOK
<1> QED
  BY <1>3, <1>4 DEF TagIInv, ScanInv, NameInv

LEMMA GivenToReaders ==
    ASSUME TagIInv, CsTag!Read
    PROVE  TagIInv'
<1>1. tag \in Seq(CsTag!Tokens) /\ UNCHANGED <<tag, i, start, depth, parts, column>>
      /\ modelField' = CsTag!Analyze(tag)
  BY DEF TagIInv, CsTag!TypeOK, CsTag!Read
<1>2. modelField' \in Seq(CsTag!Tokens)
  BY <1>1, BeforeCut, EmptySeq DEF CsTag!Analyze
<1>3. CsTag!TypeOK'
  BY <1>2 DEF TagIInv, CsTag!TypeOK, CsTag!Read
<1>4. Cut \in 1..Len(tag) + 1 /\ Cut' = Cut /\ CsTag!Analyze(tag)' = CsTag!Analyze(tag)
  BY <1>1, BeforeCut DEF Cut
<1>5. ScanInv'
  BY <1>1, <1>4 DEF TagIInv, ScanInv, CsTag!Read
<1> QED
  BY <1>3, <1>5 DEF TagIInv, NameInv, CsTag!Read

(* Up to the first comma nothing is cut off, there the name is.            *)
LEMMA ScanKeeps ==
    ASSUME TagIInv, CsTag!Scan
    PROVE  TagIInv'
<1> DEFINE part == SubSeq(tag, start, i - 1)
<1>1. /\ tag \in Seq(CsTag!Tokens) /\ Len(tag) \in Nat /\ i \in 1..Len(tag) /\ start \in 1..i
      /\ depth \in -(i - 1)..(i - 1) /\ parts \in Seq(Seq(CsTag!Tokens))
      /\ at = "scan" /\ i' = i + 1 /\ UNCHANGED <<chunks, tag, at, column, modelField>>
  BY DEF TagIInv, CsTag!TypeOK, ScanInv, CsTag!Scan
<1>2. /\ Append(parts, part) \in Seq(Seq(CsTag!Tokens)) /\ Append(parts, part) # <<>>
      /\ parts # <<>> => Append(parts, part)[1] = parts[1]
      /\ parts = <<>> => Append(parts, part)[1] = part
  <2>1. i - 1 \in 0..Len(tag)
    BY <1>1
  <2> QED
    BY <2>1, PartTyped DEF TagIInv
<1>3. depth' \in -i..i /\ start' \in 1..i'
  <2>1. depth' \in {depth - 1, depth, depth + 1}
    BY DEF CsTag!Scan
  <2>2. depth \in Int /\ -(i - 1) <= depth /\ depth <= i - 1 /\ i \in Nat
    BY <1>1
  <2>3. depth' \in -i..i
    BY <2>1, <2>2
  <2>4. start' \in {start, i + 1}
    BY DEF CsTag!Scan, CsTag!AfterComma
  <2> QED
    BY <1>1, <2>2, <2>3, <2>4
<1>4. parts' \in Seq(Seq(CsTag!Tokens))
  BY <1>1, <1>2 DEF CsTag!Scan
<1>5. CsTag!TypeOK'
  BY <1>1, <1>3, <1>4 DEF TagIInv, CsTag!TypeOK, ScanInv, CsTag!NoColumn
<1>6. ASSUME Plain
      PROVE  IF i' <= Cut THEN start' = 1 /\ parts' = <<>> /\ depth' = 0
             ELSE parts' # <<>> /\ parts'[1] = CsTag!BeforeComma(tag)
  <2>1. /\ Cut \in 1..Len(tag) + 1
        /\ \A k \in 1..Cut - 1 : tag[k] # CsTag!Comma
        /\ Cut <= Len(tag) => tag[Cut] = CsTag!Comma
        /\ CsTag!BeforeComma(tag) = SubSeq(tag, 1, Cut - 1)
    BY <1>1, BeforeCut
  <2>2. CASE i < Cut
    <3>1. start = 1 /\ parts = <<>> /\ depth = 0
      BY <1>1, <1>6, <2>1, <2>2 DEF TagIInv, ScanInv
    <3>2. tag[i] \notin {CsTag!Comma, CsTag!Open, CsTag!Close}
      BY <1>1, <1>6, <2>1, <2>2 DEF Plain
    <3>3. start' = 1 /\ parts' = <<>> /\ depth' = 0
      BY <3>1, <3>2 DEF CsTag!Scan, CsTag!IsSplit
    <3> QED
      BY <1>1, <2>1, <2>2, <3>3
  <2>3. CASE i = Cut
    <3>1. start = 1 /\ parts = <<>> /\ depth = 0
      BY <1>1, <1>6, <2>1, <2>3 DEF TagIInv, ScanInv
    <3>2. parts' = Append(parts, part)
      <4>1. tag[i] = CsTag!Comma
        BY <1>1, <2>1, <2>3
      <4> QED
        BY <3>1, <4>1 DEF CsTag!Scan, CsTag!IsSplit
    <3>3. part = CsTag!BeforeComma(tag)
      BY <2>1, <2>3, <3>1
    <3>4. ~(i' <= Cut)
      BY <1>1, <2>3
    <3> QED
      BY <1>2, <3>1, <3>2, <3>3, <3>4
  <2>4. CASE i > Cut
    <3>1. parts # <<>> /\ parts[1] = CsTag!BeforeComma(tag)
      BY <1>1, <1>6, <2>1, <2>4 DEF TagIInv, ScanInv
    <3>2. parts' \in {parts, Append(parts, part)}
      BY DEF CsTag!Scan
    <3>3. ~(i' <= Cut)
      BY <1>1, <2>1, <2>4
    <3> QED
      BY <1>2, <3>1, <3>2, <3>3
  <2> QED
    BY <1>1, <2>1, <2>2, <2>3, <2>4
<1>7. Cut' = Cut /\ Plain' = Plain /\ CsTag!BeforeComma(tag)' = CsTag!BeforeComma(tag)
      /\ CsTag!Analyze(tag)' = CsTag!Analyze(tag)
  BY <1>1 DEF Cut, Plain
<1>8. ScanInv'
  BY <1>1, <1>3, <1>6, <1>7 DEF TagIInv, ScanInv
<1> QED
  BY <1>1, <1>5, <1>8 DEF TagIInv, NameInv

LEMMA ScannedKeeps ==
    ASSUME TagIInv, CsTag!Scanned
    PROVE  TagIInv'
<1> DEFINE rest == SubSeq(tag, start, Len(tag))
<1>1. /\ tag \in Seq(CsTag!Tokens) /\ Len(tag) \in Nat /\ i = Len(tag) + 1 /\ start \in 1..i
      /\ depth \in -(i - 1)..(i - 1) /\ parts \in Seq(Seq(CsTag!Tokens))
      /\ at = "scan" /\ at' = "column"
      /\ UNCHANGED <<chunks, tag, i, start, depth, column, modelField>>
  <2>1. /\ tag \in Seq(CsTag!Tokens) /\ Len(tag) \in Nat /\ i \in 1..Len(tag) + 1 /\ start \in 1..i
        /\ depth \in -(i - 1)..(i - 1) /\ parts \in Seq(Seq(CsTag!Tokens))
    BY DEF TagIInv, CsTag!TypeOK, ScanInv
  <2>2. /\ i > Len(tag) /\ at = "scan" /\ at' = "column"
        /\ UNCHANGED <<chunks, tag, i, start, depth, column, modelField>>
    BY DEF CsTag!Scanned
  <2>3. i = Len(tag) + 1
    BY <2>1, <2>2
  <2> QED
    BY <2>1, <2>2, <2>3
<1>2. /\ Append(parts, rest) \in Seq(Seq(CsTag!Tokens)) /\ Append(parts, rest) # <<>>
      /\ parts # <<>> => Append(parts, rest)[1] = parts[1]
      /\ parts = <<>> => Append(parts, rest)[1] = rest
  <2>1. Len(tag) \in 0..Len(tag)
    BY <1>1
  <2> QED
    BY <2>1, PartTyped DEF TagIInv
<1>3. parts' = IF start <= Len(tag) THEN Append(parts, rest) ELSE parts
  BY DEF CsTag!Scanned
<1> HIDE DEF rest
<1>4. CsTag!TypeOK'
  <2>1. parts' \in Seq(Seq(CsTag!Tokens))
    BY <1>1, <1>2, <1>3
  <2> QED
    BY <1>1, <2>1 DEF TagIInv, CsTag!TypeOK, ScanInv, CsTag!NoColumn
<1>5. ASSUME Plain
      PROVE  IF tag = <<>> THEN parts' = <<>>
             ELSE parts' # <<>> /\ parts'[1] = CsTag!BeforeComma(tag)
  <2>1. Cut \in 1..Len(tag) + 1 /\ CsTag!BeforeComma(tag) = SubSeq(tag, 1, Cut - 1)
    BY <1>1, BeforeCut
  <2>2. CASE Cut = Len(tag) + 1
    <3>1. start = 1 /\ parts = <<>>
      BY <1>1, <1>5, <2>2 DEF TagIInv, ScanInv
    <3>2. CASE tag = <<>>
      BY <1>3, <3>1, <3>2
    <3>3. CASE tag # <<>>
      <4>1. Len(tag) >= 1
        BY <1>1, <3>3, EmptySeq
      <4>2. parts' = Append(parts, rest) /\ rest = CsTag!BeforeComma(tag)
        BY <1>1, <1>3, <2>1, <2>2, <3>1, <4>1 DEF rest
      <4> QED
        BY <1>2, <3>1, <3>3, <4>2
    <3> QED
      BY <3>2, <3>3
  <2>3. CASE Cut <= Len(tag)
    <3>1. parts # <<>> /\ parts[1] = CsTag!BeforeComma(tag)
      BY <1>1, <1>5, <2>1, <2>3 DEF TagIInv, ScanInv
    <3>2. tag # <<>>
      BY <1>1, <2>1, <2>3
    <3> QED
      BY <1>2, <1>3, <3>1, <3>2
  <2> QED
    BY <1>1, <2>1, <2>2, <2>3
<1>6. Cut' = Cut /\ Plain' = Plain /\ CsTag!BeforeComma(tag)' = CsTag!BeforeComma(tag)
      /\ CsTag!Analyze(tag)' = CsTag!Analyze(tag)
  BY <1>1 DEF Cut, Plain
<1>7. ScanInv'
  BY <1>1, <1>5, <1>6 DEF TagIInv, ScanInv
<1> QED
  BY <1>1, <1>4, <1>7 DEF TagIInv, NameInv

LEMMA ColumnMade ==
    ASSUME TagIInv, CsTag!MakeColumn
    PROVE  TagIInv'
<1> DEFINE skipped == parts = <<>> \/ parts[1] \in {<<>>, CsTag!Dash}
<1>1. at = "column" /\ at' = "done"
      /\ UNCHANGED <<chunks, tag, i, start, depth, parts, modelField>>
  BY DEF CsTag!MakeColumn
<1>2. /\ column'.name = IF skipped THEN <<>> ELSE parts[1]
      /\ column'.downcase => column'.unique
  <2>1. CASE skipped
    BY <2>1 DEF CsTag!MakeColumn, CsTag!NoColumn
  <2>2. CASE ~skipped
    <3>1. column' = CsTag!ParseColumn(parts[1], Tail(parts))
      BY <2>2 DEF CsTag!MakeColumn
    <3> QED
      BY <2>2, <3>1 DEF CsTag!ParseColumn
  <2> QED
    BY <2>1, <2>2
<1>3. CsTag!TypeOK'
  BY <1>1, <1>2 DEF TagIInv, CsTag!TypeOK
<1>4. Cut' = Cut /\ Plain' = Plain /\ CsTag!BeforeComma(tag)' = CsTag!BeforeComma(tag)
      /\ CsTag!Analyze(tag)' = CsTag!Analyze(tag)
  BY <1>1 DEF Cut, Plain
<1>5. ScanInv'
  BY <1>1, <1>4 DEF TagIInv, ScanInv
<1>6. NameInv'
  BY <1>1, <1>2 DEF NameInv
<1> QED
  BY <1>3, <1>5, <1>6 DEF TagIInv

LEMMA TagPreserved ==
    ASSUME TagIInv, [CsTag!Next]_(CsTag!vars)
    PROVE  TagIInv'
<1>1. CASE UNCHANGED CsTag!vars
  <2>1. /\ CsTag!TypeOK' = CsTag!TypeOK /\ Cut' = Cut /\ Plain' = Plain
        /\ CsTag!BeforeComma(tag)' = CsTag!BeforeComma(tag)
        /\ CsTag!Analyze(tag)' = CsTag!Analyze(tag)
    BY <1>1 DEF CsTag!vars, CsTag!TypeOK, Cut, Plain
  <2> QED
    BY <1>1, <2>1 DEF CsTag!vars, TagIInv, ScanInv, NameInv
<1> QED
  BY <1>1, Written, GivenToReaders, ScanKeeps, ScannedKeeps, ColumnMade DEF CsTag!Next

LEMMA AgreesByIInv ==
    ASSUME TagIInv
    PROVE  ReadersAgree
<1> SUFFICES ASSUME at = "done", ~CsTag!Contains(CsTag!BeforeComma(tag), CsTag!Open),
                    ~CsTag!Contains(CsTag!BeforeComma(tag), CsTag!Close)
             PROVE  modelField = column.name
  BY DEF ReadersAgree, CsTag!ReadersAgree, TagIInv
<1>1. /\ tag \in Seq(CsTag!Tokens) /\ Cut \in 1..Len(tag) + 1
      /\ CsTag!BeforeComma(tag) \in Seq(CsTag!Tokens)
      /\ Len(CsTag!BeforeComma(tag)) = Cut - 1
      /\ \A k \in 1..Cut - 1 : CsTag!BeforeComma(tag)[k] = tag[k]
  BY BeforeCut DEF TagIInv, CsTag!TypeOK
<1>2. Plain
  BY <1>1 DEF Plain, CsTag!Contains
<1>3. modelField = IF CsTag!BeforeComma(tag) = CsTag!Dash THEN <<>> ELSE CsTag!BeforeComma(tag)
  BY DEF TagIInv, ScanInv, CsTag!Analyze
<1>4. column.name = IF parts = <<>> \/ parts[1] = CsTag!Dash THEN <<>> ELSE parts[1]
  BY DEF TagIInv, NameInv
<1>5. CASE tag = <<>>
  <2>1. CsTag!BeforeComma(tag) = <<>>
    BY <1>1, <1>5, EmptySeq
  <2>2. parts = <<>>
    BY <1>2, <1>5 DEF TagIInv, ScanInv
  <2> QED
    BY <1>3, <1>4, <2>1, <2>2
<1>6. CASE tag # <<>>
  <2>1. parts # <<>> /\ parts[1] = CsTag!BeforeComma(tag)
    BY <1>2, <1>6 DEF TagIInv, ScanInv
  <2> QED
    BY <1>3, <1>4, <2>1
<1> QED
  BY <1>5, <1>6

-----------------------------------------------------------------------------
(* The parts of a tag.                                                     *)

(* FiniteSets is instantiated with CsTag.                                  *)
LEMMA SameCardinality == ASSUME NEW S PROVE CsTag!Cardinality(S) = Cardinality(S)
BY DEF CsTag!Cardinality, Cardinality

(* One more token is counted or not.                                       *)
LEMMA CountNext ==
    ASSUME NEW t, NEW kind, NEW k \in Nat
    PROVE  /\ CsTag!Count(t, kind, 0) = 0
           /\ CsTag!Count(t, kind, k) \in Nat
           /\ CsTag!Count(t, kind, k + 1) =
                 IF t[k + 1] = kind THEN CsTag!Count(t, kind, k) + 1
                 ELSE CsTag!Count(t, kind, k)
<1> DEFINE Found(m) == {j \in 1..m : t[j] = kind}
<1>1. \A m \in Nat : IsFiniteSet(Found(m)) /\ Cardinality(Found(m)) \in Nat
  <2> TAKE m \in Nat
  <2>1. IsFiniteSet(1..m) /\ Found(m) \in SUBSET (1..m)
    BY FS_Interval
  <2> HIDE DEF Found
  <2> QED
    BY <2>1, FS_Subset, FS_CardinalityType
<1>2. Found(0) = {}
  OBVIOUS
<1>3. t[k + 1] = kind => Found(k + 1) = Found(k) \cup {k + 1}
  OBVIOUS
<1>4. t[k + 1] # kind => Found(k + 1) = Found(k)
  <2> SUFFICES ASSUME t[k + 1] # kind
               PROVE  \A j \in 1..k + 1 : t[j] = kind => j \in 1..k
    OBVIOUS
  <2> TAKE j \in 1..k + 1
  <2> QED
    OBVIOUS
<1>5. k + 1 \notin Found(k)
  OBVIOUS
<1>8. \A m : CsTag!Count(t, kind, m) = Cardinality(Found(m))
  BY SameCardinality DEF CsTag!Count
<1> HIDE DEF Found
<1>6. t[k + 1] = kind => Cardinality(Found(k + 1)) = Cardinality(Found(k)) + 1
  BY <1>1, <1>3, <1>5, FS_AddElement
<1>7. Cardinality(Found(0)) = 0
  BY <1>2, FS_EmptySet
<1> QED
  BY <1>1, <1>4, <1>6, <1>7, <1>8

(* The depth by the last character ...                                     *)
LEMMA DepthNext ==
    ASSUME NEW t, NEW k \in Nat
    PROVE  /\ CsTag!Depth(t, 0) = 0
           /\ CsTag!Depth(t, k) \in Int
           /\ CsTag!Depth(t, k + 1) = CASE t[k + 1] = CsTag!Open -> CsTag!Depth(t, k) + 1
                                        [] t[k + 1] = CsTag!Close -> CsTag!Depth(t, k) - 1
                                        [] OTHER -> CsTag!Depth(t, k)
<1>1. /\ CsTag!Count(t, CsTag!Open, 0) = 0 /\ CsTag!Count(t, CsTag!Close, 0) = 0
      /\ CsTag!Count(t, CsTag!Open, k) \in Nat /\ CsTag!Count(t, CsTag!Close, k) \in Nat
  BY CountNext
<1>2. /\ CsTag!Count(t, CsTag!Open, k + 1) = IF t[k + 1] = CsTag!Open
            THEN CsTag!Count(t, CsTag!Open, k) + 1 ELSE CsTag!Count(t, CsTag!Open, k)
      /\ CsTag!Count(t, CsTag!Close, k + 1) = IF t[k + 1] = CsTag!Close
            THEN CsTag!Count(t, CsTag!Close, k) + 1 ELSE CsTag!Count(t, CsTag!Close, k)
  BY CountNext
<1>3. CsTag!Open # CsTag!Close
  BY DEF CsTag!Open, CsTag!Close
<1>4. \A m : CsTag!Depth(t, m) = CsTag!Count(t, CsTag!Open, m) - CsTag!Count(t, CsTag!Close, m)
  BY DEF CsTag!Depth
<1> QED
  BY <1>1, <1>2, <1>3, <1>4

(* The n tokens of a piece are those of the tag behind the ones before.    *)
CopyOf(piece, t, before, n) == \A k \in 1..n : piece[k] = t[before + k]

(* How deep a piece of a tag is, counted from where it begins.             *)
LEMMA DepthOfPiece ==
    ASSUME NEW t, NEW before \in Nat, NEW piece, NEW n \in Nat, CopyOf(piece, t, before, n)
    PROVE  \A k \in 0..n :
               CsTag!Depth(piece, k) = CsTag!Depth(t, before + k) - CsTag!Depth(t, before)
<1> DEFINE Differs(k) ==
               CsTag!Depth(piece, k) # CsTag!Depth(t, before + k) - CsTag!Depth(t, before)
           wrong == {k \in 0..n : Differs(k)}
<1> SUFFICES ASSUME wrong # {}
             PROVE  FALSE
  OBVIOUS
<1>1. PICK k \in wrong : \A j \in wrong : k <= j
  <2>1. wrong \in SUBSET Nat
    OBVIOUS
  <2> HIDE DEF wrong
  <2> QED
    BY <2>1, FirstPlace
<1>2. k # 0
  <2>1. CsTag!Depth(piece, 0) = 0 /\ CsTag!Depth(t, before) \in Int /\ before + 0 = before
    BY DepthNext
  <2> QED
    BY <2>1
<1>3. k \in 1..n /\ k - 1 \in Nat /\ k - 1 \notin wrong /\ before + (k - 1) \in Nat
  BY <1>1, <1>2
<1>4. CsTag!Depth(piece, k - 1) = CsTag!Depth(t, before + (k - 1)) - CsTag!Depth(t, before)
  BY <1>3
<1>5. piece[k - 1 + 1] = t[before + (k - 1) + 1] /\ k - 1 + 1 = k /\ before + (k - 1) + 1 = before + k
  BY <1>3 DEF CopyOf
<1> DEFINE e == k - 1
           f == before + (k - 1)
<1>6. /\ CsTag!Depth(piece, e) \in Int /\ CsTag!Depth(t, f) \in Int /\ CsTag!Depth(t, before) \in Int
      /\ CsTag!Depth(piece, e + 1) = CASE piece[e + 1] = CsTag!Open -> CsTag!Depth(piece, e) + 1
                                       [] piece[e + 1] = CsTag!Close -> CsTag!Depth(piece, e) - 1
                                       [] OTHER -> CsTag!Depth(piece, e)
      /\ CsTag!Depth(t, f + 1) = CASE t[f + 1] = CsTag!Open -> CsTag!Depth(t, f) + 1
                                   [] t[f + 1] = CsTag!Close -> CsTag!Depth(t, f) - 1
                                   [] OTHER -> CsTag!Depth(t, f)
  <2>1. e \in Nat /\ f \in Nat
    BY <1>3
  <2> HIDE DEF e, f
  <2> QED
    BY <2>1, DepthNext
<1>7. CsTag!Depth(piece, e) = CsTag!Depth(t, f) - CsTag!Depth(t, before) /\ piece[e + 1] = t[f + 1]
      /\ e + 1 = k /\ f + 1 = before + k
  BY <1>4, <1>5
<1>8. Differs(k)
  BY <1>1
<1> HIDE DEF e, f
<1>9. CsTag!Depth(piece, e + 1) = CsTag!Depth(t, f + 1) - CsTag!Depth(t, before)
  <2>1. CASE t[f + 1] = CsTag!Open
    BY <1>6, <1>7, <2>1
  <2>2. CASE t[f + 1] # CsTag!Open /\ t[f + 1] = CsTag!Close
    BY <1>6, <1>7, <2>2
  <2>3. CASE t[f + 1] # CsTag!Open /\ t[f + 1] # CsTag!Close
    BY <1>6, <1>7, <2>3
  <2> QED
    BY <2>1, <2>2, <2>3
<1> QED
  BY <1>7, <1>8, <1>9

(* ... and the number of cuts: one more at a cut.                          *)
LEMMA SplitsCounted ==
    ASSUME NEW t \in Seq(CsTag!Tokens)
    PROVE  /\ \A c \in CsTag!Cuts(t) : c \in 1..Len(t)
           /\ IsFiniteSet(CsTag!Cuts(t)) /\ Len(t) \in Nat
           /\ \A k : IsFiniteSet(SplitsTo(t, k)) /\ Cardinality(SplitsTo(t, k)) \in Nat
           /\ SplitsTo(t, 0) = {} /\ Cardinality(SplitsTo(t, 0)) = 0
           /\ \A k \in Nat : Cardinality(SplitsTo(t, k + 1)) =
                 IF k + 1 \in CsTag!Cuts(t) THEN Cardinality(SplitsTo(t, k)) + 1
                 ELSE Cardinality(SplitsTo(t, k))
<1>1. (\A c \in CsTag!Cuts(t) : c \in 1..Len(t)) /\ IsFiniteSet(1..Len(t)) /\ Len(t) \in Nat
  <2>1. Len(t) \in Int /\ 1 \in Int /\ DOMAIN t = 1..Len(t)
    OBVIOUS
  <2> QED
    BY <2>1, FS_Interval DEF CsTag!Cuts
<1>2. IsFiniteSet(CsTag!Cuts(t))
  <2>1. CsTag!Cuts(t) \in SUBSET (1..Len(t))
    BY <1>1
  <2> QED
    BY <1>1, <2>1, FS_Subset
<1>3. \A k : IsFiniteSet(SplitsTo(t, k)) /\ Cardinality(SplitsTo(t, k)) \in Nat
  <2> TAKE k
  <2>1. SplitsTo(t, k) \in SUBSET CsTag!Cuts(t)
    BY DEF SplitsTo
  <2> QED
    BY <1>2, <2>1, FS_Subset, FS_CardinalityType
<1>4. SplitsTo(t, 0) = {}
  BY <1>1 DEF SplitsTo
<1>5. ASSUME NEW k \in Nat
      PROVE  Cardinality(SplitsTo(t, k + 1)) =
                 IF k + 1 \in CsTag!Cuts(t) THEN Cardinality(SplitsTo(t, k)) + 1
                 ELSE Cardinality(SplitsTo(t, k))
  <2>1. CASE k + 1 \in CsTag!Cuts(t)
    <3>1. SplitsTo(t, k + 1) = SplitsTo(t, k) \cup {k + 1} /\ k + 1 \notin SplitsTo(t, k)
      BY <1>1, <2>1 DEF SplitsTo
    <3> QED
      BY <1>3, <2>1, <3>1, FS_AddElement
  <2>2. CASE k + 1 \notin CsTag!Cuts(t)
    <3>1. \A c \in CsTag!Cuts(t) : c <= k + 1 <=> c <= k
      BY <1>1, <2>2
    <3>2. SplitsTo(t, k + 1) = SplitsTo(t, k)
      BY <3>1 DEF SplitsTo
    <3> QED
      BY <2>2, <3>2
  <2> QED
    BY <2>1, <2>2
<1> QED
  BY <1>1, <1>2, <1>3, <1>4, <1>5, FS_EmptySet

(* More of the tag has more splits, and as many only if there is none in   *)
(* between.                                                                *)
LEMMA SplitsGrow ==
    ASSUME NEW t \in Seq(CsTag!Tokens), NEW a \in Int, NEW b \in Int, a <= b
    PROVE  /\ Cardinality(SplitsTo(t, a)) <= Cardinality(SplitsTo(t, b))
           /\ (\A c \in a + 1..b : c \notin CsTag!Cuts(t)) => SplitsTo(t, b) = SplitsTo(t, a)
           /\ (\E c \in a + 1..b : c \in CsTag!Cuts(t)) =>
                 Cardinality(SplitsTo(t, a)) < Cardinality(SplitsTo(t, b))
<1>1. (\A c \in CsTag!Cuts(t) : c \in 1..Len(t)) /\ Len(t) \in Nat
      /\ \A k : IsFiniteSet(SplitsTo(t, k)) /\ Cardinality(SplitsTo(t, k)) \in Nat
  BY SplitsCounted
<1>2. SplitsTo(t, a) \in SUBSET SplitsTo(t, b)
  BY <1>1 DEF SplitsTo
<1>3. (\A c \in a + 1..b : c \notin CsTag!Cuts(t)) => SplitsTo(t, b) = SplitsTo(t, a)
  BY <1>1, <1>2 DEF SplitsTo
<1>4. (\E c \in a + 1..b : c \in CsTag!Cuts(t)) => SplitsTo(t, a) # SplitsTo(t, b)
  <2> SUFFICES ASSUME NEW c \in a + 1..b, c \in CsTag!Cuts(t)
               PROVE  c \in SplitsTo(t, b) /\ c \notin SplitsTo(t, a)
    BY Zenon
  <2> QED
    BY <1>1 DEF SplitsTo
<1>5. /\ Cardinality(SplitsTo(t, a)) <= Cardinality(SplitsTo(t, b))
      /\ Cardinality(SplitsTo(t, a)) = Cardinality(SplitsTo(t, b)) => SplitsTo(t, a) = SplitsTo(t, b)
  BY <1>1, <1>2, FS_Subset
<1> QED
  BY <1>1, <1>3, <1>4, <1>5

(* What reaches from one split to the next or to the end is all there is   *)
(* between these.                                                          *)
LEMMA PlacesBetween ==
    ASSUME NEW t \in Seq(CsTag!Tokens), NEW before \in Nat, NEW n \in Nat,
           before + n <= Len(t),
           before = 0 \/ before \in CsTag!Cuts(t),
           \A k \in before + 1..before + n : k \notin CsTag!Cuts(t),
           before + n = Len(t) \/ before + n + 1 \in CsTag!Cuts(t)
    PROVE  \A k \in 1..Len(t) :
               k \in before + 1..before + n <=>
                   /\ k \notin CsTag!Cuts(t)
                   /\ Cardinality(SplitsTo(t, k - 1)) = Cardinality(SplitsTo(t, before))
<1> TAKE k \in 1..Len(t)
<1>1. Len(t) \in Nat /\ \A c \in CsTag!Cuts(t) : c \in 1..Len(t)
  BY SplitsCounted
<1>2. Cardinality(SplitsTo(t, k - 1)) \in Nat /\ Cardinality(SplitsTo(t, before)) \in Nat
  BY SplitsCounted
<1>3. k \in Int /\ k - 1 \in Int /\ before \in Int /\ k >= 1 /\ k <= Len(t)
  BY <1>1
<1> DEFINE end == before + n
<1>4. end \in Int /\ end >= before /\ end <= Len(t)
  BY <1>1
<1>5. ASSUME k > before, k <= end
      PROVE  k \notin CsTag!Cuts(t) /\ Cardinality(SplitsTo(t, k - 1)) = Cardinality(SplitsTo(t, before))
  <2>1. k \in before + 1..end /\ before <= k - 1 /\ \A c \in before + 1..k - 1 : c \in before + 1..end
    BY <1>3, <1>4, <1>5
  <2>2. \A c \in before + 1..k - 1 : c \notin CsTag!Cuts(t)
    BY <2>1
  <2>3. SplitsTo(t, k - 1) = SplitsTo(t, before)
    BY <1>3, <2>1, <2>2, SplitsGrow
  <2> QED
    BY <2>1, <2>3
<1>6. ASSUME k <= before, k \notin CsTag!Cuts(t)
      PROVE  Cardinality(SplitsTo(t, k - 1)) # Cardinality(SplitsTo(t, before))
  <2>1. before \in CsTag!Cuts(t)
    BY <1>3, <1>6
  <2>2. k - 1 <= before /\ before \in (k - 1) + 1..before
    BY <1>3, <1>6
  <2>3. Cardinality(SplitsTo(t, k - 1)) < Cardinality(SplitsTo(t, before))
    BY <1>3, <2>1, <2>2, SplitsGrow
  <2> QED
    BY <1>2, <2>3
<1>7. ASSUME k > end, k \notin CsTag!Cuts(t)
      PROVE  Cardinality(SplitsTo(t, k - 1)) # Cardinality(SplitsTo(t, before))
  <2>1. end + 1 \in CsTag!Cuts(t)
    BY <1>3, <1>4, <1>7
  <2>2. k # end + 1
    BY <1>7, <2>1
  <2>3. before <= k - 1 /\ end + 1 \in before + 1..k - 1
    BY <1>3, <1>4, <1>7, <2>2
  <2>4. Cardinality(SplitsTo(t, before)) < Cardinality(SplitsTo(t, k - 1))
    BY <1>3, <2>1, <2>3, SplitsGrow
  <2> QED
    BY <1>2, <2>4
<1>8. k \in before + 1..end <=> k > before /\ k <= end
  BY <1>3, <1>4
<1>9. k <= before \/ (k > before /\ k <= end) \/ k > end
  BY <1>3, <1>4
<1> QED
  BY <1>5, <1>6, <1>7, <1>8, <1>9

(* The places of a piece are within the tag.                               *)
LEMMA WithinBounds ==
    ASSUME NEW m \in Nat, NEW n \in Nat, NEW b \in 0..m - n
    PROVE  b \in Nat /\ b + n <= m /\ \A k \in b + 1..b + n : k \in 1..m
OBVIOUS

(* A piece that goes from cut to cut is all there is between them.         *)
LEMMA PieceIsAll ==
    ASSUME NEW t \in Seq(CsTag!Tokens), NEW p, NEW piece, NEW before, Piece(t, piece, p, before),
           Len(piece) \in Nat,
           before + Len(piece) = Len(t) \/ before + Len(piece) + 1 \in CsTag!Cuts(t)
    PROVE  before + 1..before + Len(piece) =
               {k \in DOMAIN t \ CsTag!Cuts(t) : CsTag!Cardinality({c \in CsTag!Cuts(t) : c < k}) = p - 1}
<1> DEFINE n == Len(piece)
<1>1. n \in Nat /\ DOMAIN t = 1..Len(t) /\ Len(t) \in Nat
  OBVIOUS
<1>2. /\ before \in Nat /\ before + n <= Len(t)
      /\ \A k \in before + 1..before + n : k \in 1..Len(t)
  <2>1. before \in 0..Len(t) - n
    BY DEF Piece
  <2> HIDE DEF n
  <2> QED
    BY <1>1, <2>1, WithinBounds
<1>3. \A k \in 1..Len(t) :
          k \in before + 1..before + n <=>
              k \notin CsTag!Cuts(t) /\ Cardinality(SplitsTo(t, k - 1)) = Cardinality(SplitsTo(t, before))
  <2>1. /\ before = 0 \/ before \in CsTag!Cuts(t)
        /\ \A k \in before + 1..before + n : k \notin CsTag!Cuts(t)
        /\ before + n = Len(t) \/ before + n + 1 \in CsTag!Cuts(t)
    BY Zenon DEF Piece
  <2> HIDE DEF n
  <2> QED
    BY <1>1, <1>2, <2>1, PlacesBetween
<1>4. Cardinality(SplitsTo(t, before)) = p - 1
  BY DEF Piece
<1>5. \A k \in 1..Len(t) : CsTag!Cardinality({c \in CsTag!Cuts(t) : c < k}) = Cardinality(SplitsTo(t, k - 1))
  <2> TAKE k \in 1..Len(t)
  <2>1. \A c \in CsTag!Cuts(t) : c \in Int
    BY <1>1, SplitsCounted
  <2>2. k \in Int
    BY <1>1
  <2>3. {c \in CsTag!Cuts(t) : c < k} = SplitsTo(t, k - 1)
    BY <2>1, <2>2 DEF SplitsTo
  <2> QED
    BY <2>3, SameCardinality
<1> HIDE DEF n
<1>6. \A k : k \in before + 1..before + n <=>
          /\ k \in DOMAIN t \ CsTag!Cuts(t)
          /\ CsTag!Cardinality({c \in CsTag!Cuts(t) : c < k}) = p - 1
  BY <1>1, <1>2, <1>3, <1>4, <1>5
<1> QED
  BY <1>6, Zenon DEF n

-----------------------------------------------------------------------------
(* Before the scan there is no piece ...                                   *)
LEMMA SplitWritten ==
    ASSUME TagIInv, SplitInv, NEW chunk \in Chunks, CsTag!Write(chunk)
    PROVE  SplitInv'
<1>1. at' = "write" /\ i' = 1 /\ start' = 1 /\ depth' = 0 /\ parts' = <<>>
  BY DEF CsTag!Write, TagIInv, ScanInv
<1>2. tag' \in Seq(CsTag!Tokens)
  BY Written DEF TagIInv, CsTag!TypeOK
<1> DEFINE t == tag'
<1>3. CsTag!Depth(t, 0) = 0 /\ Cardinality(SplitsTo(t, 0)) = 0
  <2> HIDE DEF t
  <2>1. t \in Seq(CsTag!Tokens)
    BY <1>2 DEF t
  <2> QED
    BY <2>1, DepthNext, SplitsCounted
<1>4. Len(parts') = 0 /\ DOMAIN parts' = {}
  BY <1>1
<1> QED
  BY <1>1, <1>3, <1>4 DEF SplitInv

(* One token further.                                                      *)
LEMMA SplitScan ==
    ASSUME TagIInv, SplitInv, CsTag!Scan
    PROVE  SplitInv'
<1> DEFINE part == SubSeq(tag, start, i - 1)
           cuts == CsTag!Cuts(tag)
           k == i - 1
<1>1. /\ tag \in Seq(CsTag!Tokens) /\ Len(tag) \in Nat /\ i \in 1..Len(tag) /\ start \in 1..i
      /\ parts \in Seq(Seq(CsTag!Tokens)) /\ Len(parts) \in Nat /\ DOMAIN parts = 1..Len(parts)
      /\ at = "scan" /\ i' = i + 1 /\ UNCHANGED <<tag, at>>
      /\ DOMAIN tag = 1..Len(tag)
  <2>1. /\ tag \in Seq(CsTag!Tokens) /\ i \in 1..Len(tag) + 1 /\ start \in 1..i
        /\ parts \in Seq(Seq(CsTag!Tokens))
    BY DEF TagIInv, CsTag!TypeOK
  <2>2. i <= Len(tag) /\ at = "scan" /\ i' = i + 1 /\ UNCHANGED <<tag, at>>
    BY DEF CsTag!Scan
  <2> DEFINE T == Seq(CsTag!Tokens)
  <2>3. Len(parts) \in Nat /\ DOMAIN parts = 1..Len(parts)
    <3>1. parts \in Seq(T)
      BY <2>1
    <3> HIDE DEF T
    <3> QED
      BY <3>1
  <2>4. Len(tag) \in Nat /\ DOMAIN tag = 1..Len(tag)
    BY <2>1
  <2> QED
    BY <2>1, <2>2, <2>3, <2>4
<1>2. /\ depth = CsTag!Depth(tag, k)
      /\ start = 1 \/ start - 1 \in cuts
      /\ \A j \in start..k : j \notin cuts
      /\ Len(parts) = Cardinality(SplitsTo(tag, k))
      /\ \A p \in DOMAIN parts : \E before \in 0..Len(tag) :
            Piece(tag, parts[p], p, before) /\ before + Len(parts[p]) + 1 \in cuts
  BY <1>1 DEF SplitInv
<1>3. k \in Nat /\ k + 1 = i /\ i' - 1 = i /\ start <= i /\ start >= 1 /\ start \in Int
  BY <1>1
<1>4. depth' = CsTag!Depth(tag, i)
  <2> HIDE DEF k
  <2>1. CsTag!Depth(tag, k + 1) = CASE tag[k + 1] = CsTag!Open -> CsTag!Depth(tag, k) + 1
                                    [] tag[k + 1] = CsTag!Close -> CsTag!Depth(tag, k) - 1
                                    [] OTHER -> CsTag!Depth(tag, k)
    BY <1>3, DepthNext
  <2> QED
    BY <1>2, <1>3, <2>1, Zenon DEF CsTag!Scan
<1>5. i \in cuts <=> CsTag!IsSplit(i)
  <2>1. tag[i] = CsTag!Comma => depth' = depth
    BY DEF CsTag!Scan, CsTag!Comma, CsTag!Open, CsTag!Close
  <2> QED
    BY <1>1, <1>4, <2>1 DEF CsTag!Cuts, CsTag!IsSplit
<1>6. Cardinality(SplitsTo(tag, i)) = IF i \in cuts THEN Len(parts) + 1 ELSE Len(parts)
  <2> HIDE DEF k
  <2> QED
    BY <1>1, <1>2, <1>3, SplitsCounted
<1> HIDE DEF k
<1>7. CASE i \notin cuts
  <2>1. parts' = parts /\ start' = start
    BY <1>5, <1>7 DEF CsTag!Scan
  <2>2. \A j \in start..i : j \notin cuts
    BY <1>2, <1>3, <1>7
  <2> QED
    BY <1>1, <1>2, <1>3, <1>4, <1>6, <1>7, <2>1, <2>2 DEF SplitInv
<1>8. CASE i \in cuts
  <2>1. parts' = Append(parts, part) /\ start' = i + 1
    BY <1>5, <1>8 DEF CsTag!Scan, CsTag!AfterComma
  <2>2. part \in Seq(CsTag!Tokens) /\ Len(part) = i - start
    <3>1. \A j \in start..i - 1 : tag[j] \in CsTag!Tokens
      BY <1>1
    <3>2. start \in Int /\ i - 1 \in Int
      BY <1>1
    <3>3. part \in Seq(CsTag!Tokens) /\ Len(part) = IF start <= i - 1 THEN i - 1 - start + 1 ELSE 0
      BY <3>1, <3>2, SubSeqProperties
    <3> QED
      BY <1>1, <3>3
  <2>3. /\ Len(parts') = Len(parts) + 1 /\ DOMAIN parts' = 1..Len(parts) + 1
        /\ \A p \in 1..Len(parts) : parts'[p] = parts[p]
        /\ parts'[Len(parts) + 1] = part
    <3> HIDE DEF part
    <3> QED
      BY <1>1, <2>1, <2>2
  <2>4. \A j \in i + 1..i : j \notin cuts
    BY <1>1
  <2>5. Piece(tag, part, Len(parts) + 1, start - 1) /\ start - 1 + Len(part) + 1 = i
        /\ start - 1 \in 0..Len(tag)
    <3>1. start - 1 \in 0..Len(tag) - Len(part) /\ start - 1 + 1 = start
          /\ start - 1 + Len(part) = i - 1 /\ start - 1 + Len(part) + 1 = i
          /\ start - 1 \in 0..Len(tag)
      BY <1>1, <2>2
    <3>2. Cardinality(SplitsTo(tag, start - 1)) = Len(parts) + 1 - 1
      <4>1. \A c \in start - 1 + 1..k : c \notin cuts
        BY <1>2, <3>1
      <4>2. start - 1 \in Int /\ k \in Int /\ start - 1 <= k
        BY <1>3
      <4>3. SplitsTo(tag, k) = SplitsTo(tag, start - 1)
        BY <1>1, <4>1, <4>2, SplitsGrow
      <4> QED
        BY <1>1, <1>2, <4>3
    <3>3. start - 1 = 0 \/ start - 1 \in cuts
      BY <1>1, <1>2
    <3>4. \A j \in start - 1 + 1..start - 1 + Len(part) : j \notin cuts
      BY <1>2, <3>1 DEF k
    <3>5. part = SubSeq(tag, start - 1 + 1, start - 1 + Len(part))
      BY <3>1
    <3> HIDE DEF part
    <3> QED
      BY <3>1, <3>2, <3>3, <3>4, <3>5 DEF Piece
  <2>6. \A p \in DOMAIN parts' : \E before \in 0..Len(tag) :
            Piece(tag, parts'[p], p, before) /\ before + Len(parts'[p]) + 1 \in cuts
    <3> TAKE p \in DOMAIN parts'
    <3>1. CASE p = Len(parts) + 1
      BY <1>8, <2>3, <2>5, <3>1
    <3>2. CASE p \in DOMAIN parts
      BY <1>1, <1>2, <2>3, <3>2
    <3> QED
      BY <1>1, <2>3, <3>1, <3>2
  <2>7. start' - 1 = i
    BY <1>1, <2>1
  <2>8. /\ start' = 1 \/ start' - 1 \in cuts
        /\ \A j \in start'..i' - 1 : j \notin cuts
        /\ Len(parts') = Cardinality(SplitsTo(tag, i' - 1))
        /\ depth' = CsTag!Depth(tag, i' - 1)
    BY <1>1, <1>3, <1>4, <1>6, <1>8, <2>1, <2>3, <2>4, <2>7
  <2> HIDE DEF part
  <2> QED
    BY <1>1, <2>6, <2>8 DEF SplitInv
<1> QED
  BY <1>7, <1>8

(* A piece has the tokens it was cut from.                                 *)
LEMMA PieceElements ==
    ASSUME NEW S, NEW t \in Seq(S), NEW m \in Nat, DOMAIN t = 1..m,
           NEW before \in Nat, NEW n \in Nat, before + n <= m
    PROVE  \A k \in 1..n : SubSeq(t, before + 1, before + n)[k] = t[before + k]
<1> DEFINE low == before + 1
           high == before + n
<1>1. /\ low \in Int /\ high \in Int /\ high - low + 1 = n
      /\ \A k \in low..high : k \in 1..m
      /\ \A k \in 1..n : low + k - 1 = before + k
  OBVIOUS
<1>2. \A k \in low..high : t[k] \in S
  BY <1>1
<1> HIDE DEF low, high
<1>3. \A k \in 1..high - low + 1 : SubSeq(t, low, high)[k] = t[low + k - 1]
  BY <1>1, <1>2, SubSeqProperties
<1>4. \A k \in 1..n : SubSeq(t, low, high)[k] = t[low + k - 1]
  BY <1>1, <1>3
<1> QED
  BY <1>1, <1>4, Zenon DEF low, high

(* Parentheses that match before a piece and behind it match in it.        *)
LEMMA BalancedWithin ==
    ASSUME NEW t, NEW piece, NEW m \in Nat, NEW before \in Nat, NEW n \in Nat, before + n <= m,
           CopyOf(piece, t, before, n),
           CsTag!Depth(t, before) = 0, CsTag!Depth(t, before + n) = 0,
           \A k \in 1..m : CsTag!Depth(t, k) >= 0
    PROVE  CsTag!Depth(piece, n) = 0 /\ \A k \in 1..n : CsTag!Depth(piece, k) >= 0
<1>1. \A k \in 0..n : CsTag!Depth(piece, k) = CsTag!Depth(t, before + k) - CsTag!Depth(t, before)
  BY DepthOfPiece
<1>2. \A k \in 0..n : before + k \in Nat
  OBVIOUS
<1>3. \A k \in 0..n : CsTag!Depth(piece, k) = CsTag!Depth(t, before + k)
  <2> TAKE k \in 0..n
  <2> DEFINE d == CsTag!Depth(t, before + k)
  <2>1. d \in Int
    BY <1>2, DepthNext
  <2>2. CsTag!Depth(piece, k) = d - 0
    BY <1>1
  <2> HIDE DEF d
  <2>3. CsTag!Depth(piece, k) = d
    BY <2>1, <2>2
  <2> QED
    BY <2>3 DEF d
<1>4. n \in 0..n /\ \A k \in 1..n : k \in 0..n /\ before + k \in 1..m
  OBVIOUS
<1> QED
  BY <1>3, <1>4

(* A comma does not change the depth.                                      *)
LEMMA DepthBeforeCut ==
    ASSUME NEW t, NEW k \in Nat, k + 1 \in CsTag!Cuts(t)
    PROVE  CsTag!Depth(t, k) = 0
<1>1. t[k + 1] = CsTag!Comma /\ CsTag!Depth(t, k + 1) = 0
  BY DEF CsTag!Cuts
<1>2. CsTag!Depth(t, k + 1) = CsTag!Depth(t, k)
  BY <1>1, DepthNext DEF CsTag!Comma, CsTag!Open, CsTag!Close
<1> QED
  BY <1>1, <1>2

(* The parentheses of a piece match if those of the tag do: outside of     *)
(* them it begins and ends.                                                *)
LEMMA BalancedPiece ==
    ASSUME NEW t \in Seq(CsTag!Tokens), NEW p, NEW piece \in Seq(CsTag!Tokens), NEW before,
           Piece(t, piece, p, before), CsTag!Balanced(t),
           before + Len(piece) = Len(t) \/ before + Len(piece) + 1 \in CsTag!Cuts(t)
    PROVE  CsTag!Balanced(piece)
<1> DEFINE n == Len(piece)
           m == Len(t)
           end == before + n
<1>1. n \in Nat /\ DOMAIN piece = 1..n /\ m \in Nat /\ DOMAIN t = 1..m
  OBVIOUS
<1>2. before \in 0..m - n
  BY DEF Piece
<1>3. before \in Nat /\ end <= m
  <2> HIDE DEF n, m
  <2> QED
    BY <1>1, <1>2, WithinBounds
<1>4. piece = SubSeq(t, before + 1, before + n)
  BY DEF Piece
<1>5. before = 0 \/ before \in CsTag!Cuts(t)
  BY Zenon DEF Piece
<1>6. end = m \/ end + 1 \in CsTag!Cuts(t)
  BY Zenon
<1>7. CsTag!Depth(t, m) = 0 /\ \A k \in 1..m : CsTag!Depth(t, k) >= 0
  BY <1>1, Zenon DEF CsTag!Balanced
<1>8. ASSUME NEW N \in Nat, NEW E, NEW B \in Nat, E = B + N
      PROVE  E \in Nat
  BY <1>8
<1>9. end \in Nat
  BY <1>1, <1>3, <1>8, Zenon
<1> HIDE DEF n, m
<1>10. CopyOf(piece, t, before, n)
  BY <1>1, <1>3, <1>4, PieceElements, Zenon DEF CopyOf
<1>11. CsTag!Depth(t, before) = 0
  <2>1. CsTag!Depth(t, 0) = 0
    BY DepthNext, Zenon
  <2> QED
    BY <1>5, <2>1, Zenon DEF CsTag!Cuts
<1>12. CsTag!Depth(t, end) = 0
  <2> HIDE DEF end
  <2> QED
    BY <1>6, <1>7, <1>9, DepthBeforeCut, Zenon
<1>13. CsTag!Depth(piece, n) = 0 /\ \A k \in 1..n : CsTag!Depth(piece, k) >= 0
  BY <1>1, <1>3, <1>7, <1>10, <1>11, <1>12, BalancedWithin, Zenon
<1> QED
  BY <1>1, <1>13, Zenon DEF CsTag!Balanced, n

(* Appending to a sequence.                                                *)
LEMMA Appended ==
    ASSUME NEW S, NEW s \in Seq(S), NEW e \in S
    PROVE  /\ Append(s, e) \in Seq(S) /\ Len(Append(s, e)) = Len(s) + 1
           /\ Append(s, e)[Len(s) + 1] = e
           /\ \A p \in DOMAIN s : Append(s, e)[p] = s[p]
OBVIOUS

(* The domain of a sequence.                                               *)
LEMMA SequenceDomain ==
    ASSUME NEW S, NEW s \in Seq(S)
    PROVE  Len(s) \in Nat /\ DOMAIN s = 1..Len(s) /\ \A p \in DOMAIN s : s[p] \in S
OBVIOUS

(* ... and after it the pieces are the tag.                                *)
LEMMA SplitScanned ==
    ASSUME TagIInv, SplitInv, CsTag!Scanned
    PROVE  PartsAreTheTag'
<1> DEFINE rest == SubSeq(tag, start, Len(tag))
           cuts == CsTag!Cuts(tag)
           N == Len(tag)
           T == Seq(CsTag!Tokens)
<1>1. tag \in T /\ N \in Nat /\ DOMAIN tag = 1..N
  BY DEF TagIInv, CsTag!TypeOK
<1>2. i = N + 1 /\ start \in 1..N + 1 /\ at = "scan" /\ at' = "column" /\ tag' = tag
  <2>1. i \in 1..N + 1 /\ start \in 1..i
    BY DEF TagIInv, CsTag!TypeOK
  <2>2. i > N /\ at = "scan" /\ at' = "column" /\ tag' = tag
    BY DEF CsTag!Scanned
  <2> HIDE DEF N
  <2>3. i = N + 1
    BY <1>1, <2>1, <2>2
  <2> QED
    BY <2>1, <2>2, <2>3
<1>3. parts \in Seq(T) /\ parts' = IF start <= N THEN Append(parts, rest) ELSE parts
  BY DEF TagIInv, CsTag!TypeOK, CsTag!Scanned
<1>4. N = i - 1
  <2> HIDE DEF N
  <2> QED
    BY <1>1, <1>2
<1>5. /\ start = 1 \/ start - 1 \in cuts
      /\ \A j \in start..N : j \notin cuts
      /\ Len(parts) = Cardinality(SplitsTo(tag, N))
      /\ \A p \in DOMAIN parts : \E before \in 0..Len(tag) :
            Piece(tag, parts[p], p, before) /\ before + Len(parts[p]) + 1 \in cuts
  BY <1>2, <1>4 DEF SplitInv
<1>6. IsFiniteSet(cuts) /\ SplitsTo(tag, N) = cuts
  <2>1. (\A c \in cuts : c \in 1..N) /\ IsFiniteSet(cuts)
    BY <1>1, SplitsCounted
  <2> HIDE DEF cuts, N
  <2>2. \A c \in cuts : c <= N
    BY <1>1, <2>1
  <2> QED
    BY <2>1, <2>2 DEF SplitsTo, cuts
<1>7. rest \in T /\ (start <= N => Len(rest) = N - start + 1)
  <2>1. start \in Int /\ N \in Int /\ \A j \in start..N : tag[j] \in CsTag!Tokens
    <3>1. \A j \in start..N : j \in DOMAIN tag
      <4> HIDE DEF N
      <4> QED
        BY <1>1, <1>2
    <3> QED
      BY <1>1, <1>2, <3>1
  <2> HIDE DEF N
  <2>2. SubSeq(tag, start, N) \in T /\ Len(SubSeq(tag, start, N)) = IF start <= N THEN N - start + 1 ELSE 0
    BY <2>1, SubSeqProperties
  <2> QED
    BY <2>2 DEF N
<1>8. Len(parts) \in Nat /\ DOMAIN parts = 1..Len(parts)
  <2> HIDE DEF T
  <2> QED
    BY <1>3
<1>9. start <= N => Piece(tag, rest, Len(parts) + 1, start - 1) /\ start - 1 + Len(rest) = N
                    /\ start - 1 \in 0..Len(tag)
  <2> HAVE start <= N
  <2>1. /\ start - 1 \in 0..N - Len(rest) /\ start - 1 + 1 = start /\ start - 1 + Len(rest) = N
        /\ start - 1 \in 0..N /\ start - 1 \in Int /\ start - 1 <= N
    <3> HIDE DEF rest, N
    <3> QED
      BY <1>1, <1>2, <1>7
  <2>2. SplitsTo(tag, N) = SplitsTo(tag, start - 1)
    <3>1. \A c \in start - 1 + 1..N : c \notin cuts
      BY <1>5, <2>1
    <3> HIDE DEF N
    <3> QED
      BY <1>1, <2>1, <3>1, SplitsGrow
  <2>3. Cardinality(SplitsTo(tag, start - 1)) = Len(parts) + 1 - 1
    BY <1>5, <1>8, <2>2
  <2>4. start - 1 = 0 \/ start - 1 \in cuts
    BY <1>2, <1>5
  <2>5. \A j \in start - 1 + 1..start - 1 + Len(rest) : j \notin cuts
    BY <1>5, <2>1
  <2>6. rest = SubSeq(tag, start - 1 + 1, start - 1 + Len(rest))
    BY <2>1
  <2> HIDE DEF rest
  <2> QED
    BY <2>1, <2>3, <2>4, <2>5, <2>6 DEF Piece
<1>10. /\ start <= N => Len(parts') = Len(parts) + 1 /\ parts'[Len(parts) + 1] = rest
       /\ ~(start <= N) => parts' = parts
       /\ \A p \in DOMAIN parts : parts'[p] = parts[p]
       /\ parts' \in Seq(T) /\ Len(parts') \in Nat /\ DOMAIN parts' = 1..Len(parts')
  <2>1. rest \in T
    BY <1>7
  <2> HIDE DEF rest, N, T
  <2>2. CASE start <= N
    <3>1. parts' = Append(parts, rest)
      BY <1>3, <2>2, Zenon
    <3>2. parts \in Seq(T)
      BY <1>3, Zenon
    <3>3. /\ parts' \in Seq(T) /\ Len(parts') = Len(parts) + 1 /\ parts'[Len(parts) + 1] = rest
          /\ \A p \in DOMAIN parts : parts'[p] = parts[p]
      BY <2>1, <3>1, <3>2, Appended
    <3>4. Len(parts') \in Nat /\ DOMAIN parts' = 1..Len(parts')
      BY <3>3, SequenceDomain, Zenon
    <3> QED
      BY <2>2, <3>3, <3>4, Zenon
  <2>3. CASE ~(start <= N)
    BY <1>3, <2>3, SequenceDomain, Zenon
  <2> QED
    BY <2>2, <2>3, Zenon
<1>11. \A p \in DOMAIN parts' : \E before \in 0..Len(tag) :
           /\ Piece(tag, parts'[p], p, before)
           /\ before + Len(parts'[p]) = Len(tag) \/ before + Len(parts'[p]) + 1 \in cuts
  <2> HIDE DEF rest, cuts
  <2> TAKE p \in DOMAIN parts'
  <2>1. CASE p \in DOMAIN parts
    BY <1>5, <1>10, <2>1
  <2>2. CASE p \notin DOMAIN parts
    <3>1. start <= N
      BY <1>10, <2>2, Zenon
    <3>2. p \in 1..Len(parts) + 1 /\ p \notin 1..Len(parts)
      BY <1>8, <1>10, <2>2, <3>1, Zenon
    <3>3. p = Len(parts) + 1
      BY <1>8, <3>2
    <3> QED
      BY <1>9, <1>10, <3>1, <3>3, Zenon
  <2> QED
    BY <2>1, <2>2
<1>12. \A p \in DOMAIN parts' : parts'[p] \in T
  <2> HIDE DEF T
  <2> QED
    BY <1>10, SequenceDomain, Zenon
<1>13. Len(parts') = Cardinality(cuts \cup ({N} \ {0}))
  <2> HIDE DEF cuts
  <2>1. CASE start <= N
    <3>1. N \notin cuts /\ {N} \ {0} = {N}
      <4> HIDE DEF N
      <4> QED
        BY <1>1, <1>2, <1>5, <2>1
    <3>2. Cardinality(cuts \cup {N}) = Cardinality(cuts) + 1
      BY <1>6, <3>1, FS_AddElement
    <3>3. Len(parts) = Cardinality(cuts) /\ Len(parts') = Len(parts) + 1
      BY <1>5, <1>6, <1>10, <2>1, Zenon
    <3> QED
      BY <3>1, <3>2, <3>3, Zenon
  <2>2. CASE ~(start <= N)
    <3>1. N = 0 \/ N \in cuts
      <4>1. start = N + 1
        <5> HIDE DEF N
        <5> QED
          BY <1>1, <1>2, <2>2
      <4> HIDE DEF N
      <4> QED
        BY <1>1, <1>5, <4>1
    <3>2. cuts \cup ({N} \ {0}) = cuts
      BY <3>1
    <3> QED
      BY <1>5, <1>6, <1>10, <2>2, <3>2
  <2> QED
    BY <2>1, <2>2
<1>14. Len(parts') = CsTag!Cardinality(cuts \cup ({N} \ {0}))
  BY <1>13, SameCardinality
<1>15. ASSUME NEW p \in DOMAIN parts'
       PROVE  /\ \E before \in 0..Len(tag) - Len(parts'[p]) :
                    /\ parts'[p] = SubSeq(tag, before + 1, before + Len(parts'[p]))
                    /\ before + 1..before + Len(parts'[p]) =
                          {k \in DOMAIN tag \ cuts :
                              CsTag!Cardinality({c \in cuts : c < k}) = p - 1}
              /\ CsTag!Balanced(tag) => CsTag!Balanced(parts'[p])
  <2> DEFINE piece == parts'[p]
  <2>1. piece \in T /\ Len(piece) \in Nat
    <3>1. piece \in T
      BY <1>12
    <3> QED
      BY <3>1
  <2>2. PICK before \in 0..Len(tag) :
            /\ Piece(tag, piece, p, before)
            /\ before + Len(piece) = Len(tag) \/ before + Len(piece) + 1 \in cuts
    BY <1>11
  <2> HIDE DEF piece
  <2>3. before + 1..before + Len(piece) =
            {k \in DOMAIN tag \ cuts : CsTag!Cardinality({c \in cuts : c < k}) = p - 1}
    BY <1>1, <2>1, <2>2, PieceIsAll
  <2>4. CsTag!Balanced(tag) => CsTag!Balanced(piece)
    BY <1>1, <2>1, <2>2, BalancedPiece
  <2>5. before \in 0..Len(tag) - Len(piece) /\ piece = SubSeq(tag, before + 1, before + Len(piece))
    BY <2>2 DEF Piece
  <2> QED
    BY <2>3, <2>4, <2>5 DEF piece
<1> HIDE DEF rest
<1> QED
  BY <1>2, <1>14, <1>15 DEF PartsAreTheTag, CsTag!PartsAreTheTag

(* The inductive invariant of the tags, with the parts.                    *)
LEMMA SplitPreserved ==
    ASSUME TagIInv, SplitInv, PartsAreTheTag, [CsTag!Next]_(CsTag!vars)
    PROVE  SplitInv' /\ PartsAreTheTag'
<1>1. CASE UNCHANGED CsTag!vars
  <2>1. UNCHANGED <<tag, at, i, start, depth, parts>>
    BY <1>1 DEF CsTag!vars
  <2> QED
    BY <2>1 DEF SplitInv, PartsAreTheTag, CsTag!PartsAreTheTag
<1>2. ASSUME NEW chunk \in Chunks, CsTag!Write(chunk)
      PROVE  SplitInv' /\ PartsAreTheTag'
  <2>1. at' = "write"
    BY <1>2 DEF CsTag!Write
  <2> QED
    BY <1>2, <2>1, SplitWritten DEF PartsAreTheTag, CsTag!PartsAreTheTag
<1>3. CASE CsTag!Read
  <2>1. at = "write" /\ at' = "scan" /\ UNCHANGED <<tag, i, start, depth, parts>>
    BY <1>3 DEF CsTag!Read
  <2> QED
    BY <2>1 DEF SplitInv, PartsAreTheTag, CsTag!PartsAreTheTag
<1>4. CASE CsTag!Scan
  <2>1. at' = "scan"
    BY <1>4 DEF CsTag!Scan
  <2> QED
    BY <1>4, <2>1, SplitScan DEF PartsAreTheTag, CsTag!PartsAreTheTag
<1>5. CASE CsTag!Scanned
  <2>1. at' = "column"
    BY <1>5 DEF CsTag!Scanned
  <2> QED
    BY <1>5, <2>1, SplitScanned DEF SplitInv
<1>6. CASE CsTag!MakeColumn
  <2>1. at' = "done"
    BY <1>6 DEF CsTag!MakeColumn
  <2> QED
    BY <2>1 DEF SplitInv, PartsAreTheTag, CsTag!PartsAreTheTag
<1> QED
  BY <1>1, <1>2, <1>3, <1>4, <1>5, <1>6 DEF CsTag!Next

(* An empty tag has no pieces yet.                                         *)
LEMMA SplitInit ==
    ASSUME CsTag!Init
    PROVE  SplitInv /\ PartsAreTheTag
<1>1. tag = <<>> /\ at = "write" /\ i = 1 /\ start = 1 /\ depth = 0 /\ parts = <<>>
  BY DEF CsTag!Init
<1>2. depth = CsTag!Depth(tag, i - 1)
  BY <1>1, DepthNext
<1>3. SplitsTo(tag, i - 1) = {}
  BY <1>1 DEF SplitsTo, CsTag!Cuts
<1> QED
  BY <1>1, <1>2, <1>3, FS_EmptySet DEF SplitInv, PartsAreTheTag, CsTag!PartsAreTheTag

-----------------------------------------------------------------------------
(* The three together.                                                     *)

LEMMA InitIInv == NewClientInit => IInv
BY CreationInit, SchemaInit, TagInit, SplitInit DEF NewClientInit, IInv

LEMMA IInvPreserved == IInv /\ [NewClientNext]_allVars => IInv'
<1> SUFFICES ASSUME IInv, [NewClientNext]_allVars
             PROVE  IInv'
  OBVIOUS
<1>1. UNCHANGED optionVars => UNCHANGED Creation!vars
  BY DEF optionVars, Creation!vars
<1>2. UNCHANGED tagVars => UNCHANGED CsTag!vars
  BY DEF tagVars, CsTag!vars
<1>3. [Next]_vars /\ [CsTag!Next]_(CsTag!vars) /\ [Creation!Next]_(Creation!vars)
  BY <1>1, <1>2 DEF NewClientNext, Tagging, Building, Creating, allVars
<1> QED
  BY <1>3, CreationPreserved, SchemaPreserved, TagPreserved, SplitPreserved DEF IInv

(* Every behaviour of client creation keeps the inductive invariant: what  *)
(* WithCredentials and WithKeyset set last is what is sent, builders and   *)
(* schemas point to each other, up to the first comma splitTagParts reads  *)
(* what strings.Split does, and its parts so far lie between the commas    *)
(* outside of parentheses.                                                 *)
THEOREM Invariance == NewClientSpec => []IInv
BY InitIInv, IInvPreserved, PTL DEF NewClientSpec

(* NewClient's config holds a column exactly where the last schema of its  *)
(* table defines it, with the cast and the indexes it was given: for any   *)
(* tables, columns, builders and order of calls.                           *)
THEOREM ColumnsResolve == NewClientSpec => []RefsResolve
BY Invariance, PTL DEF IInv, SchemaIInv

(* A ste_vec column without the json cast was made after a Done or by a    *)
(* cast= of the tag's own, and no client is made with one: for any         *)
(* schemas, tags and order of calls.                                       *)
THEOREM RefusalsHaveCause == NewClientSpec => []RejectedForCause
BY Invariance, PTL DEF IInv, SchemaIInv

(* TableSchema and analyzeStruct agree on the column of every tag whose    *)
(* name holds no parenthesis, however long it is.                          *)
THEOREM TagReaders == NewClientSpec => []ReadersAgree
<1>1. IInv => ReadersAgree
  BY AgreesByIInv DEF IInv
<1> QED
  BY <1>1, Invariance, PTL

(* splitTagParts cuts a tag of any length at the commas outside of         *)
(* parentheses and nowhere else, loses nothing but those commas, and       *)
(* leaves the parentheses of a directive together.                         *)
THEOREM TagSplit == NewClientSpec => []PartsAreTheTag
BY Invariance, PTL DEF IInv

(* However many options there are, the client uses the credentials of the  *)
(* last call that gave some, a key pair that is whole, the caller's if     *)
(* there is one, and a keyset that was named and not taken back since: the *)
(* default keyset only if there is none.                                   *)
THEOREM OptionsHeeded == NewClientSpec => []ClientAsAsked
<1>1. IInv => ClientAsAsked
  BY AskedByIInv DEF IInv
<1> QED
  BY <1>1, Invariance, PTL

=============================================================================
