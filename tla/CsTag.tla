------------------------------- MODULE CsTag -------------------------------
(***************************************************************************)
(* The cs tag of one struct field, read twice: by TableSchema (schema.go:  *)
(* splitTagParts, parseColumn, extractParams, parseUniqueOpts), which      *)
(* makes the column, and by analyzeStruct (model.go), which decides        *)
(* whether EncryptModel encrypts the field and as which column.            *)
(*                                                                         *)
(* A tag is a sequence of tokens: words, "-", "(", ")" and ",".  The words *)
(* "cast=" and "token_filter=" end in their equals sign.                   *)
(***************************************************************************)
EXTENDS Integers, FiniteSets, Sequences, SequencesExt

CONSTANTS
    Chunks,     \* the pieces of which tags are written, sequences of tokens
    MaxChunks   \* at most so many of them

VARIABLES
    chunks,      \* how many pieces have been written
    tag,
    at,          \* "write", "scan", "column", "done"
    i, start, depth,  \* splitTagParts' loop
    parts,       \* what it found
    column,      \* what parseColumn makes of the directives, or NoColumn
    modelField   \* analyzeStruct's column name; <<>> for a plain field

vars == <<chunks, tag, at, i, start, depth, parts, column, modelField>>

Comma == ","
Open == "("
Close == ")"
Dash == <<"-">>

Tokens == UNION {Range(c) : c \in Chunks}

NoColumn == [name |-> <<>>, cast |-> <<>>, unique |-> FALSE, downcase |-> FALSE]

TypeOK ==
    /\ chunks \in 0..MaxChunks
    /\ tag \in Seq(Tokens)
    /\ at \in {"write", "scan", "column", "done"}
    /\ i \in 1..Len(tag) + 1 /\ start \in 1..i
    /\ depth \in -Len(tag)..Len(tag)
    /\ parts \in Seq(Seq(Tokens))
    /\ column.name # <<>> => column.name = parts[1]
    /\ column.downcase => column.unique
    /\ modelField \in Seq(Tokens)

(* Where strings.Split cuts: at the first comma, or behind the last token. *)
FirstComma(t) ==
    LET commas == {k \in DOMAIN t : t[k] = Comma}
    IN  IF commas = {} THEN Len(t) + 1 ELSE CHOOSE k \in commas : \A c \in commas : k <= c

(* strings.Split(csTag, ",")[0]                                            *)
BeforeComma(t) == SubSeq(t, 1, FirstComma(t) - 1)

(* Mutant: "-" before directives is a name like any other.                 *)
AnalyzeDash(t) == IF t = Dash THEN <<>> ELSE BeforeComma(t)

(* analyzeStruct; an empty result makes the field a plain one.             *)
Analyze(t) == IF BeforeComma(t) = Dash THEN <<>> ELSE BeforeComma(t)

Init ==
    /\ chunks = 0 /\ tag = <<>>
    /\ at = "write"
    /\ i = 1 /\ start = 1 /\ depth = 0
    /\ parts = <<>>
    /\ column = NoColumn
    /\ modelField = <<>>

(* The author of the struct writes the tag.                                *)
Write(chunk) ==
    /\ at = "write"
    /\ chunks < MaxChunks
    /\ chunks' = chunks + 1
    /\ tag' = tag \o chunk
    /\ UNCHANGED <<at, i, start, depth, parts, column, modelField>>

(* Both readers are given it.                                              *)
Read ==
    /\ at = "write"
    /\ at' = "scan"
    /\ modelField' = Analyze(tag)
    /\ UNCHANGED <<chunks, tag, i, start, depth, parts, column>>

(* Mutant: parentheses do not protect commas.                              *)
SplitAt(k) == tag[k] = Comma

IsSplit(k) == tag[k] = Comma /\ depth = 0

AfterComma(k) == k + 1

(* splitTagParts, one token.                                               *)
Scan ==
    /\ at = "scan"
    /\ i <= Len(tag)
    /\ depth' = CASE tag[i] = Open -> depth + 1
                  [] tag[i] = Close -> depth - 1
                  [] OTHER -> depth
    /\ parts' = IF IsSplit(i) THEN Append(parts, SubSeq(tag, start, i - 1)) ELSE parts
    /\ start' = IF IsSplit(i) THEN AfterComma(i) ELSE start
    /\ i' = i + 1
    /\ UNCHANGED <<chunks, tag, at, column, modelField>>

(* What is left is the last part, unless the tag ends in a comma.          *)
Scanned ==
    /\ at = "scan"
    /\ i > Len(tag)
    /\ parts' = IF start <= Len(tag) THEN Append(parts, SubSeq(tag, start, Len(tag))) ELSE parts
    /\ at' = "column"
    /\ UNCHANGED <<chunks, tag, i, start, depth, column, modelField>>

(* extractParams, for a directive that is not a cast.                      *)
ExtractParams(d) ==
    LET opens == {k \in DOMAIN d : d[k] = Open}
        first == CHOOSE k \in opens : \A o \in opens : k <= o
        rest == SubSeq(d, first + 1, Len(d))
    IN  IF opens = {} THEN [name |-> d, params |-> <<>>]
        ELSE [name |-> SubSeq(d, 1, first - 1),
              params |-> IF rest # <<>> /\ Last(rest) = Close THEN Front(rest) ELSE rest]

(* parseKeyValues: the value of the last token_filter= in the parameters.  *)
TokenFilter(params) ==
    LET opens == {k \in DOMAIN params : /\ params[k] = "token_filter="
                                        /\ (k = 1 \/ params[k - 1] = Comma)}
        last == CHOOSE k \in opens : \A o \in opens : o <= k
    IN  IF opens = {} THEN <<>> ELSE BeforeComma(SubSeq(params, last + 1, Len(params)))

(* parseUniqueOpts                                                         *)
Downcase(params) == params = <<"downcase">> \/ TokenFilter(params) = <<"downcase">>

(* The directives that matter here; parseColumn handles match, ore and     *)
(* ste_vec like unique, and ignores what it does not know.                 *)
IsCast(d) == d # <<>> /\ d[1] = "cast="
IsUnique(d) == ~IsCast(d) /\ ExtractParams(d).name = <<"unique">>

(* Of directives of one kind the last one counts.                          *)
ParseColumn(name, directives) ==
    LET casts == {k \in DOMAIN directives : IsCast(directives[k])}
        uniques == {k \in DOMAIN directives : IsUnique(directives[k])}
        LastOf(places) == CHOOSE k \in places : \A p \in places : p <= k
    IN  [name |-> name,
         cast |-> IF casts = {} THEN <<>> ELSE directives[LastOf(casts)],
         unique |-> uniques # {},
         downcase |-> /\ uniques # {}
                      /\ Downcase(ExtractParams(directives[LastOf(uniques)]).params)]

(* TableSchema skips a field whose name is empty or "-".                   *)
MakeColumn ==
    /\ at = "column"
    /\ column' = IF parts = <<>> \/ parts[1] \in {<<>>, Dash} THEN NoColumn
                 ELSE ParseColumn(parts[1], Tail(parts))
    /\ at' = "done"
    /\ UNCHANGED <<chunks, tag, i, start, depth, parts, modelField>>

Next == (\E chunk \in Chunks : Write(chunk)) \/ Read \/ Scan \/ Scanned \/ MakeColumn

Spec == Init /\ [][Next]_vars

-----------------------------------------------------------------------------
(* Properties.                                                             *)

(* How deep in parentheses the k-th token leaves a tag, and the commas     *)
(* outside of them.                                                        *)
Count(t, token, k) == Cardinality({j \in 1..k : t[j] = token})
Depth(t, k) == Count(t, Open, k) - Count(t, Close, k)
Cuts(t) == {k \in DOMAIN t : t[k] = Comma /\ Depth(t, k) = 0}

Balanced(t) ==
    /\ Depth(t, Len(t)) = 0
    /\ \A k \in DOMAIN t : Depth(t, k) >= 0

(* The parts of a tag are what the commas outside of parentheses leave of  *)
(* it, each in its place and complete, whether the parentheses match or    *)
(* not; but for an empty part at its end.  And the parameters of a         *)
(* directive stay together: if the parentheses of the tag match, those of  *)
(* each part do.                                                           *)
PartsAreTheTag ==
    at = "column" =>
        /\ Len(parts) = Cardinality(Cuts(tag) \cup ({Len(tag)} \ {0}))
        /\ \A p \in DOMAIN parts : \E before \in 0..Len(tag) - Len(parts[p]) :
              /\ parts[p] = SubSeq(tag, before + 1, before + Len(parts[p]))
              /\ before + 1..before + Len(parts[p]) =
                    {k \in DOMAIN tag \ Cuts(tag) :
                        Cardinality({c \in Cuts(tag) : c < k}) = p - 1}
        /\ Balanced(tag) => \A p \in DOMAIN parts : Balanced(parts[p])

(* The two readers of a tag agree, unless it has a parenthesis in its      *)
(* name: a field that EncryptModel encrypts has the column it asks the     *)
(* schema for, and a column has a field that fills it.  And every variable *)
(* keeps its type.                                                         *)
ReadersAgree ==
    /\ TypeOK
    /\ (at = "done" /\ ~Contains(BeforeComma(tag), Open) /\ ~Contains(BeforeComma(tag), Close)) =>
        modelField = column.name
=============================================================================
