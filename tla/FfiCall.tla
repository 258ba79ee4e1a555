------------------------------ MODULE FfiCall ------------------------------
(***************************************************************************)
(* One call across the C boundary, with its texts and their owners: from   *)
(* json.Marshal in protect.go over C.CString, c_str_to_string, serde and   *)
(* string_to_c_str in lib.rs back to C.GoString, newError and the two      *)
(* frees.  A caller makes one call after another about the same texts.     *)
(*                                                                         *)
(* A text is the set of marks it contains: "nul" is the character U+0000,  *)
(* "bad" a byte sequence that is not UTF-8.  Text the caller names (a      *)
(* column, a JSON path) may be quoted by an error message; raw text is     *)
(* what a MarshalJSON of the caller's puts into the options.               *)
(***************************************************************************)
EXTENDS Naturals, FiniteSets

Exports == {"NewClient", "Encrypt", "Decrypt", "IsEncrypted"}
Kinds == {"classified", "other"}   \* errors with a sentinel of their own, and the rest

None == [kind |-> "none", marks |-> {}]
Null == [kind |-> "null", marks |-> {}]
Text(kind, marks) == [kind |-> kind, marks |-> marks]

VARIABLES
    named,    \* marks in the text the caller names
    raw,      \* marks in the raw text
    eql,      \* whether the caller's value has the shape of an EqlCiphertext
    op, at,   \* the call and where it is
    optText,  \* the options as C bytes (None, or their marks)
    outcome,  \* the library's own result: None, data, or an error and what it quotes
    result,   \* CResult: success, data, error
    heap,     \* the two pointers of a call: "none" (null), who allocated what
              \* they point to, "client", "freed" (dangling), or "corrupt"
    ret,      \* what the caller gets: None, "ok", "early", or a kind of error
    answer,   \* history: IsEncrypted's last answer
    parsed    \* history: whether Decrypt's options were parsed

vars == <<named, raw, eql, op, at, optText, outcome, result, heap, ret, answer, parsed>>
caller == <<named, raw, eql>>

NoResult == [success |-> FALSE, data |-> Null, error |-> Null]

TypeOK ==
    /\ named \subseteq {"nul", "bad"} /\ raw \subseteq {"nul", "bad"} /\ eql \in BOOLEAN
    /\ op \in Exports
    /\ at \in {"idle", "marshal", "enter", "run", "wrap", "read", "return"}
    /\ optText = None \/ optText.marks \subseteq {"bad"}
    /\ result.success => result.error = Null
    /\ heap \in [{"options", "result"} -> {"none", "c", "rust", "client", "freed", "corrupt"}]
    /\ answer \in {"none", "yes", "no"} /\ parsed \in {"none", "yes", "no"}

Init ==
    /\ named \in SUBSET {"nul", "bad"}
    /\ raw \in SUBSET {"nul", "bad"}
    /\ eql \in BOOLEAN
    /\ op = "NewClient" /\ at = "idle"
    /\ optText = None /\ outcome = None /\ result = NoResult
    /\ heap = [s \in {"options", "result"} |-> "none"]
    /\ ret = None /\ answer = "none" /\ parsed = "none"

(* C.free, protect_free_string: nothing for a null pointer.  Only the side *)
(* that allocated a string may free it, and only once.                     *)
Freed(slot, by) ==
    [heap EXCEPT ![slot] = IF @ = "none" THEN "none"
                           ELSE IF @ = by THEN "freed" ELSE "corrupt"]

(* The pointers are local to a call.                                       *)
Call(o) ==
    /\ at = "idle"
    /\ op' = o
    /\ at' = "marshal"
    /\ ret' = None
    /\ heap' = [s \in {"options", "result"} |-> "none"]
    /\ UNCHANGED <<caller, optText, outcome, result, answer, parsed>>

(* json.Marshal replaces bad bytes of strings and escapes U+0000; what a   *)
(* MarshalJSON returns is only scanned, which refuses a raw U+0000 and     *)
(* lets bad bytes pass.  So C.CString never meets a NUL.                   *)
Marshal ==
    /\ at = "marshal"
    /\ \/ /\ "nul" \in raw
          /\ ret' = IF op = "IsEncrypted" THEN ret ELSE Text("early", {})
          /\ answer' = IF op = "IsEncrypted" THEN "no" ELSE answer
          /\ at' = "idle"
          /\ UNCHANGED <<optText, heap>>
       \/ /\ "nul" \notin raw
          /\ optText' = Text("json", raw)
          /\ heap' = [heap EXCEPT !["options"] = "c"]
          /\ at' = "enter"
          /\ UNCHANGED <<ret, answer>>
    /\ UNCHANGED <<caller, op, outcome, result, parsed>>

(* c_str_to_string.  (The null checks beside it have no Go caller.)        *)
ReadOptions ==
    /\ at = "enter"
    /\ op # "IsEncrypted"
    /\ \/ /\ "bad" \in optText.marks
          /\ outcome' = Text("other", {})
          /\ parsed' = IF op = "Decrypt" THEN "no" ELSE parsed
          /\ at' = "wrap"
       \/ /\ "bad" \notin optText.marks
          /\ at' = "run"
          /\ UNCHANGED <<outcome, parsed>>
    /\ UNCHANGED <<caller, op, optText, result, heap, ret, answer>>

(* protect_is_encrypted, and the deferred free.                            *)
IsEncrypted ==
    /\ at = "enter"
    /\ op = "IsEncrypted"
    /\ answer' = IF "bad" \notin optText.marks /\ eql THEN "yes" ELSE "no"
    /\ heap' = Freed("options", "c")
    /\ optText' = None
    /\ at' = "idle"
    /\ UNCHANGED <<caller, op, outcome, result, ret, parsed>>

(* serde parses the options, bringing U+0000 back, and the implementation  *)
(* runs: it yields data (or, for NewClient, the boxed client), or an error *)
(* whose message may quote the named text, its bad bytes replaced in Go.   *)
(* Decrypt's payload is an EqlCiphertext from the parse on.                *)
Run ==
    /\ at = "run"
    /\ at' = "wrap"
    /\ \/ /\ op = "Decrypt" /\ ~eql
          /\ parsed' = "no"
          /\ outcome' = Text("other", {})
       \/ /\ op = "Decrypt" => eql
          /\ parsed' = IF op = "Decrypt" THEN "yes" ELSE parsed
          /\ outcome' \in
                {Text("data", named \ {"bad"}), Text("data", {})}
                \cup {Text(k, marks) : k \in Kinds, marks \in {{}, named \ {"bad"}}}
    /\ UNCHANGED <<caller, op, optText, result, heap, ret, answer>>

(* string_to_c_str: CString::new refuses an inner NUL.                     *)
StringToCStr(kind, marks) == IF "nul" \in marks THEN Null ELSE Text(kind, marks)

(* NewClient's data is the client, which is not a string and outlives the  *)
(* call; a null string is nobody's.                                        *)
Owner(r) ==
    IF op = "NewClient" /\ r.success THEN "client"
    ELSE IF {r.data, r.error} = {Null} THEN "none" ELSE "rust"

(* Mutant: a string result is returned as it is, not as JSON.              *)
WrapPlain ==
    /\ at = "wrap"
    /\ result' = IF outcome.kind = "data"
                 THEN [success |-> TRUE, data |-> StringToCStr("data", outcome.marks), error |-> Null]
                 ELSE [success |-> FALSE, data |-> Null,
                       error |-> StringToCStr(outcome.kind, outcome.marks)]
    /\ heap' = [heap EXCEPT !["result"] = Owner(result')]
    /\ at' = "read"
    /\ UNCHANGED <<caller, op, optText, outcome, ret, answer, parsed>>

(* The CResult.  Data is JSON text, in which serde escapes U+0000; an      *)
(* error is its message as it is.                                          *)
Wrap ==
    /\ at = "wrap"
    /\ result' = IF outcome.kind = "data"
                 THEN [success |-> TRUE, data |-> StringToCStr("data", {}), error |-> Null]
                 ELSE [success |-> FALSE, data |-> Null,
                       error |-> StringToCStr(outcome.kind, outcome.marks)]
    /\ heap' = [heap EXCEPT !["result"] = Owner(result')]
    /\ at' = "read"
    /\ UNCHANGED <<caller, op, optText, outcome, ret, answer, parsed>>

(* Mutant: an error string is not freed.                                   *)
ReadResultLeaking ==
    /\ at = "read"
    /\ ret' = IF result.success THEN result.data ELSE result.error
    /\ heap' = IF result.success /\ op # "NewClient" THEN Freed("result", "rust") ELSE heap
    /\ at' = "return"
    /\ UNCHANGED <<caller, op, optText, outcome, result, answer, parsed>>

(* C.GoString copies the string ("" for null), protect_free_string drops   *)
(* it (not null), and newError looks for the sentinel in the message.      *)
ReadResult ==
    /\ at = "read"
    /\ ret' = IF result.success THEN result.data ELSE result.error
    /\ heap' = IF result.success /\ op = "NewClient" THEN heap ELSE Freed("result", "rust")
    /\ at' = "return"
    /\ UNCHANGED <<caller, op, optText, outcome, result, answer, parsed>>

(* Mutant: the result is freed once more on the way out.                   *)
ReturnFreeingResult ==
    /\ at = "return"
    /\ heap' = [Freed("result", "rust") EXCEPT !["options"] = Freed("options", "c")["options"]]
    /\ optText' = None /\ outcome' = None /\ result' = NoResult
    /\ at' = "idle"
    /\ UNCHANGED <<caller, op, ret, answer, parsed>>

(* json.Unmarshal, which may fail, and the deferred C.free.                *)
Return ==
    /\ at = "return"
    /\ \/ UNCHANGED ret
       \/ /\ result.success /\ op # "NewClient"
          /\ ret' = Text("early", {})
    /\ heap' = Freed("options", "c")
    /\ optText' = None /\ outcome' = None /\ result' = NoResult
    /\ at' = "idle"
    /\ UNCHANGED <<caller, op, answer, parsed>>

Next ==
    \/ \E o \in Exports : Call(o)
    \/ Marshal
    \/ ReadOptions
    \/ IsEncrypted
    \/ Run
    \/ Wrap
    \/ ReadResult
    \/ Return

Spec == Init /\ [][Next]_vars

-----------------------------------------------------------------------------
(* Properties.                                                             *)

(* Each string that was made is freed exactly once, by the side that       *)
(* allocated it, on every path out of a call: no string is freed a second  *)
(* time or by the other side, the client is not freed as a string, and     *)
(* nothing but the client outlives its call.  And every variable keeps its *)
(* type.                                                                   *)
StringsFreed ==
    /\ TypeOK
    /\ \A s \in DOMAIN heap : heap[s] # "corrupt"
    /\ at = "idle" => \A s \in DOMAIN heap : heap[s] \notin {"c", "rust"}

(* A call that succeeds in the library hands its data to Go whatever       *)
(* characters are in it: success never comes with a null string.           *)
SuccessHasData ==
    (at \in {"read", "return"} /\ outcome.kind = "data") =>
        result.success /\ result.data.kind = "data"

(* A failure reaches the caller as the error the library raised, so that   *)
(* errors.Is finds its sentinel; only a message that quotes a U+0000 is    *)
(* lost.                                                                   *)
ErrorsArrive ==
    (at = "return" /\ outcome.kind \in Kinds) =>
        ret = IF "nul" \in outcome.marks THEN Null ELSE outcome

(* IsEncrypted answers what Decrypt finds out: the values it accepts are   *)
(* those whose options Decrypt can parse.                                  *)
IsEncryptedAgrees ==
    (answer # "none" /\ parsed # "none") => answer = parsed

(* What the library finds reaches the caller: its data, its error, and     *)
(* its answer to IsEncrypted.                                              *)
OutcomeArrives == SuccessHasData /\ ErrorsArrive /\ IsEncryptedAgrees
=============================================================================
