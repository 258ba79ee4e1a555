------------------------------ MODULE MCCalls ------------------------------
(* Calls for TLC: the texts of one caller's calls (FfiCall), and the       *)
(* operations under one context (Cancellation).  Neither has to do with    *)
(* the other, so a behaviour is one of either and leaves the other alone.  *)
EXTENDS Cancellation, TLC

CONSTANTS o1, o2, o3

VARIABLES
    subject,   \* "texts" or "context"
    named, raw, eql, op, place, optText, outcome, libResult, heap, ret, answer, parsed

ffiVars == <<named, raw, eql, op, place, optText, outcome, libResult, heap, ret,
             answer, parsed>>
allVars == <<subject, vars, ffiVars>>

Ffi == INSTANCE FfiCall WITH at <- place, result <- libResult

MCOps == {o1, o2, o3}
Symmetry == Permutations(MCOps)

CallsInit ==
    /\ Init
    /\ Ffi!Init
    /\ \/ subject = "texts"
       \/ subject = "context" /\ named = {} /\ raw = {} /\ eql

Texts ==
    /\ subject = "texts"
    /\ Ffi!Next
    /\ UNCHANGED <<subject, vars>>

Context ==
    /\ subject = "context"
    /\ Next
    /\ UNCHANGED <<subject, ffiVars>>

CallsNext == Texts \/ Context

CallsSpec == CallsInit /\ [][CallsNext]_allVars

-----------------------------------------------------------------------------
(* The properties of FfiCall.                                              *)

(* Each string is freed exactly once, by the side that allocated it.       *)
StringsFreed == Ffi!StringsFreed

(* Data crosses the boundary whatever characters are in it, an error       *)
(* unless its message quotes a U+0000, and IsEncrypted accepts what        *)
(* Decrypt can parse.                                                      *)
OutcomeArrives == Ffi!OutcomeArrives
=============================================================================
