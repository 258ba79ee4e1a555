------------------------------ MODULE MCModels ------------------------------
(* Models for TLC: which field's value goes where (ModelDecrypt), and what *)
(* becomes of the value of one field on its way (Conversions).  The first  *)
(* does not look into values, so a behaviour is one of either.             *)
EXTENDS ModelDecrypt

CONSTANTS
    email, age,                               \* keys
    Precision, Bits, SmallBits, Scale, Limit  \* of Conversions

VARIABLES
    subject,   \* "models" or "values"
    type, cast, inferred, value, field, unset, place, variant, number, plaintext,
    first, trip

valueVars == <<type, cast, inferred, value, field, unset, place, variant, number,
               plaintext, first, trip>>
allVars == <<subject, vars, valueVars>>

Conv == INSTANCE Conversions WITH stage <- place, json <- number

(* A narrow int is exact as a float64, an int64 is not by two bits at      *)
(* least; the code's widths are 53, 64 and at most 32 bits.                *)
ASSUME WidthsAssumption ==
    /\ Precision \in Nat /\ Bits \in Nat /\ Precision + 1 < Bits
    /\ SmallBits \in 1..Precision
    /\ Scale \in Nat /\ \E e \in 0..Scale : Scale = Conv!Pow2[e]
    /\ Limit \in Nat

MCKeys == {email, age}

(* The structs share keys among their fields, of one type or of two, of    *)
(* which one is not in the schema.                                         *)
MCField(enc, key, known, ptr, base) ==
    [enc |-> enc, key |-> key, known |-> known, ptr |-> ptr, base |-> base]

MCFields == {
    MCField(TRUE, email, TRUE, TRUE, "string"),
    MCField(TRUE, age, TRUE, FALSE, "number"),
    MCField(TRUE, age, FALSE, TRUE, "number"),
    MCField(FALSE, email, TRUE, TRUE, "string"),
    MCField(FALSE, email, TRUE, FALSE, "number"),
    MCField(FALSE, age, TRUE, TRUE, "number")}

(* The one that stands still does so in some initial state.                *)
ModelsInit ==
    /\ \/ subject = "models" /\ type = "bool" /\ cast = "boolean" /\ inferred = FALSE
       \/ subject = "values" /\ fields = <<MCField(TRUE, email, TRUE, TRUE, "string")>>
          /\ models = <<>>
    /\ Conv!Init
    /\ DecryptInit

Models ==
    /\ subject = "models"
    /\ Next
    /\ UNCHANGED <<subject, valueVars>>

Values ==
    /\ subject = "values"
    /\ Conv!Next
    /\ UNCHANGED <<subject, vars>>

ModelsNext == Models \/ Values

ModelsSpec == ModelsInit /\ [][ModelsNext]_allVars

-----------------------------------------------------------------------------
(* The properties of Conversions.                                          *)

(* What a float64 can hold comes back as it was, the rest as near to it as *)
(* a float64 can be.                                                       *)
Exact == Conv!Exact

(* A field that was read and is written again encrypts the same plaintext. *)
NoDrift == Conv!NoDrift

(* Two values of a field never change places among the plaintexts.         *)
OrderPreserved == Conv!OrderPreserved

(* The doc comment of DecryptModel: "the resulting plaintext is set on the *)
(* field".                                                                 *)
PlaintextIsSet == Conv!PlaintextIsSet
=============================================================================
