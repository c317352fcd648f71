----------------------------- MODULE JsonValues -----------------------------
(***************************************************************************)
(* The values encoding/json makes of an answer of Google Maps, and the     *)
(* type assertions the parsers of maps/ make on them: an assertion that    *)
(* fails leaves the zero value.  Indices are the code's, from 0.           *)
(***************************************************************************)
EXTENDS Integers, Sequences

Null          == [kind |-> "null"]
Array(items)  == [kind |-> "array", items |-> items]
Number(v)     == [kind |-> "number", v |-> v, whole |-> TRUE]
Fraction(v)   == [kind |-> "number", v |-> v, whole |-> FALSE]

IsArray(v)  == v.kind = "array"
IsString(v) == v.kind = "string"

Items(v) == IF IsArray(v) THEN v.items ELSE <<>>
Text(v)  == IF IsString(v) THEN v.text ELSE ""
Value(v) == IF v.kind = "number" THEN v.v ELSE 0

\* An index past the end, which the code guards by a length, yields no value.
At(items, i) == IF i < Len(items) THEN items[i + 1] ELSE Null

-----------------------------------------------------------------------------
(* What the loops of the parsers do *)

\* Those elements of s, in order, whose indices are among the given ones.
Kept(s, indices) ==
    LET kept[n \in 0..Len(s)] ==
          IF n = 0 THEN <<>>
          ELSE IF n \in indices THEN Append(kept[n - 1], s[n]) ELSE kept[n - 1]
    IN  kept[Len(s)]

\* The first of some texts that is not empty.
FirstText(texts) ==
    LET found == {i \in DOMAIN texts : texts[i] # ""}
    IN  IF found = {} THEN "" ELSE texts[CHOOSE i \in found : \A j \in found : i <= j]

=============================================================================
