----------------------------- MODULE StoredForms -----------------------------
(***************************************************************************)
(* The parts of secrets.json that come in more than one form, because the  *)
(* Python tools and earlier versions of this library wrote them too: the   *)
(* Maps cookies (maps/savedplaces/cookies.go), the numbers and the token   *)
(* of the push credentials (fcm/register.go).                              *)
(*                                                                         *)
(* JSON is a record with its kind; a string may hold JSON again (inner) or *)
(* the decimal digits of a number (n, or NaN when it does not).            *)
(***************************************************************************)
EXTENDS Integers

CONSTANTS
    MaxUint,      \* the largest number of 64 bits
    NaN

-----------------------------------------------------------------------------
(* LoadMapsCookies: a map of strings, null (a map without entries), or      *)
(* either of them in a string, the legacy form.                             *)

AsMap(json) == IF json.kind = "map" THEN json.cookies ELSE {}

IsMap(json) == json.kind \in {"map", "null"}

LoadMapsCookies(readable, stored) ==
    LET fails(e) == [err |-> e, cookies |-> {}]
        ok(json) == [err |-> "none", cookies |-> AsMap(json)]
    IN  IF ~readable THEN fails("load")
        ELSE IF stored.kind = "absent" THEN fails("not found")
        ELSE IF IsMap(stored) THEN ok(stored)
        ELSE IF stored.kind # "string" THEN fails("parse")
        ELSE IF IsMap(stored.inner) THEN ok(stored.inner)
        ELSE fails("legacy")

-----------------------------------------------------------------------------
(* flexUint64 *)

\* Mutated form: the sign bit is not one of the 64.
IsInt(n) == n # NaN /\ n >= 0 /\ 2 * n <= MaxUint

IsUint(n) == n # NaN /\ n >= 0 /\ n <= MaxUint

\* UnmarshalJSON: null leaves the zero; a fraction is NaN.
FlexUint64(json) ==
    CASE json.kind = "null" -> [err |-> "none", n |-> 0]
      [] json.kind \in {"number", "string"} ->
           IF IsUint(json.n) THEN [err |-> "none", n |-> json.n] ELSE [err |-> "parse", n |-> 0]
      [] OTHER -> [err |-> "parse", n |-> 0]

\* How the Go and the Python tools write a number: External for the latter.
GoNumber(n)     == [kind |-> "number", n |-> n]
PythonNumber(n) == [kind |-> "string", n |-> n, inner |-> [kind |-> "number", n |-> n]]

-----------------------------------------------------------------------------
(* RegistrationToken: fcm is an object that may have the nested token of    *)
(* the present form and the flat one of earlier versions, "" when missing.  *)

\* Mutated form: the nested token is taken even when it is empty.
NestedOnly(fcm) ==
    IF fcm.kind = "object" THEN fcm.nested ELSE ""

RegistrationToken(fcm) ==
    IF fcm.kind # "object" THEN ""
    ELSE IF fcm.nested # "" THEN fcm.nested ELSE fcm.flat

-----------------------------------------------------------------------------
(* Properties *)

\* What a sign-in stored is loaded as it was, and so is what the older form
\* wrapped in a string (LoadMapsCookies); nothing else is taken for cookies.
CookiesLoaded(stored, cookies) ==
    LET loaded == LoadMapsCookies(TRUE, stored)
    IN  IF stored \in {[kind |-> "map", cookies |-> cookies],
                       [kind |-> "string", inner |-> [kind |-> "map", cookies |-> cookies]]}
          THEN loaded = [err |-> "none", cookies |-> cookies]
          ELSE loaded.cookies = {}

\* A number of 64 bits is read back from either tool's file; one that does not
\* fit is refused and never another (the comment on flexUint64).
NumberRead(n) ==
    \A json \in {GoNumber(n), PythonNumber(n)} :
        FlexUint64(json) = IF n # NaN /\ n \in 0..MaxUint THEN [err |-> "none", n |-> n]
                           ELSE [err |-> "parse", n |-> 0]

\* A token is found in either form, and with both in one file the one of the
\* present form counts (RegistrationToken).
TokenFound(nested, flat) ==
    LET file(x, y) == [kind |-> "object", nested |-> x, flat |-> y]
    IN  /\ RegistrationToken(file(nested, flat)) = "" <=> nested = "" /\ flat = ""
        /\ nested # "" => RegistrationToken(file(nested, flat)) = nested
        /\ RegistrationToken(file(nested, "")) = nested
        /\ RegistrationToken(file("", flat)) = flat

=============================================================================
