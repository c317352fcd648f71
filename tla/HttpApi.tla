------------------------------- MODULE HttpApi -------------------------------
(***************************************************************************)
(* One request to each of Google's HTTP interfaces: the auth endpoint      *)
(* (auth/gpsoauth.go), the Nova API (nova/nova.go), the Spot API           *)
(* (spot/spot.go) and the saved lists (maps/savedplaces), with what their  *)
(* errors show of a body (internal/httpbody).                              *)
(*                                                                         *)
(* A body is a sequence of pieces of text: keys of form fields with their  *)
(* "=", separators, escapes, ";", and other text, some of it secret.  What *)
(* arrives is a record:                                                    *)
(*   token    whether the token source yields a token                      *)
(*   reached  whether an answer comes before the client's time is up       *)
(*   status, body, complete (is the whole body read)                       *)
(*   framed   what grpc.Unwrap makes of the body: whether it is a frame    *)
(*   decodes  whether what is in it is a message, for Nova and Spot, or    *)
(*            JSON, for the lists                                          *)
(***************************************************************************)
EXTENDS Integers, Sequences, FiniteSetsExt, SequencesExt

CONSTANTS
    MaxLen,                \* the pieces Truncate keeps; 200 bytes in the code
    Secrets,               \* the values that must not be shown
    Escapes,               \* what each escaped piece of a form stands for
    BadEscapes             \* pieces that begin with "%" and are no escapes

-----------------------------------------------------------------------------
(* internal/httpbody *)

SensitiveKeys ==
    {"Token=", "Auth=", "Email=", "SID=", "HSID=", "SSID=", "SAPISID=", "oauth_token=",
     "EncryptedPasswd="}

\* Mutated form: fields are separated as in a query.
QuerySeparators == {"&"}

FieldSeparators == {"&", "\n", "\r", " ", "\t"}

Truncate(s) == IF Len(s) <= MaxLen THEN s ELSE SubSeq(s, 1, MaxLen) \o <<"...">>

\* Where the field of a piece begins.
FieldStart(s, seps, i) == Max({0} \cup {j \in 1..(i - 1) : s[j] \in seps}) + 1

\* The value of a field whose key is sensitive becomes "***".
Redact(s) ==
    [i \in DOMAIN s |->
        LET start == FieldStart(s, FieldSeparators, i)
        IN  IF s[i] \notin FieldSeparators /\ i > start /\ s[start] \in SensitiveKeys
              THEN "***" ELSE s[i]]

Safe(s) == Redact(Truncate(s))

-----------------------------------------------------------------------------
(* Requests *)

Ok(v)           == [err |-> "none", value |-> v, shown |-> <<>>]
Fails(e)        == [err |-> e, value |-> <<>>, shown |-> <<>>]
Shows(e, body)  == [err |-> e, value |-> <<>>, shown |-> Safe(body)]

\* Mutated form: any answer with a body is taken.
AnyStatus(status) == status # 204

StatusOK(status) == status = 200

\* postAuthForm, and the request of the Nova and of the Spot client: the body
\* of an answer that says OK.  The auth endpoint takes no token.
Request(answer, authenticated) ==
    IF authenticated /\ ~answer.token THEN Fails("token")
    ELSE IF ~answer.reached THEN Fails("request")
    ELSE IF ~answer.complete THEN Fails("read")
    ELSE IF ~StatusOK(answer.status) THEN Shows("status", answer.body)
    ELSE Ok(answer.body)

Unescape(p) == IF p \in DOMAIN Escapes THEN Escapes[p] ELSE p

Unescaped(s) == [i \in DOMAIN s |-> Unescape(s[i])]

\* The value of the first field with that key, empty when there is none: the
\* fields are told apart in the body and read in the text.
FieldIn(body, text, key) ==
    LET seps   == {"&", "\n"}
        fields == {i \in DOMAIN body : text[i] = key /\ FieldStart(body, seps, i) = i}
        first  == Min(fields)
        end    == Min({Len(body) + 1} \cup {j \in first..Len(body) : body[j] \in seps})
    IN  IF fields = {} THEN <<>> ELSE SubSeq(text, first + 1, end - 1)

\* Mutated forms: a body is never unescaped, or before its fields are told apart.
FieldAsSent(body, key)         == FieldIn(body, body, key)
FieldUnescapedFirst(body, key) == FieldIn(Unescaped(body), Unescaped(body), key)

\* What url.ParseQuery and Get make of a body once its line ends are "&".
Field(body, key) == FieldIn(body, Unescaped(body), key)

\* What url.ParseQuery refuses: a semicolon, or else a bad escape, which its
\* error quotes.
ParseQuery(body) ==
    LET bad == {i \in DOMAIN body : body[i] \in BadEscapes}
    IN  IF \E i \in DOMAIN body : body[i] = ";" THEN Fails("parse")
        ELSE IF bad # {} THEN [Fails("parse") EXCEPT !.shown = <<body[Min(bad)]>>]
        ELSE Ok(body)

\* requestScopeToken, with key "Auth=", and exchangeOAuthToken, with "Token=".
RequestToken(answer, key) ==
    LET sent == Request(answer, FALSE)
    IN  IF sent.err # "none" THEN sent
        ELSE IF ParseQuery(sent.value).err # "none" THEN ParseQuery(sent.value)
        ELSE IF Field(sent.value, key) = <<>> THEN Shows("no token", answer.body)
        ELSE Ok(Field(sent.value, key))

\* exchangeOAuthToken also returns the email that comes with the token.
ExchangeOAuthToken(answer) ==
    LET token == RequestToken(answer, "Token=")
    IN  [token |-> token,
         email |-> IF token.err = "none" THEN Field(answer.body, "Email=") ELSE <<>>]

\* ListDevices and Locate of the Nova client
NovaRequest(answer) ==
    LET sent == Request(answer, TRUE)
    IN  IF sent.err = "none" /\ ~answer.decodes THEN Fails("unmarshal") ELSE sent

\* GetEidInfoForE2eeDevices
SpotRequest(answer) ==
    LET sent == Request(answer, TRUE)
    IN  IF sent.err # "none" THEN sent
        ELSE IF ~answer.framed THEN Fails("unwrap")
        ELSE IF ~answer.decodes THEN Fails("unmarshal") ELSE sent

\* fetchListViaHTTP: any status of the 200s will do, and is looked at before
\* the body is read.
ListRequest(answer) ==
    IF ~answer.reached THEN Fails("request")
    ELSE IF answer.status \notin 200..299 THEN Fails("status")
    ELSE IF ~answer.complete THEN Fails("read")
    ELSE IF ~answer.decodes THEN Shows("parse", answer.body)
    ELSE Ok(answer.body)

-----------------------------------------------------------------------------
(* Devices *)

\* Mutated form: a phone's own identifiers are overlooked.
OwnIDs(device) == device.ids

\* An Android device has its identifiers in the phone's information.
DeviceIDs(device) == IF device.android THEN device.phoneIDs ELSE device.ids

\* CanonicIDs
CanonicIDs(devices) ==
    FlattenSeq([d \in DOMAIN devices |->
                  LET ids == DeviceIDs(devices[d])
                  IN  [i \in DOMAIN ids |-> [name |-> devices[d].name, id |-> ids[i]]]])

-----------------------------------------------------------------------------
(* Properties *)

Results(answer) ==
    {ExchangeOAuthToken(answer).token, RequestToken(answer, "Auth="), NovaRequest(answer),
     SpotRequest(answer), ListRequest(answer)}

\* Every secret is part of the value of a field whose key says so, and the key
\* is at the beginning of the body or after "&", a blank or a line end.
SecretsInFields(body) ==
    LET between == {"&", "\n", "\r", " ", "\t"}
    IN  \A i \in DOMAIN body : body[i] \in Secrets =>
          \E start \in 1..(i - 1) :
             /\ body[start] \in SensitiveKeys
             /\ start = 1 \/ body[start - 1] \in between
             /\ \A j \in start..i : body[j] \notin between

\* No error shows a secret of a form body, wherever the body is cut and
\* whichever way its lines are separated (the comment on sensitiveKeys: values
\* that "must never appear in errors").
ErrorsKeepSecrets(answer) ==
    SecretsInFields(answer.body) =>
        \A r \in Results(answer) : \A i \in DOMAIN r.shown : r.shown[i] \notin Secrets

\* The first field with that key has just the pieces of v as its value once they
\* are unescaped, or there is no such field and v is empty.
Says(body, key, v) ==
    LET text(i)  == IF body[i] \in DOMAIN Escapes THEN Escapes[body[i]] ELSE body[i]
        ends(i)  == i = Len(body) + 1 \/ body[i] \in {"&", "\n"}
        keyed    == {i \in DOMAIN body : text(i) = key /\ (i = 1 \/ ends(i - 1))}
    IN  \/ keyed = {} /\ v = <<>>
        \/ \E i \in keyed :
             /\ \A j \in keyed : i <= j
             /\ i + Len(v) <= Len(body) /\ ends(i + Len(v) + 1)
             /\ \A k \in DOMAIN v : ~ends(i + k) /\ v[k] = text(i + k)

WellFormed(body) == \A i \in DOMAIN body : body[i] \notin BadEscapes \cup {";"}

\* A token is had just when a complete, well-formed answer says OK and gives
\* one that is not empty, and it is the one given.
TokenIsSaid(answer, key, token) ==
    /\ token.err = "none" <=>
          /\ answer.reached /\ answer.complete /\ answer.status = 200
          /\ WellFormed(answer.body) /\ ~Says(answer.body, key, <<>>)
    /\ token.err = "none" => Says(answer.body, key, token.value)

\* A body is had just when it is complete and what it should be, and whole.
BodyIsWhole(answer, result, good) ==
    /\ result.err = "none" <=> answer.reached /\ answer.complete /\ answer.decodes /\ good
    /\ result.err = "none" => result.value = answer.body

\* Every request succeeds on each answer it should, and on no other, and its
\* result is what the answer says.
ResultsAreAnswers(answer) ==
    LET exchange == ExchangeOAuthToken(answer)
        ok       == answer.token /\ answer.status = 200
    IN  /\ TokenIsSaid(answer, "Token=", exchange.token)
        /\ exchange.token.err = "none" => Says(answer.body, "Email=", exchange.email)
        /\ TokenIsSaid(answer, "Auth=", RequestToken(answer, "Auth="))
        /\ BodyIsWhole(answer, NovaRequest(answer), ok)
        /\ BodyIsWhole(answer, SpotRequest(answer), ok /\ answer.framed)
        /\ BodyIsWhole(answer, ListRequest(answer), answer.status \in 200..299)

\* Each device's identifiers are listed under its name, in order, and nothing
\* else is (CanonicIDs).
DevicesListed(devices) ==
    LET listed == CanonicIDs(devices)
        ids(d) == IF devices[d].android THEN devices[d].phoneIDs ELSE devices[d].ids
        named(d) == {k \in DOMAIN listed : listed[k].name = devices[d].name}
    IN  IsInjective([d \in DOMAIN devices |-> devices[d].name]) =>
          /\ \A d \in DOMAIN devices : \E before \in 0..Len(listed) :
                /\ named(d) = (before + 1)..(before + Len(ids(d)))
                /\ \A i \in DOMAIN ids(d) : listed[before + i].id = ids(d)[i]
          /\ DOMAIN listed = UNION {named(d) : d \in DOMAIN devices}

=============================================================================
