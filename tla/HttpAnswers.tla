----------------------------- MODULE HttpAnswers -----------------------------
(***************************************************************************)
(* The requests of HttpApi, on given answers, and the device lists that    *)
(* some of them bring.                                                     *)
(***************************************************************************)
EXTENDS Integers, Sequences, Inputs

CONSTANTS
    MaxLen, SecretTexts, Escapes, BadEscapes,   \* of HttpApi
    Answers,        \* every way a request may go
    DeviceLists

H == INSTANCE HttpApi WITH Secrets <- SecretTexts

ASSUME AnswersAssumption ==
    /\ MaxLen \in Nat
    /\ SecretTexts \cap (H!FieldSeparators \cup BadEscapes \cup {"***", "..."}) = {}
    /\ DOMAIN Escapes \cap (H!FieldSeparators \cup BadEscapes) = {}
    /\ \A a \in Answers :
          /\ {a.token, a.reached, a.complete, a.framed, a.decodes} \subseteq BOOLEAN
          /\ a.status \in Nat /\ IsSeq(a.body)
    /\ \A devices \in DeviceLists :
          /\ IsSeq(devices)
          /\ \A d \in DOMAIN devices : /\ devices[d].android \in BOOLEAN
                                       /\ IsSeq(devices[d].ids) /\ IsSeq(devices[d].phoneIDs)

PickAnswer == Picks("answer") /\ input' \in Answers

PickDevices == Picks("devices") /\ input' \in DeviceLists

PickResponse == PickAnswer \/ PickDevices

AnswersSpec == NothingPicked /\ [][PickResponse]_<<subject, input>>

-----------------------------------------------------------------------------
(* Properties *)

\* An answer that is good becomes a result, and the result is what it says, a
\* token as the text its escapes stand for; any other becomes an error that
\* keeps secrets.  Of a list of devices every identifier is told (postAuthForm,
\* url.ParseQuery, the requests of nova, spot and savedplaces, httpbody.Safe,
\* CanonicIDs).
AnswersTold ==
    /\ subject = "answer" => H!ErrorsKeepSecrets(input) /\ H!ResultsAreAnswers(input)
    /\ subject = "devices" => H!DevicesListed(input)

=============================================================================
