------------------------------ MODULE Parsers ------------------------------
(***************************************************************************)
(* SavedPlaces and MapsContacts on what is pasted, on the links of a page, *)
(* and on answers of Google Maps.  What the errors of a request show of a  *)
(* body is in HttpAnswers; bodies are no text here.                        *)
(***************************************************************************)
EXTENDS Integers, Sequences, Inputs

CONSTANTS
    Scalars, Nesting, Milliseconds,   \* of SavedPlaces and MapsContacts
    Columns,                       \* what stands between the tabs of a line
    Pasted,                        \* lines
    Links,                         \* the links of a page
    ListAnswers,                   \* what answers for a list decode to
    Fetches,                       \* specs, and how their requests go
    ContactAnswers,                \* what answers with contacts decode to
    Times,                         \* seconds, with a rest of milliseconds
    Bodies                         \* behind the prefix

S == INSTANCE SavedPlaces WITH MaxLen <- 0, Secrets <- {}, Escapes <- <<>>, BadEscapes <- {}
C == INSTANCE MapsContacts

\* A string has some text unless its length is 0, and a number is one.
ASSUME ParsersAssumption ==
    /\ Nesting \in Nat /\ Milliseconds \in Nat
    /\ \A v \in Scalars :
          /\ ~S!IsArray(v)
          /\ S!IsString(v) => v.len \in Nat /\ (v.text = "" <=> v.len = 0)
          /\ v.kind = "number" => v.v \in Int
    /\ \A lines \in Pasted : lines \in Seq(Seq(Columns))
    /\ \A links \in Links :
          /\ IsSeq(links)
          /\ \A i \in DOMAIN links : /\ links[i].href \in Columns
                                     /\ links[i].href.text # "" /\ ~links[i].href.comment
    /\ ListAnswers \cup ContactAnswers \subseteq Seq(S!Json[Nesting])
    /\ \A f \in Fetches : /\ IsSeq(f.specs) /\ IsSeq(f.plain) /\ IsSeq(f.answers)
                          /\ DOMAIN f.plain = DOMAIN f.specs /\ DOMAIN f.answers = DOMAIN f.specs
    /\ Times \subseteq [seconds : Nat, rest : Nat]
    /\ \A body \in Bodies : IsSeq(body)

PickLines == Picks("lines") /\ input' \in Pasted

PickLinks == Picks("links") /\ input' \in Links

PickPlaces == Picks("places") /\ input' \in ListAnswers

PickLists == Picks("lists") /\ input' \in Fetches

PickContacts == Picks("contacts") /\ input' \in ContactAnswers

PickTime == Picks("time") /\ input' \in Times

PickBody == Picks("body") /\ input' \in Bodies

PickParsed ==
    PickLines \/ PickLinks \/ PickPlaces \/ PickLists \/ PickContacts \/ PickTime \/ PickBody

ParsersSpec == NothingPicked /\ [][PickParsed]_<<subject, input>>

-----------------------------------------------------------------------------
(* Properties *)

\* What is pasted and answered for saved lists is read whole, and an answer of
\* the location service yields the contacts in it, at the times it gives.
MapsParsed ==
    /\ subject = "lines" => S!SpecsNormal(input)
    /\ subject = "links" => S!LinksHarvested(input)
    /\ subject = "places" => S!PlacesKept(input)
    /\ subject = "lists" => S!ListsAccounted(input.specs, input.plain, input.answers)
    /\ subject = "contacts" => C!ContactsIdentified(input)
    /\ subject = "time" => C!TimesInSeconds(input.seconds, input.rest)
    /\ subject = "body" => C!PrefixDropped(input)

=============================================================================
