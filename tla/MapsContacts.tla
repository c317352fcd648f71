---------------------------- MODULE MapsContacts ----------------------------
(***************************************************************************)
(* What GetState of maps/maps.go makes of an answer of the location        *)
(* sharing service: the contacts who share their place, and oneself.       *)
(* Beside its text, a string has the number it may be read as.             *)
(***************************************************************************)
EXTENDS JsonValues, FiniteSetsExt

CONSTANT Milliseconds     \* a time above it is in milliseconds; 10^11 in the code

-----------------------------------------------------------------------------
(* tryAuthUser: the body of an answer is a sequence of pieces. *)

Prefix == ")]}'"

\* The prefix that keeps the answer from being run as a script is dropped with
\* all up to the first line end or quote.
StripPrefix(body) ==
    LET ends == {i \in 2..Len(body) : body[i] \in {"\n", "'", "\""}}
    IN  IF Len(body) < 2 \/ body[1] # Prefix \/ ends = {} THEN body
        ELSE SubSeq(body, Min(ends) + 1, Len(body))

\* Too short an answer, and one with the sentinel, is not authenticated.
Authenticated(data) == Len(data) >= 7 /\ Text(data[7]) # "GgA="

-----------------------------------------------------------------------------
(* parseContacts *)

\* toFloat
ToFloat(v) ==
    IF v.kind = "number" THEN v.v
    ELSE IF IsString(v) /\ v.parses THEN v.v ELSE 0

\* Mutated form: every time is in milliseconds.
AlwaysDivided(time) == time \div 1000

Seconds(time) == IF time > Milliseconds THEN time \div 1000 ELSE time

\* The coordinates, the time and the accuracy of a location; zero when missing.
Location(info) ==
    LET coords  == Items(At(info, 1))
        located == Len(info) >= 4 /\ Len(coords) >= 3
        known   == Len(info) >= 4
    IN  [lon  |-> IF located THEN ToFloat(coords[2]) ELSE 0,
         lat  |-> IF located THEN ToFloat(coords[3]) ELSE 0,
         time |-> IF known THEN Seconds(ToFloat(info[3])) ELSE 0,
         acc  |-> IF known THEN ToFloat(info[4]) ELSE 0]

Contact(id, name, type, info) == [id |-> id, name |-> name, type |-> type, at |-> Location(info)]

\* Four fields make a profile; a shorter one is not looked at.
Profile(v) == IF Len(Items(v)) >= 4 THEN Items(v) ELSE <<>>

\* Mutated form: the short profile is not looked at for the ID.
BasicID(basic, short) == Text(At(basic, 0))

ContactID(basic, short) ==
    IF Text(At(basic, 0)) # "" THEN Text(At(basic, 0)) ELSE Text(At(short, 0))

\* A short profile whose name is empty still replaces the name "Unknown".
ContactName(basic, short) ==
    LET name == Text(At(basic, 3))
    IN  IF name \in {"", "Unknown"} /\ IsString(At(short, 2)) THEN Text(At(short, 2)) ELSE name

\* extractContact
ExtractContact(contact) ==
    LET basic == Profile(At(contact, 0))
        short == Profile(At(contact, 6))
    IN  Contact(ContactID(basic, short), ContactName(basic, short), "maps_shared",
                Items(At(contact, 1)))

\* Seven fields make a contact.
SharedContacts(data) ==
    LET items    == Items(At(data, 0))
        contacts == [i \in DOMAIN items |-> ExtractContact(Items(items[i]))]
    IN  Kept(contacts, {i \in DOMAIN items : Len(Items(items[i])) >= 7 /\ contacts[i].id # ""})

\* One's own place, with the ID of the account when the answer has it.
OwnLocation(data) ==
    LET own  == Items(At(data, 9))
        info == Items(At(own, 1))
        id   == Text(At(data, 7))
    IN  IF Len(info) < 4 \/ Len(Items(info[2])) < 3 THEN <<>>
        ELSE <<Contact(IF id # "" THEN id ELSE "self", "You", "maps_self", info)>>

ParseContacts(data) == SharedContacts(data) \o OwnLocation(data)

-----------------------------------------------------------------------------
(* Properties *)

\* A sighting has one time, whether the service gives it in seconds or in
\* milliseconds, as a number or as text (Timestamp of Contact).
TimesInSeconds(seconds, rest) ==
    (seconds <= Milliseconds /\ 1000 * seconds > Milliseconds /\ rest \in 0..999) =>
        \A v \in {Number(seconds), Number(1000 * seconds + rest),
                  [kind |-> "string", text |-> "n", parses |-> TRUE, v |-> seconds],
                  [kind |-> "string", text |-> "n", parses |-> TRUE, v |-> 1000 * seconds + rest]} :
           Location(<<Null, Null, v, Null>>).time = seconds

\* Whoever is identified in one of the two profiles of an item is listed, in
\* order, and nobody is listed without an ID, with oneself behind them; an item
\* of another shape is passed over and takes no other with it (parseContacts).
ContactsIdentified(data) ==
    LET items  == Items(At(data, 0))
        all    == ParseContacts(data)
        shared == {k \in DOMAIN all : all[k].type = "maps_shared"}
        id(item) == IF Len(item) < 7 THEN ""
                    ELSE FirstText(<<Text(At(Profile(item[1]), 0)), Text(At(Profile(item[7]), 0))>>)
        ids    == [i \in DOMAIN items |-> id(Items(items[i]))]
    IN  /\ [k \in shared |-> all[k].id] = Kept(ids, {i \in DOMAIN ids : ids[i] # ""})
        /\ \A k \in DOMAIN all : all[k].id # ""
        /\ \A k \in DOMAIN all \ shared : k = Len(all)

\* An answer that follows its prefix on a line of its own is read whole.
PrefixDropped(json) == StripPrefix(<<Prefix, "\n">> \o json) = json

=============================================================================
