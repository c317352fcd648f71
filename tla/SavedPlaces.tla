----------------------------- MODULE SavedPlaces -----------------------------
(***************************************************************************)
(* The saved lists of Google Maps (maps/savedplaces): what is made of      *)
(* pasted lines, of a page's links, and of the answers for each list.      *)
(*                                                                         *)
(* A line is one column or two with a tab between.  A column is a text, "" *)
(* when blank, with what the patterns find in it, "" when nothing:         *)
(*   path     an ID behind "/maps/placelists/list/"                        *)
(*   data     an ID between "!2s" and "!"                                  *)
(*   escaped  an ID behind that path once the URL is unescaped             *)
(*   raw      whether the text itself is an ID                             *)
(* Coordinates are in tenths of a millionth of a degree.                   *)
(***************************************************************************)
EXTENDS HttpApi, JsonValues

CONSTANTS
    Scalars,    \* the values in an answer that are no arrays
    Nesting     \* how deep encoding/json lets arrays be nested, 10000

\* Values with arrays nested up to d deep.
Json[d \in 0..Nesting] ==
    IF d = 0 THEN Scalars ELSE Scalars \cup [kind : {"array"}, items : Seq(Json[d - 1])]

-----------------------------------------------------------------------------
(* ParseListSpecs *)

\* strings.TrimSpace takes the blank columns at the ends of a line with it.
TrimLine(line) == Kept(line, {i \in DOMAIN line : line[i].text # ""})

\* parseListInputLine
LineName(line)  == IF Len(line) = 2 THEN line[1].text ELSE ""
LineValue(line) == Last(line)

\* extractListID; "" when no ID is found.
ExtractListID(value) ==
    FirstText(<<value.path, value.data, value.escaped, IF value.raw THEN value.text ELSE "">>)

IsEntry(line) == TrimLine(line) # <<>> /\ ~TrimLine(line)[1].comment

\* A list that is known already is left as it is.
KeepFirst(specs, spec) ==
    IF \E i \in DOMAIN specs : specs[i].id = spec.id THEN specs ELSE Append(specs, spec)

\* A list that is known already may still get its name.
AddSpec(specs, spec) ==
    IF \A i \in DOMAIN specs : specs[i].id # spec.id THEN Append(specs, spec)
    ELSE [i \in DOMAIN specs |->
            IF specs[i].id = spec.id /\ specs[i].name = "" THEN spec ELSE specs[i]]

EntryID(line) == ExtractListID(LineValue(TrimLine(line)))

\* The specs, or the first line that has no ID; line 0 when there is none.
ParseListSpecs(lines) ==
    LET entries == {i \in DOMAIN lines : IsEntry(lines[i])}
        bad     == {i \in entries : EntryID(lines[i]) = ""}
        spec(i) == [id |-> EntryID(lines[i]), name |-> LineName(TrimLine(lines[i]))]
        specs[n \in 0..Len(lines)] ==
            IF n = 0 THEN <<>>
            ELSE IF n \in entries THEN AddSpec(specs[n - 1], spec(n)) ELSE specs[n - 1]
    IN  IF bad # {} THEN [err |-> "no ID", line |-> Min(bad), specs |-> <<>>]
        ELSE IF entries = {} THEN [err |-> "empty", line |-> 0, specs |-> <<>>]
        ELSE [err |-> "none", line |-> 0, specs |-> specs[Len(lines)]]

\* specsFromListLinks: links without an ID are passed over.
SpecsFromListLinks(links) ==
    LET id(i) == ExtractListID(links[i].href)
        specs[n \in 0..Len(links)] ==
            IF n = 0 THEN <<>>
            ELSE IF id(n) = "" THEN specs[n - 1]
            ELSE KeepFirst(specs[n - 1], [id |-> id(n), name |-> links[n].name])
    IN  specs[Len(links)]

-----------------------------------------------------------------------------
(* parseEntityList *)

LooksLikePlaceID(s) == s.len \in 4..128 /\ s.opaque

\* firstIDString of an array, and what it takes an element for.
FirstIDString[d \in 0..Nesting] ==
    [v \in Json[d] |->
        IF IsArray(v) THEN FirstText([i \in DOMAIN v.items |-> FirstIDString[d - 1][v.items[i]]])
        ELSE IF IsString(v) /\ LooksLikePlaceID(v) THEN Text(v) ELSE ""]

\* extractPlaceID
PlaceID(place) == IF IsArray(At(place, 7)) THEN FirstIDString[Nesting][place[8]] ELSE ""

\* parseTimestamp: seconds and nanoseconds, or no time.
ParseTimestamp(value) ==
    LET parts == Items(value)
        whole(i) == At(parts, i).kind = "number" /\ At(parts, i).whole
    IN  IF whole(0) /\ whole(1) /\ Value(parts[2]) \in 0..999999999
          THEN <<Value(parts[1]), Value(parts[2])>> ELSE <<>>

\* A coordinate as "%.6f" writes it, the sign of a zero included.
Rounded(x) == <<x < 0, ((IF x < 0 THEN -x ELSE x) + 5) \div 10>>

\* Mutated form: places are told apart by their names.
NameKey(name, lat, lon) == <<name>>

PlaceKey(name, lat, lon) == <<name, Rounded(lat), Rounded(lon)>>

Coords(place) == Items(At(Items(At(place, 1)), 5))

\* Items without a name, with an address for a name, or without coordinates
\* are passed over.
IsPlace(place) ==
    /\ Len(place) >= 3
    /\ Text(place[3]) # "" /\ place[3].commas <= 2
    /\ Len(Coords(place)) >= 4

Place(place) ==
    [id      |-> PlaceID(place),
     name    |-> Text(place[3]),
     address |-> Text(At(Items(place[2]), 4)),
     note    |-> Text(At(place, 3)),
     lat     |-> Value(Coords(place)[3]),
     lon     |-> Value(Coords(place)[4]),
     created |-> ParseTimestamp(At(place, 9))]

KeyOf(p) == PlaceKey(p.name, p.lat, p.lon)

AddPlace(places, place) ==
    IF ~IsPlace(place) \/ \E i \in DOMAIN places : KeyOf(places[i]) = KeyOf(Place(place))
      THEN places ELSE Append(places, Place(place))

ParseEntityList(data) ==
    LET list  == IF IsArray(At(data, 0)) THEN At(data, 0).items ELSE data
        items == Items(At(list, 8))
        places[n \in 0..Len(items)] ==
            IF n = 0 THEN <<>> ELSE AddPlace(places[n - 1], Items(items[n]))
    IN  [name |-> Text(At(list, 4)), places |-> places[Len(items)]]

-----------------------------------------------------------------------------
(* FetchLists *)

\* FetchList: ids that are not plain are refused before a request is made.
FetchList(spec, plain, answer) ==
    LET sent   == ListRequest(answer)
        parsed == ParseEntityList(answer.json)
    IN  IF ~plain THEN [err |-> "invalid ID", id |-> spec.id]
        ELSE IF sent.err # "none" THEN [err |-> sent.err, id |-> spec.id]
        ELSE [err |-> "none", id |-> spec.id, places |-> parsed.places,
              name |-> FirstText(<<parsed.name, spec.name>>)]

\* Mutated form: the first list that fails ends it.
StopAtError(results) ==
    LET failed == {i \in DOMAIN results : results[i].err # "none"}
        passed == {i \in DOMAIN results : \A j \in failed : i < j}
    IN  [lists |-> Kept(results, passed),
         errs  |-> Kept(results, IF failed = {} THEN {} ELSE {Min(failed)})]

\* A list that fails is passed over, and its error kept.
Collect(results) ==
    [lists |-> Kept(results, {i \in DOMAIN results : results[i].err = "none"}),
     errs  |-> Kept(results, {i \in DOMAIN results : results[i].err # "none"})]

FetchLists(specs, plain, answers) ==
    Collect([i \in DOMAIN specs |-> FetchList(specs[i], plain[i], answers[i])])

-----------------------------------------------------------------------------
(* Properties *)

\* Pasted lines name each list once, in the order of their first lines, under
\* the first name any of its lines gives; one line without an ID, wherever it
\* is, refuses them all and is the one that is named (ParseListSpecs).
SpecsNormal(lines) ==
    LET parsed   == ParseListSpecs(lines)
        specs    == parsed.specs
        entries  == {i \in DOMAIN lines : IsEntry(lines[i])}
        of(id)   == {i \in entries : EntryID(lines[i]) = id}
        named(id) == {i \in of(id) : Len(TrimLine(lines[i])) = 2}
    IN  /\ parsed.err = "none" <=> entries # {} /\ of("") = {}
        /\ parsed.err = "no ID" =>
              parsed.line \in of("") /\ \A i \in of("") : parsed.line <= i
        /\ parsed.err = "none" =>
              /\ \A i \in entries : \E k \in DOMAIN specs : specs[k].id = EntryID(lines[i])
              /\ \A k \in DOMAIN specs : of(specs[k].id) # {}
              /\ \A j, k \in DOMAIN specs : j < k => Min(of(specs[j].id)) < Min(of(specs[k].id))
              /\ \A k \in DOMAIN specs :
                    specs[k].name = IF named(specs[k].id) = {} THEN ""
                                    ELSE TrimLine(lines[Min(named(specs[k].id))])[1].text

\* The links of a page name the same lists as when they are pasted, one without
\* an ID spoils nothing, and the first link of a list names it, even with
\* nothing (specsFromListLinks, in contrast to ParseListSpecs).
LinksHarvested(links) ==
    LET specs  == SpecsFromListLinks(links)
        lines  == [i \in DOMAIN links |-> <<links[i].href>>]
        pasted == ParseListSpecs(
                    Kept(lines, {i \in DOMAIN links : ExtractListID(links[i].href) # ""}))
    IN  /\ [i \in DOMAIN specs |-> specs[i].id] = [i \in DOMAIN pasted.specs |-> pasted.specs[i].id]
        /\ \A i \in DOMAIN specs : \E k \in DOMAIN links :
              /\ specs[i] = [id |-> ExtractListID(links[k].href), name |-> links[k].name]
              /\ \A j \in 1..(k - 1) : ExtractListID(links[j].href) # specs[i].id

\* Every list asked for is returned or told to have failed, never both: what
\* fails does not take the others with it (FetchLists, "Lists that fail are
\* skipped").
ListsAccounted(specs, plain, answers) ==
    LET got    == FetchLists(specs, plain, answers)
        ids(s) == [i \in DOMAIN s |-> s[i].id]
        good   == {i \in DOMAIN specs : plain[i] /\ ListRequest(answers[i]).err = "none"}
    IN  /\ ids(got.lists) = Kept(ids(specs), good)
        /\ ids(got.errs) = Kept(ids(specs), DOMAIN specs \ good)

\* The strings in a value, each behind the path to it.
Leaves[d \in 0..Nesting] ==
    [v \in Json[d] |->
        IF IsArray(v)
          THEN UNION {{<<<<i>> \o l[1], l[2]>> : l \in Leaves[d - 1][v.items[i]]} :
                        i \in DOMAIN v.items}
        ELSE IF IsString(v) THEN {<<<<>>, v>>} ELSE {}]

\* Where a path leads stands before where the other does.
Earlier(p, q) ==
    \E i \in DOMAIN p \cap DOMAIN q : p[i] < q[i] /\ \A j \in 1..(i - 1) : p[j] = q[j]

\* The ID is the first in the value.
IsFirstID(id, v) ==
    LET ids == {l \in Leaves[Nesting][v] : LooksLikePlaceID(l[2])}
    IN  IF ids = {} THEN id = ""
        ELSE \E l \in ids : id = Text(l[2]) /\ \A m \in ids \ {l} : Earlier(l[1], m[1])

\* Of all items that are places, each is listed once, in order, with its own
\* fields and the first ID in it, whatever stands between them; two with one
\* name are one place only when they are less than a millionth of a degree
\* apart (parseEntityList).
PlacesKept(data) ==
    LET list   == IF IsArray(At(data, 0)) THEN At(data, 0).items ELSE data
        item(k) == Items(Items(At(list, 8))[k])
        good   == {k \in DOMAIN Items(At(list, 8)) : IsPlace(item(k))}
        places == ParseEntityList(data).places
        near(a, b) == a - b \in -9..9
        same(p, q) == p.name = q.name /\ near(p.lat, q.lat) /\ near(p.lon, q.lon)
    IN  /\ \A i, j \in DOMAIN places : i # j => KeyOf(places[i]) # KeyOf(places[j])
        /\ \E at \in [DOMAIN places -> good] :
              /\ \A i, j \in DOMAIN places : i < j => at[i] < at[j]
              /\ \A i \in DOMAIN places :
                    /\ places[i] = Place(item(at[i]))
                    /\ IF IsArray(At(item(at[i]), 7)) THEN IsFirstID(places[i].id, item(at[i])[8])
                       ELSE places[i].id = ""
        /\ \A k \in good : \E i \in DOMAIN places : same(places[i], Place(item(k)))

=============================================================================
