---------------------------- MODULE ListDiscovery ----------------------------
(***************************************************************************)
(* DiscoverListSpecs of maps/savedplaces/discovery.go: a headless Chrome   *)
(* with the Maps cookies opens the saved lists, reads their names, and     *)
(* opens each list in turn by its name to take the ID from the URL.        *)
(*                                                                         *)
(* The page is what the selectors see of it: it renders step by step, the  *)
(* account behind it may change between two loads, and Google's markup may *)
(* no longer be the one that the selectors were written for.               *)
(***************************************************************************)
EXTENDS Naturals, Sequences, FiniteSets, Functions

CONSTANTS
    Accounts,   \* the saved lists there can be, as sequences of records
                \* [id, name, places]; places is NoCount for an entry of the
                \* panel that is not a list of places
    NoCount, None,
    Bad         \* a URL of the polled form with no list ID in it

Lists == UNION {Range(a) : a \in Accounts}

ASSUME AccountsAssumption == \A a \in Accounts : a \in Seq(Lists)

VARIABLES
    pc,
    opened,     \* has openSavedLists been through once, before the names
    todo,       \* the names still to be opened
    specs,      \* the specs so far, in order
    outcome,    \* what is returned: specs, links, an error, with a screenshot
    ctxDone, chromeUp,
    \* the page
    account,    \* the account's lists, from the top
    markup,     \* does "Your places" match; do the names in it
    links,      \* the IDs of the saved-list links in the document
    rail,       \* is the navigation rail rendered
    drawn,      \* how many entries of "Your places" are
    shown,      \* the entries of the panel as it was loaded
    url,        \* the list ID in the location, or None
    clicked,    \* the list whose button was clicked last, or None
    \* what happened: the lists opened, and whether a read of the panel found
    \* it half rendered, or the account changed
    visited, early, changed

client  == <<pc, opened, todo, specs, outcome>>
process == <<ctxDone, chromeUp>>
page    == <<account, markup, links, rail, drawn, shown, url, clicked>>
ghosts  == <<visited, early, changed>>
vars    == <<client, process, page, ghosts>>

Init ==
    /\ pc = "cookies" /\ opened = FALSE /\ todo = <<>> /\ specs = <<>>
    /\ outcome = "none"
    /\ ctxDone = FALSE /\ chromeUp = TRUE
    /\ account \in Accounts
    /\ markup \in {"known", "names moved", "panel moved"}
    /\ links \in {<<>>, [i \in DOMAIN account |-> account[i].id]}
    /\ rail = FALSE /\ drawn = 0 /\ shown = <<>> /\ url = None /\ clicked = None
    /\ visited = {} /\ early = FALSE /\ changed = FALSE

\* A chromedp action works only while its context lives, which it does as long
\* as the caller's and Chrome do.
Alive == ~ctxDone /\ chromeUp

\* The entries of the panel that are rendered, as the selectors see them.
Entries == IF markup = "panel moved" THEN <<>> ELSE SubSeq(shown, 1, drawn)

Return(o) == pc' = "done" /\ outcome' = o

-----------------------------------------------------------------------------
(* DiscoverListSpecs up to the names *)

SetCookies ==
    /\ pc = "cookies" /\ Alive
    /\ pc' = "navigate"
    /\ UNCHANGED <<opened, todo, specs, outcome, process, page, ghosts>>

\* Mutated form: the panel is opened again in the document that is there.
KeepDocument ==
    /\ pc = "navigate" /\ Alive
    /\ pc' = "wait rail"
    /\ IF opened THEN UNCHANGED <<rail, drawn, shown, url>>
                 ELSE rail' = FALSE /\ drawn' = 0 /\ shown' = account /\ url' = None
    /\ clicked' = None
    /\ UNCHANGED <<opened, todo, specs, outcome, process, account, markup, links,
                   ghosts>>

\* openSavedLists: a new document
Navigate ==
    /\ pc = "navigate" /\ Alive
    /\ pc' = "wait rail"
    /\ rail' = FALSE /\ drawn' = 0 /\ shown' = account
    /\ url' = None /\ clicked' = None
    /\ UNCHANGED <<opened, todo, specs, outcome, process, account, markup, links,
                   ghosts>>

ClickSaved ==
    /\ pc = "wait rail" /\ Alive /\ rail
    /\ pc' = "wait places"
    /\ UNCHANGED <<opened, todo, specs, outcome, process, page, ghosts>>

\* The first entry of "Your places" is there.
PlacesShown ==
    /\ pc = "wait places" /\ Alive /\ Entries # <<>>
    /\ opened' = TRUE
    /\ pc' = IF ~opened THEN "names" ELSE IF todo = <<>> THEN "all" ELSE "click"
    /\ UNCHANGED <<todo, specs, outcome, process, page, ghosts>>

\* The detail of an entry reads "<count> place(s)"; the text "0 places" in it
\* takes it for an empty list.
\* Mutated form: /places/ instead of /places?/.
IsPlural(e) == e.places # NoCount /\ e.places % 10 # 0 /\ e.places # 1
IsListed(e) == e.places # NoCount /\ e.places % 10 # 0

\* Where the entries that pass the filters stand, and the k-th of a set of places.
Listed == {i \in DOMAIN Entries : markup = "known" /\ IsListed(Entries[i])}
Nth(P, k) == CHOOSE i \in P : Cardinality({j \in P : j <= i}) = k

\* discoverListNames
ReadNames ==
    /\ pc = "names" /\ Alive
    /\ todo' = [k \in 1..Cardinality(Listed) |-> Entries[Nth(Listed, k)].name]
    /\ pc' = IF Listed = {} THEN "links" ELSE "click"
    /\ early' = (early \/ Len(Entries) < Len(shown))
    /\ UNCHANGED <<opened, specs, outcome, process, page, visited, changed>>

\* discoverListLinks and specsFromListLinks
ReadLinks ==
    /\ pc = "links" /\ Alive
    /\ specs' = [i \in DOMAIN links |-> [id |-> links[i], name |-> "link"]]
    /\ Return(IF links = <<>> THEN "error, screenshot" ELSE "links")
    /\ UNCHANGED <<opened, todo, process, page, ghosts>>

-----------------------------------------------------------------------------
(* The loop over the names *)

\* clickSavedList: the first entry of that name, be it a list or not.
ClickList ==
    /\ pc = "click" /\ Alive
    /\ \E i \in DOMAIN Entries :
         /\ Entries[i].name = Head(todo)
         /\ \A j \in 1..(i - 1) : Entries[j].name # Head(todo)
         /\ clicked' = Entries[i]
         /\ visited' = visited \cup {Entries[i]}
    /\ pc' = "wait url"
    /\ UNCHANGED <<opened, todo, specs, outcome, process, account, markup, links,
                   rail, drawn, shown, url, early, changed>>

ClickFails ==
    /\ pc = "click" /\ Alive
    /\ \A i \in DOMAIN Entries : Entries[i].name # Head(todo)
    /\ Return("error, screenshot")
    /\ early' = (early \/ Len(Entries) < Len(shown))
    /\ UNCHANGED <<opened, todo, specs, process, page, visited, changed>>

\* Mutated form: the specs are told apart by their names.
SeenName(id, name) == \E i \in DOMAIN specs : specs[i].name = name

\* seen[id]
Seen(id, name) == \E i \in DOMAIN specs : specs[i].id = id

\* The location has the form of a list's; it is read, and the ID taken from it.
TakeID ==
    /\ pc = "wait url" /\ Alive /\ url # None
    /\ IF url = Bad
         THEN Return("error") /\ UNCHANGED <<todo, specs>>
         ELSE /\ specs' = IF Seen(url, Head(todo)) THEN specs
                          ELSE Append(specs, [id |-> url, name |-> Head(todo)])
              /\ todo' = Tail(todo)
              /\ pc' = "navigate"
              /\ UNCHANGED outcome
    /\ UNCHANGED <<opened, process, page, ghosts>>

ReturnSpecs ==
    /\ pc = "all"
    /\ Return("specs")
    /\ UNCHANGED <<opened, todo, specs, process, page, ghosts>>

\* The 30 s for the rail, and for "Your places", are up.
PollTimesOut ==
    /\ Alive
    /\ \/ pc = "wait rail" /\ ~rail
       \/ pc = "wait places" /\ Entries = <<>>
       \/ pc = "wait url" /\ url = None            \* 15 s
    /\ Return("error, screenshot")
    /\ UNCHANGED <<opened, todo, specs, process, page, ghosts>>

\* Mutated form: a poll goes on when the context is done.
PollUnbound ==
    /\ pc \notin {"all", "done", "wait url"} /\ ~Alive
    /\ Return("error")
    /\ UNCHANGED <<opened, todo, specs, process, page, ghosts>>

\* An action fails once its context is done; then so does the screenshot.
ActionFails ==
    /\ pc \notin {"all", "done"} /\ ~Alive
    /\ Return("error")
    /\ UNCHANGED <<opened, todo, specs, process, page, ghosts>>

-----------------------------------------------------------------------------
(* External: the page, the account, the context and Chrome *)

Render ==
    /\ chromeUp /\ pc # "done"
    /\ \/ ~rail /\ rail' = TRUE /\ UNCHANGED drawn
       \/ pc # "wait rail" /\ drawn < Len(shown) /\ drawn' = drawn + 1 /\ UNCHANGED rail
    /\ UNCHANGED <<client, process, account, markup, links, shown, url, clicked, ghosts>>

\* The page follows the click.
Follow ==
    /\ chromeUp /\ clicked # None
    /\ \E u \in {clicked.id, Bad} : url' = u
    /\ clicked' = None
    /\ UNCHANGED <<client, process, account, markup, links, rail, drawn, shown, ghosts>>

AccountChanges ==
    /\ pc # "done" /\ ~changed
    /\ account' \in Accounts
    /\ changed' = TRUE
    /\ UNCHANGED <<client, process, markup, links, rail, drawn, shown, url, clicked,
                   visited, early>>

ContextEnds ==
    /\ ~ctxDone /\ pc # "done" /\ ctxDone' = TRUE
    /\ UNCHANGED <<client, chromeUp, page, ghosts>>

ChromeDies ==
    /\ chromeUp /\ pc # "done" /\ chromeUp' = FALSE
    /\ UNCHANGED <<client, ctxDone, page, ghosts>>

Discover ==
    \/ SetCookies \/ Navigate \/ ClickSaved \/ PlacesShown \/ ReadNames \/ ReadLinks
    \/ ClickList \/ ClickFails \/ TakeID \/ ReturnSpecs \/ PollTimesOut \/ ActionFails

Next ==
    \/ Discover
    \/ Render \/ Follow \/ AccountChanges \/ ContextEnds \/ ChromeDies

\* The goroutine runs; Chrome answers a command, or dies; the polls' time goes
\* by.  Nothing is assumed of the page.
Spec == Init /\ [][Next]_vars /\ WF_vars(Discover)

-----------------------------------------------------------------------------
(* Properties *)

\* A list that was opened under the name.
Opened(id, name) == \E l \in visited : l.id = id /\ l.name = name

\* The specs are different lists, each with a name that it bore when it was
\* opened, even if the account changes meanwhile (DiscoverListSpecs).
SpecsAreLists ==
    outcome # "links" =>
        /\ \A i \in DOMAIN specs : Opened(specs[i].id, specs[i].name)
        /\ \A i, j \in DOMAIN specs : specs[i].id = specs[j].id => i = j

\* The names, and the IDs, tell the lists of the account apart.
ToldApart ==
    /\ IsInjective([i \in DOMAIN account |-> account[i].name])
    /\ IsInjective([i \in DOMAIN account |-> account[i].id])

\* A list of places with some in it, and not a number of them that ends in a zero.
HasPlaces(l) == l.places # NoCount /\ l.places % 10 # 0

HasSpec(l) == \E k \in DOMAIN specs : specs[k].id = l.id /\ specs[k].name = l.name

\* Discovery that succeeds has found every list with a place in it, provided
\* that the account has not changed, the names tell the lists apart, the panel
\* was rendered when its names were read, and no count ends in a zero.
AllListsFound ==
    outcome = "specs" /\ ~changed /\ ~early /\ ToldApart
        => \A i \in DOMAIN account : HasPlaces(account[i]) => HasSpec(account[i])

\* Once the caller's context is done or Chrome is gone, discovery returns,
\* whatever it was waiting for (every chromedp action runs in browserCtx).
EndsWithContext == ~Alive ~> pc = "done"

\* What the comment in DiscoverListSpecs says of the links in the document:
\* they are harvested so that discovery "keeps working when the aria-label
\* chain changes".
FallsBackOnLinks ==
    pc = "done" /\ Alive /\ ~opened /\ shown # <<>> /\ drawn = Len(shown)
        => links = <<>> \/ outcome # "error, screenshot"

-----------------------------------------------------------------------------
(* What the proofs rest on *)

Specs == [id : {l.id : l \in Lists}, name : {l.name : l \in Lists} \cup {"link"}]

\* The types that matter for the specs.
TypeOK ==
    /\ account \in Accounts /\ shown \in Seq(Lists)
    /\ drawn \in 0..Len(shown)
    /\ links \in Seq({l.id : l \in Lists})
    /\ specs \in Seq(Specs)
    /\ visited \subseteq Lists /\ clicked \in Lists \cup {None}

\* A click and a location last from one document to the next, and while the
\* loop waits for a location they are those of the list it opened.
PageFollows ==
    /\ pc \in {"wait rail", "wait places", "names", "links", "click", "all"} =>
          url = None /\ clicked = None
    /\ pc = "wait url" =>
          /\ clicked # None => Opened(clicked.id, Head(todo))
          /\ url \notin {None, Bad} => Opened(url, Head(todo))

\* While the account is as it was, so are the panel and what was opened in it.
PanelIsAccount ==
    ~changed =>
        /\ shown = account \/ pc \in {"cookies", "navigate", "done"}
        /\ visited \subseteq Range(account)

\* The loop over the names has begun, and goes on until there are none left.
InLoop == opened /\ pc \in {"navigate", "wait rail", "wait places", "click", "wait url", "all"}

Loop ==
    /\ todo \in Seq(Range(todo))
    /\ pc \in {"names", "links", "click", "wait url", "all"} => opened
    /\ pc = "cookies" => ~opened
    /\ pc \in {"click", "wait url"} => todo # <<>>
    /\ pc = "all" \/ outcome = "specs" => todo = <<>>

\* A list has its spec, or its name is still to come.
StillToOpen ==
    (InLoop \/ outcome = "specs") /\ ~changed /\ ~early /\ ToldApart
        => \A i \in DOMAIN account :
              HasPlaces(account[i]) => HasSpec(account[i]) \/ account[i].name \in Range(todo)

\* A discovery that has returned takes no further step.
EndsDone == outcome # "none" => pc = "done"
=============================================================================
