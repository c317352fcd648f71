------------------------- MODULE ListDiscoveryProofs -------------------------
(***************************************************************************)
(* Proofs about ListDiscovery, for any accounts, however they change while *)
(* the lists are opened.                                                   *)
(***************************************************************************)
EXTENDS ListDiscovery, FiniteSetTheorems, TLAPS

IInv == TypeOK /\ PageFollows /\ SpecsAreLists /\ EndsDone

\* What a step leaves alone when it neither adds a spec nor returns the links.
Kept == UNCHANGED <<specs, visited>> /\ outcome # "links" /\ outcome' # "links"

\* The specs found so far stay good in a step that keeps them.
LEMMA SpecsStay ==
  ASSUME SpecsAreLists, Kept
  PROVE  SpecsAreLists'
BY DEF SpecsAreLists, Kept, Opened

\* The empty sequence, of anything, has no place.
LEMMA EmptySequence == \A S : <<>> \in Seq(S) /\ DOMAIN <<>> = {} /\ Len(<<>>) = 0
OBVIOUS

\* A shown entry of the panel is a list of an account.
LEMMA EntryIsList ==
  ASSUME TypeOK, NEW i \in DOMAIN Entries
  PROVE  Entries[i] \in Lists
<1>1. shown \in Seq(Lists) /\ drawn \in 0..Len(shown)
  BY DEF TypeOK
<1>2. CASE markup = "panel moved"
  <2>1. DOMAIN Entries = {}
    BY <1>2, EmptySequence DEF Entries
  <2> QED
    BY <2>1
<1>3. CASE markup # "panel moved"
  <2>2. Entries = SubSeq(shown, 1, drawn)
    BY <1>3 DEF Entries
  <2>3. SubSeq(shown, 1, drawn) \in Seq(Lists)
    BY <1>1
  <2> QED
    BY <2>2, <2>3
<1> QED
  BY <1>2, <1>3

-----------------------------------------------------------------------------
(* The steps *)

\* A new document forgets the location and the click of the one before.
LEMMA NavigateKeeps ==
  ASSUME IInv, Navigate
  PROVE  IInv'
<1> USE DEF IInv, Navigate, process, ghosts
<1>1. TypeOK'
  <2>1. account \in Seq(Lists)
    BY AccountsAssumption DEF TypeOK
  <2>2. 0 \in 0..Len(account)
    <3> HIDE DEF Navigate, IInv
    <3> QED
      BY <2>1
  <2> QED
    BY <2>1, <2>2 DEF TypeOK
<1>2. PageFollows'
  BY DEF PageFollows
<1>3. outcome = "none"
  BY DEF EndsDone
<1>4. SpecsAreLists'
  BY <1>3, SpecsStay DEF Kept
<1>5. EndsDone'
  BY <1>3 DEF EndsDone
<1> QED
  BY <1>1, <1>2, <1>4, <1>5

\* Waiting for the page, and reading the names, touches neither.
LEMMA WaitsKeep ==
  ASSUME IInv, SetCookies \/ ClickSaved \/ PlacesShown \/ ReadNames
  PROVE  IInv'
<1> USE DEF IInv, process, page, ghosts
<1>1. /\ UNCHANGED <<specs, outcome, page, visited>>
      /\ pc \in {"cookies", "wait rail", "wait places", "names"}
  BY DEF SetCookies, ClickSaved, PlacesShown, ReadNames
<1>2. pc' \in {"navigate", "wait places", "names", "all", "click", "links"}
  BY DEF SetCookies, ClickSaved, PlacesShown, ReadNames
<1>3. pc = "cookies" => pc' = "navigate"
  BY DEF SetCookies, ClickSaved, PlacesShown, ReadNames
<1>4. TypeOK'
  BY <1>1 DEF TypeOK
<1>5. PageFollows'
  BY <1>1, <1>2, <1>3 DEF PageFollows
<1>6. outcome = "none"
  BY <1>1 DEF EndsDone
<1>7. SpecsAreLists'
  BY <1>1, <1>6, SpecsStay DEF Kept
<1>8. EndsDone'
  BY <1>1, <1>6 DEF EndsDone
<1> QED
  BY <1>4, <1>5, <1>7, <1>8

\* The links are returned as they are found, and only when there are some.
LEMMA ReadLinksKeeps ==
  ASSUME IInv, ReadLinks
  PROVE  IInv'
<1>0. /\ specs' = [i \in DOMAIN links |-> [id |-> links[i], name |-> "link"]]
      /\ pc' = "done"
      /\ links # <<>> => outcome' = "links"
      /\ UNCHANGED <<account, links, drawn, shown, visited, clicked>>
  BY DEF ReadLinks, Return, process, page, ghosts
<1>1. specs' \in Seq(Specs)
  <2>1. links \in Seq({l.id : l \in Lists})
    BY DEF IInv, TypeOK
  <2>2. \A i \in DOMAIN links : [id |-> links[i], name |-> "link"] \in Specs
    BY <2>1 DEF Specs
  <2>3. Len(links) \in Nat /\ DOMAIN links = 1..Len(links)
    BY <2>1
  <2> QED
    BY <1>0, <2>2, <2>3
<1>2. TypeOK'
  BY <1>0, <1>1 DEF IInv, TypeOK
<1>3. PageFollows'
  BY <1>0 DEF PageFollows
<1>4. SpecsAreLists'
  <2>1. CASE links = <<>>
    <3>1. DOMAIN specs' = {}
      BY <1>0, <2>1, EmptySequence
    <3> QED
      BY <3>1 DEF SpecsAreLists
  <2>2. CASE links # <<>>
    BY <1>0, <2>2 DEF SpecsAreLists
  <2> QED
    BY <2>1, <2>2
<1>5. EndsDone'
  BY <1>0 DEF EndsDone
<1> QED
  BY <1>2, <1>3, <1>4, <1>5 DEF IInv

\* The entry that is clicked bears the name that the loop is at.
LEMMA ClickListKeeps ==
  ASSUME IInv, ClickList
  PROVE  IInv'
<1> USE DEF IInv, process
<1>1. PICK i \in DOMAIN Entries :
        /\ Entries[i].name = Head(todo)
        /\ clicked' = Entries[i]
        /\ visited' = visited \cup {Entries[i]}
  BY DEF ClickList
<1>2. /\ UNCHANGED <<todo, specs, outcome, account, links, drawn, shown, url>>
      /\ pc = "click" /\ pc' = "wait url"
  BY DEF ClickList
<1>3. Entries[i] \in Lists
  BY EntryIsList
<1>4. TypeOK'
  BY <1>1, <1>2, <1>3 DEF TypeOK
<1>5. PageFollows'
  <2>1. url' = None
    BY <1>2 DEF PageFollows
  <2>2. Opened(clicked.id, Head(todo))'
    BY <1>1, <1>2 DEF Opened
  <2> QED
    BY <1>2, <2>1, <2>2 DEF PageFollows
<1>6. outcome = "none"
  BY <1>2 DEF EndsDone
<1>7. SpecsAreLists'
  BY <1>1, <1>2, <1>6 DEF SpecsAreLists, Opened
<1>8. EndsDone'
  BY <1>2, <1>6 DEF EndsDone
<1> QED
  BY <1>4, <1>5, <1>7, <1>8

\* The location waited for is that of the list clicked, and its ID is added
\* unless there is a spec with it.
LEMMA TakeIDKeeps ==
  ASSUME IInv, TakeID
  PROVE  IInv'
<1> USE DEF IInv, process, page, ghosts
<1>0. /\ UNCHANGED <<account, links, drawn, shown, url, clicked, visited>>
      /\ pc = "wait url" /\ url # None
  BY DEF TakeID
<1>o. outcome = "none"
  BY <1>0 DEF EndsDone
<1>1. CASE url = Bad
  <2>1. UNCHANGED <<specs, visited>> /\ pc' = "done" /\ outcome' = "error"
    BY <1>1, <1>0 DEF TakeID, Return
  <2>2. TypeOK'
    BY <1>0, <2>1 DEF TypeOK
  <2>3. PageFollows'
    BY <2>1 DEF PageFollows
  <2>4. SpecsAreLists'
    BY <1>o, <2>1, SpecsStay DEF Kept
  <2>5. EndsDone'
    BY <2>1 DEF EndsDone
  <2> QED
    BY <2>2, <2>3, <2>4, <2>5
<1>2. CASE url # Bad
  <2> DEFINE spec == [id |-> url, name |-> Head(todo)]
  <2>1. /\ specs' = IF Seen(url, Head(todo)) THEN specs ELSE Append(specs, spec)
        /\ pc' = "navigate" /\ outcome' = outcome
    BY <1>2 DEF TakeID
  <2>2. Opened(url, Head(todo))
    BY <1>0, <1>2 DEF PageFollows
  <2>3. spec \in Specs
    <3>1. PICK l \in visited : l.id = url /\ l.name = Head(todo)
      BY <2>2 DEF Opened
    <3>2. l \in Lists
      BY DEF TypeOK
    <3> QED
      BY <3>1, <3>2 DEF Specs
  <2>4. specs \in Seq(Specs)
    BY DEF TypeOK
  <2>5. spec.id = url /\ spec.name = Head(todo)
    OBVIOUS
  <2> HIDE DEF spec
  <2>6. specs' \in Seq(Specs)
    BY <2>1, <2>3, <2>4
  <2>7. TypeOK'
    BY <1>0, <2>6 DEF TypeOK
  <2>8. PageFollows'
    BY <2>1 DEF PageFollows
  <2>9. EndsDone'
    BY <1>o, <2>1 DEF EndsDone
  <2>10. SpecsAreLists'
    <3>1. CASE Seen(url, Head(todo))
      BY <1>0, <1>o, <2>1, <3>1, SpecsStay DEF Kept
    <3>2. CASE ~Seen(url, Head(todo))
      <4>1. specs' = Append(specs, spec)
        BY <2>1, <3>2
      <4>2. /\ Len(specs) \in Nat /\ DOMAIN specs = 1..Len(specs)
            /\ DOMAIN specs' = 1..(Len(specs) + 1)
            /\ \A k \in 1..Len(specs) : specs'[k] = specs[k]
            /\ specs'[Len(specs) + 1] = spec
        BY <2>3, <2>4, <4>1
      <4>3. \A k \in DOMAIN specs' : k \in DOMAIN specs \/ k = Len(specs) + 1
        BY <4>2
      <4>4. \A k \in DOMAIN specs : specs[k].id # url
        BY <3>2 DEF Seen
      <4>5. \A k \in DOMAIN specs : Opened(specs[k].id, specs[k].name)'
        BY <1>0, <1>o, <4>2 DEF SpecsAreLists, Opened
      <4>6. \A k \in DOMAIN specs' : Opened(specs[k].id, specs[k].name)'
        <5> SUFFICES ASSUME NEW k \in DOMAIN specs'
                     PROVE  Opened(specs[k].id, specs[k].name)'
          OBVIOUS
        <5>1. CASE k \in DOMAIN specs
          BY <4>5, <5>1
        <5>2. CASE k = Len(specs) + 1
          <6>1. specs'[k].id = url /\ specs'[k].name = Head(todo)
            BY <2>5, <4>2, <5>2
          <6> QED
            BY <1>0, <2>2, <6>1 DEF Opened
        <5> QED
          BY <4>3, <5>1, <5>2
      <4>7. \A i, j \in DOMAIN specs' : specs'[i].id = specs'[j].id => i = j
        <5> SUFFICES ASSUME NEW i \in DOMAIN specs', NEW j \in DOMAIN specs',
                            specs'[i].id = specs'[j].id
                     PROVE  i = j
          OBVIOUS
        <5>1. CASE i \in DOMAIN specs /\ j \in DOMAIN specs
          BY <1>o, <4>2, <5>1 DEF SpecsAreLists
        <5>2. CASE i \notin DOMAIN specs \/ j \notin DOMAIN specs
          BY <2>5, <4>2, <4>3, <4>4, <5>2
        <5> QED
          BY <5>1, <5>2
      <4> QED
        BY <4>6, <4>7 DEF SpecsAreLists
    <3> QED
      BY <3>1, <3>2
  <2> QED
    BY <2>7, <2>8, <2>9, <2>10
<1> QED
  BY <1>1, <1>2

\* A return with an error, or with the specs that there are.
LEMMA ReturnsKeep ==
  ASSUME IInv, ClickFails \/ ReturnSpecs \/ PollTimesOut \/ ActionFails
  PROVE  IInv'
<1> USE DEF IInv, process, page, ghosts
<1>1. /\ UNCHANGED <<specs, page, visited>>
      /\ pc # "done" /\ pc' = "done" /\ outcome' # "links"
  BY DEF ClickFails, ReturnSpecs, PollTimesOut, ActionFails, Return
<1>2. TypeOK'
  BY <1>1 DEF TypeOK
<1>3. PageFollows'
  BY <1>1 DEF PageFollows
<1>4. SpecsAreLists'
  BY <1>1, SpecsStay DEF Kept, EndsDone
<1>5. EndsDone'
  BY <1>1 DEF EndsDone
<1> QED
  BY <1>2, <1>3, <1>4, <1>5

\* The page follows the last click, or goes where no ID is.
LEMMA FollowKeeps ==
  ASSUME IInv, Follow
  PROVE  IInv'
<1> USE DEF IInv, Follow, client, process, ghosts
<1>1. TypeOK'
  BY DEF TypeOK
<1>2. PageFollows'
  <2>1. UNCHANGED <<pc, todo, visited>> /\ clicked # None /\ clicked' = None
        /\ url' \in {clicked.id, Bad}
    OBVIOUS
  <2> QED
    BY <2>1 DEF PageFollows, Opened
<1>3. SpecsAreLists'
  BY DEF SpecsAreLists, Opened
<1>4. EndsDone'
  BY DEF EndsDone
<1> QED
  BY <1>1, <1>2, <1>3, <1>4

\* The page goes on rendering, the account changes, the context ends or Chrome
\* dies: none of it moves the location.
LEMMA WorldKeeps ==
  ASSUME IInv, Render \/ AccountChanges \/ ContextEnds \/ ChromeDies
  PROVE  IInv'
<1> USE DEF IInv, client, process, page, ghosts
<1>1. UNCHANGED <<client, links, shown, url, clicked, visited>>
  BY DEF Render, AccountChanges, ContextEnds, ChromeDies
<1>2. account' \in Accounts
  BY DEF Render, AccountChanges, ContextEnds, ChromeDies, TypeOK
<1>3. drawn' \in 0..Len(shown)
  <2>1. shown \in Seq(Lists) /\ drawn \in 0..Len(shown)
    BY DEF TypeOK
  <2>2. drawn' = drawn \/ (drawn < Len(shown) /\ drawn' = drawn + 1)
    <3>1. CASE Render
      BY <3>1 DEF Render
    <3>2. CASE AccountChanges \/ ContextEnds \/ ChromeDies
      BY <3>2 DEF AccountChanges, ContextEnds, ChromeDies
    <3> QED
      BY <3>1, <3>2
  <2> QED
    BY <2>1, <2>2
<1>4. TypeOK'
  BY <1>1, <1>2, <1>3 DEF TypeOK
<1>5. PageFollows'
  BY <1>1 DEF PageFollows, Opened
<1>6. SpecsAreLists'
  BY <1>1 DEF SpecsAreLists, Opened
<1>7. EndsDone'
  BY <1>1 DEF EndsDone
<1> QED
  BY <1>4, <1>5, <1>6, <1>7

-----------------------------------------------------------------------------
(* The invariant and what follows from it *)

\* IInv holds from the start of a discovery to its end.
THEOREM Invariance == Spec => []IInv
<1>1. Init => IInv
  <2> SUFFICES ASSUME Init PROVE IInv
    OBVIOUS
  <2>1. account \in Seq(Lists)
    BY AccountsAssumption DEF Init
  <2>2. links = <<>> \/ links = [i \in DOMAIN account |-> account[i].id]
    BY DEF Init
  <2>3. links \in Seq({l.id : l \in Lists})
    <3>1. CASE links = <<>>
      BY <3>1, EmptySequence
    <3>2. CASE links = [i \in DOMAIN account |-> account[i].id]
      <4>1. Len(account) \in Nat /\ DOMAIN account = 1..Len(account)
        BY <2>1
      <4>2. \A i \in DOMAIN account : account[i].id \in {l.id : l \in Lists}
        BY <2>1
      <4> QED
        BY <3>2, <4>1, <4>2
    <3> QED
      BY <2>2, <3>1, <3>2
  <2>4. /\ specs \in Seq(Specs) /\ shown \in Seq(Lists)
        /\ drawn = 0 /\ Len(shown) = 0 /\ DOMAIN specs = {}
    BY EmptySequence DEF Init
  <2>5. TypeOK
    <3>1. account \in Accounts /\ visited = {} /\ clicked = None
      BY DEF Init
    <3>2. 0 \in 0..0
      OBVIOUS
    <3> QED
      BY <2>3, <2>4, <3>1, <3>2 DEF TypeOK
  <2>6. PageFollows /\ EndsDone
    BY DEF Init, PageFollows, EndsDone
  <2>7. SpecsAreLists
    BY <2>4 DEF SpecsAreLists
  <2> QED
    BY <2>5, <2>6, <2>7 DEF IInv
<1>2. IInv /\ [Next]_vars => IInv'
  <2> SUFFICES ASSUME IInv, [Next]_vars PROVE IInv'
    OBVIOUS
  <2>1. CASE Discover
    BY <2>1, NavigateKeeps, WaitsKeep, ReadLinksKeeps, ClickListKeeps, TakeIDKeeps, ReturnsKeep
    DEF Discover
  <2>2. CASE Render \/ Follow \/ AccountChanges \/ ContextEnds \/ ChromeDies
    BY <2>2, FollowKeeps, WorldKeeps
  <2>3. CASE UNCHANGED vars
    <3>1. UNCHANGED <<pc, todo, specs, outcome, account, links, drawn, shown,
                      url, clicked, visited>>
      BY <2>3 DEF vars, client, page, ghosts
    <3> QED
      BY <3>1 DEF IInv, TypeOK, PageFollows, SpecsAreLists, EndsDone, Opened
  <2> QED
    BY <2>1, <2>2, <2>3 DEF Next
<1> QED
  BY <1>1, <1>2, PTL DEF Spec

\* Whatever the accounts, and however one changes while its lists are opened by
\* name: the specs are different lists, each under a name it had when opened.
THEOREM SpecsNameLists == Spec => []SpecsAreLists
<1>1. IInv => SpecsAreLists
  BY DEF IInv
<1> QED
  BY <1>1, Invariance, PTL

-----------------------------------------------------------------------------
(* Every list is found *)

FoundInv == PanelIsAccount /\ Loop /\ StillToOpen

\* Places in a sequence are finite in number.
LEMMA PlacesAreFinite ==
  ASSUME NEW n \in Nat, NEW P \in SUBSET (1..n)
  PROVE  IsFiniteSet(P)
<1>1. IsFiniteSet(1..n)
  BY FS_Interval
<1> QED
  BY <1>1, FS_Subset

\* The k-th place of P, for k up to the number of places, is any one of them.
LEMMA NthReachesAll ==
  ASSUME NEW n \in Nat, NEW P \in SUBSET (1..n), NEW i \in P
  PROVE  /\ Cardinality(P) \in Nat
         /\ \E k \in 1..Cardinality(P) : Nth(P, k) = i
<1> DEFINE Upto(m) == {j \in P : j <= m}
           k == Cardinality(Upto(i))
<1>1. IsFiniteSet(P) /\ Cardinality(P) \in Nat
  BY PlacesAreFinite, FS_CardinalityType
<1>2. \A m : IsFiniteSet(Upto(m)) /\ Cardinality(Upto(m)) \in Nat
             /\ Cardinality(Upto(m)) <= Cardinality(P)
  BY <1>1, FS_Subset, FS_CardinalityType
<1>3. k # 0
  <2>1. i \in Upto(i)
    OBVIOUS
  <2> QED
    BY <1>2, <2>1, FS_EmptySet
<1>4. ASSUME NEW m \in P, NEW q \in P, m < q
      PROVE  Cardinality(Upto(m)) # Cardinality(Upto(q))
  <2>1. Upto(m) \in SUBSET Upto(q)
    <3>1. ASSUME NEW j \in P, j <= m PROVE j <= q
      <4>1. j \in 1..n /\ m \in 1..n /\ q \in 1..n
        OBVIOUS
      <4> QED
        BY <1>4, <3>1, <4>1
    <3> QED
      BY <3>1
  <2>2. q \in Upto(q) /\ q \notin Upto(m)
    BY <1>4
  <2>3. Cardinality(Upto(q)) = Cardinality(Upto(m)) => Upto(q) = Upto(m)
    <3>1. IsFiniteSet(Upto(q))
      BY <1>2
    <3> HIDE DEF Upto
    <3> QED
      BY <2>1, <3>1, FS_Subset
  <2> QED
    BY <2>2, <2>3
<1>5. \A m \in P : Cardinality(Upto(m)) = k => m = i
  BY <1>4
<1>6. Nth(P, k) = i
  BY <1>5 DEF Nth
<1> HIDE DEF k
<1>7. k \in 1..Cardinality(P)
  BY <1>1, <1>2, <1>3 DEF k
<1> QED
  BY <1>1, <1>6, <1>7

\* Head and tail make up a sequence.
LEMMA HeadAndTail ==
  ASSUME NEW s, s \in Seq(Range(s)), s # <<>>
  PROVE  /\ Tail(s) \in Seq(Range(Tail(s)))
         /\ \A x \in Range(s) : x = Head(s) \/ x \in Range(Tail(s))
<1> DEFINE t == Tail(s)
<1>1. /\ Len(s) \in Nat \ {0} /\ DOMAIN s = 1..Len(s) /\ Head(s) = s[1]
      /\ t \in Seq(Range(s)) /\ Len(t) = Len(s) - 1 /\ DOMAIN t = 1..Len(t)
      /\ \A i \in 1..(Len(s) - 1) : t[i] = s[i + 1]
  OBVIOUS
<1> HIDE DEF t
<1>2. t \in Seq(Range(t))
  <2>1. t = [i \in 1..Len(t) |-> t[i]]
    BY <1>1
  <2>2. \A i \in 1..Len(t) : t[i] \in Range(t)
    BY <1>1 DEF Range
  <2> QED
    BY <1>1, <2>1, <2>2
<1>3. ASSUME NEW x \in Range(s) PROVE x = Head(s) \/ x \in Range(t)
  <2>1. PICK i \in 1..Len(s) : x = s[i]
    BY <1>1 DEF Range
  <2>2. CASE i = 1
    BY <1>1, <2>1, <2>2
  <2>3. CASE i # 1
    <3>1. i - 1 \in 1..Len(t) /\ (i - 1) + 1 = i
      BY <1>1, <2>3
    <3>2. t[i - 1] = x
      BY <1>1, <2>1, <3>1
    <3> QED
      BY <1>1, <3>1, <3>2 DEF Range
  <2> QED
    BY <2>2, <2>3
<1> QED
  BY <1>2, <1>3 DEF t

\* A function on 1..c is a sequence of its values, as long as c.
LEMMA FunctionIsSequence ==
  ASSUME NEW c \in Nat, NEW f, DOMAIN f = 1..c, f = [k \in 1..c |-> f[k]]
  PROVE  f \in Seq(Range(f)) /\ Len(f) = c
<1>1. \A k \in 1..c : f[k] \in Range(f)
  BY DEF Range
<1> HIDE DEF Range
<1> QED
  BY <1>1

\* The panel shows as many entries as it has rendered.
LEMMA EntriesShown ==
  ASSUME TypeOK
  PROVE  /\ Len(Entries) \in Nat /\ DOMAIN Entries = 1..Len(Entries)
         /\ markup # "panel moved" => Len(Entries) = drawn
         /\ \A i \in DOMAIN Entries : i \in DOMAIN shown /\ Entries[i] = shown[i]
<1>1. shown \in Seq(Lists) /\ drawn \in 0..Len(shown)
  BY DEF TypeOK
<1>2. CASE markup = "panel moved"
  <2>1. Len(Entries) = 0 /\ DOMAIN Entries = {}
    BY <1>2, EmptySequence DEF Entries
  <2>2. 1..0 = {} /\ 0 \in Nat
    OBVIOUS
  <2>3. Len(Entries) \in Nat /\ DOMAIN Entries = 1..Len(Entries)
    BY <2>1, <2>2, Zenon
  <2> QED
    BY <1>2, <2>1, <2>3, Zenon
<1>3. CASE markup # "panel moved"
  <2>1. Entries = SubSeq(shown, 1, drawn)
    BY <1>3 DEF Entries
  <2>2. Len(shown) \in Nat /\ DOMAIN shown = 1..Len(shown)
    BY <1>1
  <2>3. /\ Len(Entries) = drawn /\ DOMAIN Entries = 1..drawn
        /\ \A i \in 1..drawn : Entries[i] = shown[i]
    BY <1>1, <2>1
  <2> QED
    BY <1>1, <2>2, <2>3
<1> QED
  BY <1>2, <1>3

\* The names read are those of the lists, all of them if the panel was complete.
LEMMA ReadNamesFinds ==
  ASSUME IInv, FoundInv, ReadNames
  PROVE  FoundInv'
<1> DEFINE c == Cardinality(Listed)
<1>0. /\ todo' = [k \in 1..c |-> Entries[Nth(Listed, k)].name]
      /\ pc = "names" /\ pc' = IF Listed = {} THEN "links" ELSE "click"
      /\ early' = (early \/ Len(Entries) < Len(shown))
      /\ UNCHANGED <<opened, outcome, specs, account, shown, visited, changed>>
  BY DEF ReadNames, page
<1>1. opened /\ outcome = "none"
  BY <1>0 DEF FoundInv, Loop, IInv, EndsDone
<1>2. /\ Len(Entries) \in Nat /\ DOMAIN Entries = 1..Len(Entries)
      /\ markup # "panel moved" => Len(Entries) = drawn
      /\ \A i \in DOMAIN Entries : i \in DOMAIN shown /\ Entries[i] = shown[i]
  BY EntriesShown DEF IInv
<1>3. Listed \in SUBSET (1..Len(Entries))
  BY <1>2 DEF Listed
<1>4. c \in Nat /\ (Listed # {} => c # 0)
  <2>1. IsFiniteSet(Listed)
    BY <1>2, <1>3, PlacesAreFinite, Zenon
  <2> QED
    BY <2>1, FS_CardinalityType, FS_EmptySet
<1>5. \A i \in Listed : \E k \in 1..c : Nth(Listed, k) = i
  <2> HIDE DEF c
  <2> QED
    BY <1>2, <1>3, NthReachesAll DEF c
<1> HIDE DEF c
<1>6. todo' \in Seq(Range(todo')) /\ Len(todo') = c
  BY <1>0, <1>4, FunctionIsSequence
<1>7. PanelIsAccount'
  BY <1>0 DEF FoundInv, PanelIsAccount
<1>8. Loop'
  <2>1. pc' = "click" => todo' # <<>>
    BY <1>0, <1>4, <1>6, EmptySequence
  <2> QED
    BY <1>0, <1>1, <1>6, <2>1 DEF Loop
<1>9. StillToOpen'
  <2> SUFFICES ASSUME pc' = "click", ~changed, ~early',
                      NEW i \in DOMAIN account, HasPlaces(account[i])
               PROVE  account[i].name \in Range(todo')
    BY <1>0, <1>1 DEF StillToOpen, InLoop, HasPlaces
  <2>1. shown = account
    BY <1>0 DEF FoundInv, PanelIsAccount
  <2>2. PICK j \in Listed : TRUE
    BY <1>0
  <2>3. markup = "known"
    BY <2>2 DEF Listed
  <2>4. shown \in Seq(Lists) /\ drawn \in 0..Len(shown)
    BY DEF IInv, TypeOK
  <2>5. i \in DOMAIN Entries /\ Entries[i] = account[i]
    <3>1. Len(Entries) = drawn /\ ~(Len(Entries) < Len(shown))
      BY <1>0, <1>2, <2>3
    <3>2. i \in 1..Len(shown)
      BY <2>1, <2>4
    <3>3. i \in DOMAIN Entries
      BY <1>2, <2>4, <3>1, <3>2
    <3> QED
      BY <1>2, <2>1, <3>3
  <2>6. i \in Listed
    BY <2>3, <2>5 DEF Listed, HasPlaces, IsListed
  <2>7. PICK k \in 1..c : Nth(Listed, k) = i
    BY <1>5, <2>6
  <2>8. todo'[k] = account[i].name /\ k \in DOMAIN todo'
    BY <1>0, <2>5, <2>7
  <2> QED
    BY <2>8 DEF Range
<1> QED
  BY <1>7, <1>8, <1>9 DEF FoundInv

\* A list that is opened is in the account, if that is as it was.
LEMMA ClickListFinds ==
  ASSUME IInv, FoundInv, ClickList
  PROVE  FoundInv'
<1>1. PICK i \in DOMAIN Entries : visited' = visited \cup {Entries[i]}
  BY DEF ClickList
<1>2. /\ pc = "click" /\ pc' = "wait url"
      /\ UNCHANGED <<opened, todo, outcome, specs, account, shown, early, changed>>
  BY DEF ClickList
<1>3. i \in DOMAIN shown /\ Entries[i] = shown[i]
  BY EntriesShown DEF IInv
<1>4. PanelIsAccount'
  BY <1>1, <1>2, <1>3 DEF FoundInv, PanelIsAccount, Range
<1>5. Loop'
  BY <1>2 DEF FoundInv, Loop
<1>6. StillToOpen'
  BY <1>2 DEF FoundInv, StillToOpen, InLoop, HasSpec, ToldApart
<1> QED
  BY <1>4, <1>5, <1>6 DEF FoundInv

\* The list whose name is taken off has its spec: what was opened under the name
\* is the list of the account, and a spec with its ID bears no other name.
LEMMA TakeIDFinds ==
  ASSUME IInv, FoundInv, TakeID
  PROVE  FoundInv'
<1>0. /\ pc = "wait url" /\ url # None /\ outcome = "none" /\ opened
      /\ UNCHANGED <<opened, account, shown, visited, early, changed>>
  BY DEF TakeID, page, ghosts, IInv, EndsDone, FoundInv, Loop
<1>1. CASE url = Bad
  <2>1. /\ pc' = "done" /\ outcome' = "error" /\ todo' = todo
    BY <1>0, <1>1 DEF TakeID, Return
  <2> QED
    BY <1>0, <2>1 DEF FoundInv, PanelIsAccount, Loop, StillToOpen, InLoop
<1>2. CASE url # Bad
  <2> DEFINE name == Head(todo)
             spec == [id |-> url, name |-> name]
  <2>1. /\ specs' = IF Seen(url, name) THEN specs ELSE Append(specs, spec)
        /\ todo' = Tail(todo) /\ pc' = "navigate" /\ outcome' = outcome
    BY <1>2 DEF TakeID
  <2>2. /\ todo' \in Seq(Range(todo'))
        /\ \A x \in Range(todo) : x = name \/ x \in Range(todo')
    BY <1>0, <2>1, HeadAndTail DEF FoundInv, Loop
  <2>3. spec.id = url /\ spec.name = name
    OBVIOUS
  <2> HIDE DEF spec, name
  <2>4. \A k \in DOMAIN specs : k \in DOMAIN specs' /\ specs'[k] = specs[k]
    BY <2>1 DEF IInv, TypeOK
  <2>5. Seen(url, name) \/ \E k \in DOMAIN specs' : specs'[k] = spec
    BY <2>1 DEF IInv, TypeOK
  <2>6. PanelIsAccount'
    BY <1>0, <2>1 DEF FoundInv, PanelIsAccount
  <2>7. Loop'
    BY <1>0, <2>1, <2>2 DEF Loop
  <2>8. StillToOpen'
    <3> SUFFICES ASSUME ~changed, ~early, ToldApart,
                        NEW i \in DOMAIN account, HasPlaces(account[i])
                 PROVE  HasSpec(account[i])' \/ account[i].name \in Range(todo')
      BY <1>0, <2>1 DEF StillToOpen, ToldApart
    <3>1. HasSpec(account[i]) \/ account[i].name \in Range(todo)
      BY <1>0 DEF FoundInv, StillToOpen, InLoop
    <3>2. CASE HasSpec(account[i])
      BY <1>0, <2>4, <3>2 DEF HasSpec
    <3>3. CASE account[i].name = name
      <4>1. PICK l \in visited : l.id = url /\ l.name = name
        BY <1>0, <1>2 DEF IInv, PageFollows, Opened, name
      <4>2. PICK j \in DOMAIN account : l = account[j]
        BY DEF FoundInv, PanelIsAccount, Range
      <4>3. j = i
        BY <3>3, <4>1, <4>2 DEF ToldApart, IsInjective
      <4>4. CASE Seen(url, name)
        <5>1. PICK k \in DOMAIN specs : specs[k].id = url
          BY <4>4 DEF Seen
        <5>2. PICK m \in visited : m.id = url /\ m.name = specs[k].name
          BY <1>0, <5>1 DEF IInv, SpecsAreLists, Opened
        <5>3. PICK q \in DOMAIN account : m = account[q]
          BY DEF FoundInv, PanelIsAccount, Range
        <5>4. q = i
          BY <4>1, <4>2, <4>3, <5>2, <5>3 DEF ToldApart, IsInjective
        <5> QED
          BY <1>0, <2>4, <5>1, <5>2, <5>3, <5>4 DEF HasSpec
      <4>5. CASE \E k \in DOMAIN specs' : specs'[k] = spec
        BY <1>0, <2>3, <4>1, <4>2, <4>3, <4>5 DEF HasSpec
      <4> QED
        BY <2>5, <4>4, <4>5
    <3> QED
      BY <2>2, <3>1, <3>2, <3>3
  <2> QED
    BY <2>6, <2>7, <2>8 DEF FoundInv
<1> QED
  BY <1>1, <1>2

\* Navigating loads the account's panel; the waits lead to the names, or on in
\* the loop, or to its end when no name is left.
LEMMA WaitsFind ==
  ASSUME IInv, FoundInv, SetCookies \/ Navigate \/ ClickSaved \/ PlacesShown
  PROVE  FoundInv'
<1>0. UNCHANGED <<todo, specs, outcome, account, visited, early, changed>>
  BY DEF SetCookies, Navigate, ClickSaved, PlacesShown, page, ghosts
<1>1. outcome = "none"
  BY DEF IInv, EndsDone, SetCookies, Navigate, ClickSaved, PlacesShown
<1>2. CASE PlacesShown
  <2>1. /\ pc = "wait places" /\ opened' /\ shown' = shown
        /\ pc' = IF ~opened THEN "names" ELSE IF todo = <<>> THEN "all" ELSE "click"
    BY <1>2 DEF PlacesShown, page
  <2> USE <1>0, <1>1, <2>1
  <2>2. PanelIsAccount'
    BY DEF FoundInv, PanelIsAccount
  <2>3. Loop'
    BY DEF FoundInv, Loop
  <2>4. StillToOpen'
    BY DEF FoundInv, StillToOpen, InLoop, HasSpec, ToldApart
  <2> QED
    BY <2>2, <2>3, <2>4 DEF FoundInv
<1>3. CASE SetCookies \/ Navigate \/ ClickSaved
  <2>1. /\ opened' = opened
        /\ \/ pc = "cookies" /\ pc' = "navigate" /\ shown' = shown
           \/ pc = "navigate" /\ pc' = "wait rail" /\ shown' = account
           \/ pc = "wait rail" /\ pc' = "wait places" /\ shown' = shown
    BY <1>3 DEF SetCookies, Navigate, ClickSaved, page
  <2> USE <1>0, <1>1, <2>1
  <2>2. PanelIsAccount'
    BY DEF FoundInv, PanelIsAccount
  <2>3. Loop'
    BY DEF FoundInv, Loop
  <2>4. StillToOpen'
    BY DEF FoundInv, Loop, StillToOpen, InLoop, HasSpec, ToldApart
  <2> QED
    BY <2>2, <2>3, <2>4 DEF FoundInv
<1> QED
  BY <1>2, <1>3

\* Only a loop that is through returns its specs.
LEMMA ReturnsFind ==
  ASSUME IInv, FoundInv,
         ReadLinks \/ ClickFails \/ ReturnSpecs \/ PollTimesOut \/ ActionFails
  PROVE  FoundInv'
<1>1. /\ UNCHANGED <<todo, account, shown, visited, changed>>
      /\ pc' = "done"
      /\ \/ outcome' # "specs"
         \/ /\ pc = "all" /\ UNCHANGED <<opened, specs, early>>
  BY DEF ReadLinks, ClickFails, ReturnSpecs, PollTimesOut, ActionFails, Return, page, ghosts
<1>2. PanelIsAccount'
  BY <1>1 DEF FoundInv, PanelIsAccount
<1>3. Loop'
  BY <1>1 DEF FoundInv, Loop
<1>4. StillToOpen'
  BY <1>1 DEF FoundInv, Loop, StillToOpen, InLoop, HasSpec, ToldApart
<1> QED
  BY <1>2, <1>3, <1>4 DEF FoundInv

\* The world around changes what is in the account, which is then told, but
\* nothing that the loop has done.
LEMMA WorldFinds ==
  ASSUME FoundInv, Render \/ Follow \/ AccountChanges \/ ContextEnds \/ ChromeDies \/ UNCHANGED vars
  PROVE  FoundInv'
<1>1. /\ UNCHANGED <<pc, opened, todo, specs, outcome, shown, visited, early>>
      /\ changed' \/ UNCHANGED <<account, changed>>
  BY DEF Render, Follow, AccountChanges, ContextEnds, ChromeDies, vars, client, page, ghosts
<1>2. PanelIsAccount' /\ Loop'
  BY <1>1 DEF FoundInv, PanelIsAccount, Loop
<1>3. StillToOpen'
  BY <1>1 DEF FoundInv, StillToOpen, InLoop, HasSpec, ToldApart
<1> QED
  BY <1>2, <1>3 DEF FoundInv

\* Discovery that succeeds has found every list with a place in it, for any
\* account that stays as it is and whose lists can be told apart.
THEOREM EveryListFound == Spec => []AllListsFound
<1>1. Init => FoundInv
  <2> SUFFICES ASSUME Init PROVE FoundInv
    OBVIOUS
  <2>1. /\ pc = "cookies" /\ ~opened /\ outcome = "none" /\ visited = {}
        /\ todo = <<>>
    BY DEF Init
  <2>2. todo \in Seq(Range(todo))
    BY <2>1, EmptySequence
  <2> QED
    BY <2>1, <2>2 DEF FoundInv, PanelIsAccount, Loop, StillToOpen, InLoop
<1>2. IInv /\ FoundInv /\ [Next]_vars => FoundInv'
  BY ReadNamesFinds, ClickListFinds, TakeIDFinds, WaitsFind, ReturnsFind, WorldFinds
  DEF Next, Discover
<1>3. FoundInv => AllListsFound
  <2> SUFFICES ASSUME FoundInv, outcome = "specs" /\ ~changed /\ ~early /\ ToldApart,
                      NEW i \in DOMAIN account, HasPlaces(account[i])
               PROVE  HasSpec(account[i])
    BY DEF AllListsFound
  <2>1. Range(todo) = {}
    BY EmptySequence DEF FoundInv, Loop, Range
  <2> QED
    BY <2>1 DEF FoundInv, StillToOpen
<1> QED
  BY <1>1, <1>2, <1>3, Invariance, PTL DEF Spec
=============================================================================
