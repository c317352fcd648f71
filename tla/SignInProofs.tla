----------------------------- MODULE SignInProofs -----------------------------
(***************************************************************************)
(* Proofs about the flows in which a user signs in to a Chrome: those of   *)
(* BrowserFlow, for any number of documents, and that of MapsAuth, for any *)
(* number of cookies. And about the keys that signing in and registering   *)
(* obtain (Unwrapping): each opens what is sealed for it and nothing else; *)
(* and about what all of them find on disk (Leftovers).                    *)
(***************************************************************************)
EXTENDS BrowserFlow, Unwrapping, Leftovers,
        FiniteSetTheorems, SequenceTheorems, WellFoundedInduction, TLAPS

\* What a new document leaves of the old one.
Cleared(s) ==
  /\ docs' \in 0..MaxDocs /\ site' = s
  /\ mm' \in [wrapped : BOOLEAN, own : BOOLEAN]
  /\ captured' = FALSE /\ closed' = FALSE /\ assigned' = FALSE

\* A document that is loaded clears the page's globals.
LEMMA LoadClears ==
  ASSUME TypeOK, NEW s, Load(s)
  PROVE  Cleared(s)
<1>1. docs' \in 0..MaxDocs
  BY BoundAssumption DEF TypeOK, Load
<1> QED
  BY <1>1 DEF Load, FreshMM, Cleared

\* A step that loads a document keeps the variables' types.
LEMMA ClearedKeepsTypes ==
  ASSUME TypeOK, NEW s, s \in {"accounts", "myaccount", "setup", "vault"},
         Cleared(s), UNCHANGED <<call, result, time, sawClosed, user>>,
         pc' \in PCs, pc = "done" <=> pc' = "done",
         phase' \in {"none", "cookies", "signin", "keys"},
         browser' \in {"no", "up", "dead"}
  PROVE  TypeOK'
<1>1. /\ UNCHANGED <<flow, hasDeadline, late, ctxEnd, result>>
      /\ UNCHANGED <<sawClosed, cookie, otherChrome, missed>>
  BY DEF call, time, user
<1> USE <1>1 DEF TypeOK
<1>2. (pc \in PCs /\ phase \in {"none", "cookies", "signin", "keys"})'
  OBVIOUS
<1>3. (result \in Results /\ (result # "none" <=> pc = "done"))'
  OBVIOUS
<1>4. (late \in BOOLEAN /\ ctxEnd \in {"no", "canceled", "deadline"})'
  OBVIOUS
<1>5. (browser \in {"no", "up", "dead"} /\ otherChrome \in BOOLEAN)'
  OBVIOUS
<1>6. (site \in {"blank", "accounts", "myaccount", "setup", "vault"})'
  BY DEF Cleared
<1>7. (docs \in 0..MaxDocs /\ mm \in [wrapped : BOOLEAN, own : BOOLEAN])'
  BY DEF Cleared
<1>8. (flow \in {"oauth", "key"} /\ hasDeadline \in BOOLEAN
        /\ sawClosed \in BOOLEAN)'
  OBVIOUS
<1>9. (/\ captured \in BOOLEAN /\ closed \in BOOLEAN /\ cookie \in BOOLEAN
       /\ assigned \in BOOLEAN /\ missed \in BOOLEAN)'
  BY DEF Cleared
<1> QED
  BY <1>2, <1>3, <1>4, <1>5, <1>6, <1>7, <1>8, <1>9

\* The initial state satisfies the invariant.
LEMMA InitFlowInv == Init => FlowInv
<1> SUFFICES ASSUME Init PROVE FlowInv
  OBVIOUS
<1>1. 0 \in 0..MaxDocs /\ FreshMM \in [wrapped : BOOLEAN, own : BOOLEAN]
  BY BoundAssumption DEF FreshMM
<1>2. TypeOK
  BY <1>1 DEF Init, TypeOK, PCs, Results
<1> QED
  BY <1>2 DEF Init, FlowInv, HookedCaptures, TimeoutIsLastResort, Stages, Globals

\* A return other than by a timeout keeps the invariant.
LEMMA FinishKeepsFlowInv ==
  ASSUME FlowInv, NEW r \in Results \ {"none"}, Finish(r),
         r = "timeout" => ~captured /\ (flow = "oauth" => ~cookie)
  PROVE  FlowInv'
  BY BoundAssumption
  DEF Finish, FlowInv, TypeOK, HookedCaptures, TimeoutIsLastResort, Stages,
      Globals, PCs, call, time, page, user

\* A step of the flow.
LEMMA FlowKeepsFlowInv ==
  ASSUME FlowInv, Flow
  PROVE  FlowInv'
<1> USE BoundAssumption, FinishKeepsFlowInv
    DEF FlowInv, TypeOK, HookedCaptures, TimeoutIsLastResort, Stages, Globals,
        PCs, Results, call, time, page, user
<1>1. CASE CheckProfile
  BY <1>1 DEF CheckProfile
<1>2. CASE Launch
  <2>1. flow = "oauth" => Load("setup") /\ pc' = "poll" /\ phase' = "cookies"
    BY <1>2 DEF Launch
  <2>2. flow = "key" => UNCHANGED <<page, phase>> /\ pc' = "accounts"
    BY <1>2 DEF Launch
  <2>3. /\ pc = "launch" /\ browser' = "up"
        /\ UNCHANGED <<call, result, time, sawClosed, user>>
    BY <1>2 DEF Launch
  <2>4. CASE flow = "oauth"
    <3>1. Cleared("setup")
      BY <2>1, <2>4, LoadClears
    <3>2. pc' = "poll" /\ phase' = "cookies"
      BY <2>1, <2>4
    <3>3. TypeOK'
      BY <2>3, <3>1, <3>2, ClearedKeepsTypes
    <3>4. HookedCaptures' /\ TimeoutIsLastResort' /\ Stages' /\ Globals'
      BY <2>3, <2>4, <3>1, <3>2 DEF Cleared
    <3> QED
      BY <3>3, <3>4
  <2>5. CASE flow = "key"
    BY <2>2, <2>3, <2>5
  <2> QED
    BY <2>4, <2>5
<1>3. CASE Accounts
  <2>1. Cleared("accounts")
    BY <1>3, LoadClears DEF Accounts
  <2>2. /\ pc = "accounts" /\ pc' = "poll" /\ phase' = "signin"
        /\ UNCHANGED <<call, result, time, browser, sawClosed, user>>
    BY <1>3 DEF Accounts
  <2>3. TypeOK'
    BY <2>1, <2>2, ClearedKeepsTypes
  <2>4. HookedCaptures' /\ TimeoutIsLastResort' /\ Stages' /\ Globals'
    BY <2>1, <2>2 DEF Cleared
  <2> QED
    BY <2>3, <2>4
<1>4. CASE NavigateFails
  BY <1>4 DEF NavigateFails
<1>5. CASE PollFound
  BY <1>5 DEF PollFound
<1>6. CASE PollNothing
  BY <1>6 DEF PollNothing, NothingYet
<1>7. CASE PollError
  BY <1>7 DEF PollError
<1>8. CASE Vault
  <2>1. Cleared("vault")
    BY <1>8, LoadClears DEF Vault
  <2>2. /\ pc = "vault" /\ pc' = "fallback"
        /\ UNCHANGED <<call, phase, result, time, browser, sawClosed, user>>
    BY <1>8 DEF Vault
  <2>3. TypeOK'
    BY <2>1, <2>2, ClearedKeepsTypes
  <2>4. HookedCaptures' /\ TimeoutIsLastResort' /\ Stages' /\ Globals'
    BY <2>1, <2>2 DEF Cleared
  <2> QED
    BY <2>3, <2>4
<1>9. CASE Fallback
  <2>1. /\ mm' \in [wrapped : BOOLEAN, own : BOOLEAN]
        /\ assigned' \in BOOLEAN /\ (assigned' => mm'.wrapped)
        /\ UNCHANGED <<site, docs, captured, closed>>
    <3>1. CASE MustFail
      BY <1>9, <3>1 DEF Fallback
    <3>2. CASE ~MustFail
      BY <1>9, <3>2 DEF Fallback
    <3> QED
      BY <3>1, <3>2
  <2>2. late' \in BOOLEAN
    BY <1>9 DEF Fallback
  <2>3. /\ pc = "fallback" /\ pc' = "poll" /\ phase' = "keys"
        /\ UNCHANGED <<call, result, ctxEnd, browser, sawClosed, user>>
    BY <1>9 DEF Fallback
  <2> QED
    BY <2>1, <2>2, <2>3
<1>10. CASE ReadClosed
  BY <1>10 DEF ReadClosed
<1>11. CASE ReadKeys
  BY <1>11 DEF ReadKeys
<1>12. CASE Tick
  BY <1>12 DEF Tick
<1>13. CASE CtxDone
  BY <1>13 DEF CtxDone
<1> QED
  BY <1>1, <1>2, <1>3, <1>4, <1>5, <1>6, <1>7, <1>8, <1>9, <1>10, <1>11,
     <1>12, <1>13 DEF Flow

\* A step of the clock, the caller, Chrome, the user or the page.
LEMMA WorldKeepsFlowInv ==
  ASSUME FlowInv, World
  PROVE  FlowInv'
<1> USE BoundAssumption
    DEF FlowInv, TypeOK, HookedCaptures, TimeoutIsLastResort, Stages, Globals,
        PCs, Results, call, time, page, user, control
<1>1. CASE Late
  BY <1>1 DEF Late
<1>2. CASE CtxExpires
  BY <1>2 DEF CtxExpires
<1>3. CASE Cancel
  BY <1>3 DEF Cancel
<1>4. CASE ChromeDies
  BY <1>4 DEF ChromeDies
<1>5. CASE OtherChrome
  BY <1>5 DEF OtherChrome
<1>6. CASE SignIn
  <2>1. browser = "up" /\ UNCHANGED <<control, browser, otherChrome, missed>>
    BY <1>6 DEF SignIn
  <2>2. CASE Load("myaccount") /\ UNCHANGED cookie
    <3>1. Cleared("myaccount")
      BY <2>2, LoadClears
    <3>2. TypeOK'
      BY <2>1, <2>2, <3>1, ClearedKeepsTypes
    <3>3. TimeoutIsLastResort' /\ Stages'
      BY <2>1, <2>2, <3>1 DEF Cleared
    <3> QED
      BY <2>1, <3>1, <3>2, <3>3 DEF Cleared
  <2>3. CASE site = "setup" /\ cookie' = TRUE /\ UNCHANGED page
    BY <2>1, <2>3
  <2> QED
    BY <1>6, <2>2, <2>3 DEF SignIn
<1>7. CASE Redirect
  <2>1. Cleared("vault")
    BY <1>7, LoadClears DEF Redirect
  <2>2. site = "vault" /\ UNCHANGED <<control, browser, user>>
    BY <1>7 DEF Redirect
  <2>3. TypeOK'
    BY <2>1, <2>2, ClearedKeepsTypes
  <2>4. TimeoutIsLastResort' /\ Stages'
    BY <2>1, <2>2 DEF Cleared
  <2> QED
    BY <2>1, <2>2, <2>3, <2>4 DEF Cleared
<1>8. CASE Assign
  <2>1. mm' \in [wrapped : BOOLEAN, own : BOOLEAN] /\ mm'.wrapped = TRUE
    BY <1>8 DEF Assign
  <2>2. /\ site = "vault" /\ assigned' = TRUE
        /\ UNCHANGED <<control, browser, site, docs, captured, closed, user>>
    BY <1>8 DEF Assign
  <2> QED
    BY <2>1, <2>2
<1>9. CASE Define
  <2>1. /\ mm' \in [wrapped : BOOLEAN, own : BOOLEAN]
        /\ mm'.wrapped = mm.wrapped
    BY <1>9 DEF Define
  <2>2. UNCHANGED <<control, browser, site, docs, captured, closed, assigned,
                    user>>
    BY <1>9 DEF Define
  <2> QED
    BY <2>1, <2>2
<1>10. CASE HandOver
  BY <1>10 DEF HandOver
<1>11. CASE CloseView
  BY <1>11 DEF CloseView
<1> QED
  BY <1>1, <1>2, <1>3, <1>4, <1>5, <1>6, <1>7, <1>8, <1>9, <1>10, <1>11
  DEF World

\* The invariant is inductive.
LEMMA NextKeepsFlowInv == FlowInv /\ [Next]_vars => FlowInv'
<1>1. FlowInv /\ UNCHANGED vars => FlowInv'
  BY DEF FlowInv, TypeOK, HookedCaptures, TimeoutIsLastResort, Stages, Globals,
         vars, call, time, page, user
<1> QED
  BY <1>1, FlowKeepsFlowInv, WorldKeepsFlowInv DEF Next

\* The inductive invariant holds in every reachable state.
THEOREM FlowInvariance == Spec => []FlowInv
  BY InitFlowInv, NextKeepsFlowInv, PTL DEF Spec

\* The flows keep the types of their variables; in particular a flow has a
\* result exactly when it has returned.
THEOREM FlowTypes == Spec => []TypeOK
<1>1. FlowInv => TypeOK
  BY DEF FlowInv
<1> QED
  BY <1>1, FlowInvariance, PTL

\* Whatever documents the page goes through, and in whatever order it sets and
\* calls the methods, an object it assigned, or the fallback wrapped, captures
\* the keys (vaultKeysHookJS, wrapVaultKeysJS).
THEOREM HookCaptures == Spec => []HookedCaptures
<1>1. FlowInv => HookedCaptures
  BY DEF FlowInv
<1> QED
  BY <1>1, FlowInvariance, PTL

\* A flow reports ErrTimeout only when what it waits for has not come.
THEOREM TimeoutComesLast == Spec => []TimeoutIsLastResort
<1>1. FlowInv => TimeoutIsLastResort
  BY DEF FlowInv
<1> QED
  BY <1>1, FlowInvariance, PTL

-----------------------------------------------------------------------------
(* MapsAuth: it shares BrowserFlow's control, clock and browser *)

CONSTANT MaxCookies
VARIABLES jar, allCookies, saved

M == INSTANCE MapsAuth

\* The relation < on the numbers is well-founded.
LEMMA LessIsWellFounded ==
  IsWellFoundedOn({p \in Nat \X Nat : p[1] < p[2]}, Nat)
<1>1. IsWellFoundedOn(OpToRel(<, Nat), Nat)
  BY NatLessThanWellFounded
<1>2. OpToRel(<, Nat) = {p \in Nat \X Nat : p[1] < p[2]}
  BY DEF OpToRel
<1> QED
  BY <1>1, <1>2

\* A set of numbers with a number in it has a least one.
LEMMA Least ==
  ASSUME NEW T \in SUBSET Nat, T # {}
  PROVE  \E n \in T : \A m \in T : n <= m
<1> DEFINE R == {p \in Nat \X Nat : p[1] < p[2]}
<1>1. PICK n \in T : \A m \in T : <<m, n>> \notin R
  <2> HIDE DEF R
  <2>1. IsWellFoundedOn(R, Nat)
    BY LessIsWellFounded DEF R
  <2> QED
    BY <2>1, WFMin
<1>2. ASSUME NEW m \in T PROVE n <= m
  <2>1. <<m, n>> \in Nat \X Nat /\ <<m, n>>[1] = m /\ <<m, n>>[2] = n
    OBVIOUS
  <2>2. ~(m < n)
    BY <1>1, <2>1
  <2> QED
    BY <2>2
<1> QED
  BY <1>2

\* Induction, over a set of numbers instead of a predicate.
LEMMA SetInduction ==
  ASSUME NEW S \in SUBSET Nat, 0 \in S, \A n \in S : n + 1 \in S
  PROVE  S = Nat
<1>1. SUFFICES ASSUME S # Nat PROVE FALSE
  OBVIOUS
<1>2. PICK n \in Nat \ S : \A m \in Nat \ S : n <= m
  BY <1>1, Least
<1>3. n - 1 \in Nat /\ n - 1 \in S
  BY <1>2
<1> QED
  BY <1>2, <1>3

\* The loop over the cookies: what is kept after i of them.
LEMMA ChosenStepByStep ==
  ASSUME NEW cs \in Seq(M!Cookies)
  PROVE  \E kept : /\ kept[0] = M!NoneKept
                   /\ \A i \in 1..Len(cs) : kept[i] = M!Considered(cs, kept[i - 1], i)
                   /\ M!Chosen(cs) = kept[Len(cs)]
<1> DEFINE Loop(n, f) == f = [i \in 0..n |-> IF i = 0 THEN M!NoneKept
                                            ELSE M!Considered(cs, f[i - 1], i)]
           T == {n \in Nat : \E f : Loop(n, f)}
<1>1. 0 \in T
  <2>1. Loop(0, [i \in 0..0 |-> M!NoneKept])
    OBVIOUS
  <2> QED
    BY <2>1
<1>2. ASSUME NEW n \in T PROVE n + 1 \in T
  <2>1. PICK f : Loop(n, f)
    OBVIOUS
  <2> DEFINE g == [i \in 0..(n + 1) |-> IF i = n + 1 THEN M!Considered(cs, f[n], n + 1)
                                         ELSE f[i]]
  <2>2. ASSUME NEW i \in 0..(n + 1)
        PROVE  g[i] = IF i = 0 THEN M!NoneKept ELSE M!Considered(cs, g[i - 1], i)
    <3>1. CASE i = 0
      BY <2>1, <3>1
    <3>2. CASE i = n + 1
      <4>1. g[i] = M!Considered(cs, f[n], n + 1) /\ g[i - 1] = f[n]
        BY <3>2
      <4> QED
        BY <3>2, <4>1
    <3>3. CASE i \in 1..n
      <4>1. g[i] = f[i] /\ g[i - 1] = f[i - 1] /\ i \in 0..n /\ i # 0
        BY <3>3
      <4>2. f[i] = M!Considered(cs, f[i - 1], i)
        BY <2>1, <4>1
      <4> QED
        BY <4>1, <4>2
    <3> QED
      BY <3>1, <3>2, <3>3
  <2>3. Loop(n + 1, g)
    BY <2>2
  <2>4. n + 1 \in Nat
    OBVIOUS
  <2> HIDE DEF Loop, g
  <2>5. \E f_ : Loop(n + 1, f_)
    BY <2>3
  <2> QED
    BY <2>4, <2>5
<1>3. T = Nat
  <2> HIDE DEF T
  <2>1. T \in SUBSET Nat
    BY DEF T
  <2> QED
    BY <1>1, <1>2, <2>1, SetInduction
<1>4. Len(cs) \in Nat
  OBVIOUS
<1>5. \E f : Loop(Len(cs), f)
  BY <1>3, <1>4
<1> DEFINE kept == CHOOSE f : Loop(Len(cs), f)
<1>6. Loop(Len(cs), kept)
  BY <1>5
<1>7. M!Chosen(cs) = kept[Len(cs)]
  BY DEF M!Chosen
<1> HIDE DEF kept
<1>8. kept[0] = M!NoneKept /\ \A i \in 1..Len(cs) : kept[i] = M!Considered(cs, kept[i - 1], i)
  BY <1>4, <1>6
<1> QED
  BY <1>7, <1>8

\* The cookies named m worth storing among the first n, and the best of them.
KeptOf(cs, n, m) == {i \in 1..n : cs[i].name = m /\ M!Kept(cs[i])}
ExactOf(cs, n, m) == {i \in KeptOf(cs, n, m) : cs[i].domain = "google.com"}
BestOf(cs, n, m) ==
  IF ExactOf(cs, n, m) = {} THEN KeptOf(cs, n, m) ELSE ExactOf(cs, n, m)

\* kept is, for every name, the last of the best cookies among the first n.
KeepsBest(cs, n, kept) ==
  /\ kept \in [M!Names -> 0..n]
  /\ \A m \in M!Names :
       /\ kept[m] = 0 => KeptOf(cs, n, m) = {}
       /\ kept[m] # 0 => /\ kept[m] \in BestOf(cs, n, m)
                         /\ \A i \in BestOf(cs, n, m) : i <= kept[m]

\* Considering the next cookie keeps the best of all (preferDomain).
LEMMA ConsideredKeepsBest ==
  ASSUME NEW cs \in Seq(M!Cookies), NEW n \in Nat, n + 1 <= Len(cs),
         NEW kept, KeepsBest(cs, n, kept)
  PROVE  KeepsBest(cs, n + 1, M!Considered(cs, kept, n + 1))
<1> DEFINE c == cs[n + 1]
           next == M!Considered(cs, kept, n + 1)
<1>1. c \in M!Cookies
  <2>1. n + 1 \in 1..Len(cs)
    OBVIOUS
  <2> QED
    BY <2>1
<1>2. kept \in [M!Names -> 0..n]
  BY DEF KeepsBest
<1>3. next \in [M!Names -> 0..(n + 1)]
  <2>1. c.name \in M!Names
    BY <1>1 DEF M!Cookies
  <2>2. [kept EXCEPT ![c.name] = n + 1] \in [M!Names -> 0..(n + 1)]
    BY <1>2, <2>1
  <2>3. next = [kept EXCEPT ![c.name] = n + 1] \/ next = kept
    BY DEF M!Considered
  <2>4. kept \in [M!Names -> 0..(n + 1)]
    BY <1>2
  <2> HIDE DEF next
  <2> QED
    BY <2>2, <2>3, <2>4
<1>4. ASSUME NEW m \in M!Names
      PROVE  /\ next[m] = 0 => KeptOf(cs, n + 1, m) = {}
             /\ next[m] # 0 => /\ next[m] \in BestOf(cs, n + 1, m)
                               /\ \A i \in BestOf(cs, n + 1, m) : i <= next[m]
  <2>1. /\ kept[m] = 0 => KeptOf(cs, n, m) = {}
        /\ kept[m] # 0 => /\ kept[m] \in BestOf(cs, n, m)
                          /\ \A i \in BestOf(cs, n, m) : i <= kept[m]
    BY DEF KeepsBest
  <2>2. kept[m] \in 0..n
    BY <1>2
  <2>3. CASE ~(c.name = m /\ M!Kept(c))
    <3>1. KeptOf(cs, n + 1, m) = KeptOf(cs, n, m)
      BY <2>3 DEF KeptOf
    <3>2. BestOf(cs, n + 1, m) = BestOf(cs, n, m)
      BY <3>1 DEF BestOf, ExactOf
    <3>3. next[m] = kept[m]
      BY <1>2, <2>3 DEF M!Considered
    <3> QED
      BY <2>1, <3>1, <3>2, <3>3
  <2>4. CASE c.name = m /\ M!Kept(c)
    <3>1. KeptOf(cs, n + 1, m) = KeptOf(cs, n, m) \cup {n + 1}
      BY <2>4 DEF KeptOf
    <3>2. \A i \in KeptOf(cs, n + 1, m) : i <= n + 1
      BY DEF KeptOf
    <3>3. \A i \in BestOf(cs, n + 1, m) : i <= n + 1
      BY <3>2 DEF BestOf, ExactOf
    <3>4. next[m] = IF kept[m] # 0 => M!preferDomain(c.domain, cs[kept[m]].domain)
                      THEN n + 1 ELSE kept[m]
      BY <1>2, <2>4 DEF M!Considered
    <3>5. CASE kept[m] = 0
      <4>1. KeptOf(cs, n + 1, m) = {n + 1} /\ next[m] = n + 1
        BY <2>1, <3>1, <3>4, <3>5
      <4>2. n + 1 \in BestOf(cs, n + 1, m)
        BY <4>1 DEF BestOf, ExactOf
      <4> QED
        BY <3>3, <4>1, <4>2
    <3>6. CASE c.domain = "google.com"
      <4>1. next[m] = n + 1
        BY <3>4, <3>6 DEF M!preferDomain
      <4>2. n + 1 \in ExactOf(cs, n + 1, m)
        BY <3>1, <3>6 DEF ExactOf
      <4> QED
        BY <3>3, <4>1, <4>2 DEF BestOf
    <3>7. CASE kept[m] # 0 /\ c.domain # "google.com"
      <4>1. ExactOf(cs, n + 1, m) = ExactOf(cs, n, m)
        BY <3>1, <3>7 DEF ExactOf
      <4>2. CASE cs[kept[m]].domain = "google.com"
        <5>1. next[m] = kept[m]
          BY <3>4, <3>7, <4>2 DEF M!preferDomain
        <5>2. kept[m] \in ExactOf(cs, n, m)
          BY <2>1, <3>7, <4>2 DEF BestOf, ExactOf
        <5>3. BestOf(cs, n + 1, m) = BestOf(cs, n, m)
          BY <4>1, <5>2 DEF BestOf
        <5> QED
          BY <2>1, <3>7, <5>1, <5>3
      <4>3. CASE cs[kept[m]].domain # "google.com"
        <5>1. next[m] = n + 1
          BY <3>4, <4>3 DEF M!preferDomain
        <5>2. ExactOf(cs, n + 1, m) = {}
          BY <2>1, <3>7, <4>1, <4>3 DEF BestOf, ExactOf
        <5>3. n + 1 \in BestOf(cs, n + 1, m)
          BY <3>1, <5>2 DEF BestOf
        <5> QED
          BY <3>3, <5>1, <5>3
      <4> QED
        BY <4>2, <4>3
    <3> QED
      BY <3>5, <3>6, <3>7
  <2> QED
    BY <2>3, <2>4
<1> QED
  BY <1>3, <1>4 DEF KeepsBest

\* The loop keeps, per name, the last of the best cookies.
LEMMA ChosenKeepsBest ==
  ASSUME NEW cs \in Seq(M!Cookies)
  PROVE  KeepsBest(cs, Len(cs), M!Chosen(cs))
<1>1. Len(cs) \in Nat
  OBVIOUS
<1>2. PICK kept : /\ kept[0] = M!NoneKept
                  /\ \A i \in 1..Len(cs) : kept[i] = M!Considered(cs, kept[i - 1], i)
                  /\ M!Chosen(cs) = kept[Len(cs)]
  BY ChosenStepByStep
<1> DEFINE S == {n \in Nat : n <= Len(cs) => KeepsBest(cs, n, kept[n])}
<1>3. 0 \in S
  <2>1. KeepsBest(cs, 0, M!NoneKept)
    BY DEF KeepsBest, KeptOf, M!NoneKept, M!Names
  <2> QED
    BY <1>2, <2>1
<1>4. ASSUME NEW n \in S PROVE n + 1 \in S
  <2>1. ASSUME n + 1 <= Len(cs) PROVE KeepsBest(cs, n + 1, kept[n + 1])
    <3>1. KeepsBest(cs, n, kept[n]) /\ n + 1 \in 1..Len(cs) /\ (n + 1) - 1 = n
      BY <1>1, <2>1
    <3>2. kept[n + 1] = M!Considered(cs, kept[n], n + 1)
      BY <1>2, <3>1
    <3>3. KeepsBest(cs, n + 1, M!Considered(cs, kept[n], n + 1))
      BY <2>1, <3>1, ConsideredKeepsBest
    <3> QED
      BY <3>2, <3>3
  <2> QED
    BY <2>1
<1>5. S = Nat
  <2> HIDE DEF S
  <2>1. S \in SUBSET Nat
    BY DEF S
  <2> QED
    BY <1>3, <1>4, <2>1, SetInduction
<1>6. KeepsBest(cs, Len(cs), kept[Len(cs)])
  BY <1>1, <1>5
<1> QED
  BY <1>2, <1>6

\* What the sequences of at most n cookies are.
LEMMA CookiesUpTo ==
  ASSUME NEW n \in Nat, NEW cs
  PROVE  cs \in M!BoundedSeq(M!Cookies, n) <=> cs \in Seq(M!Cookies) /\ Len(cs) <= n
<1>1. cs \in M!BoundedSeq(M!Cookies, n) <=> \E m \in 0..n : cs \in [1..m -> M!Cookies]
  BY DEF M!BoundedSeq, M!SeqOf
<1>2. ASSUME NEW m \in 0..n, cs \in [1..m -> M!Cookies]
      PROVE  cs \in Seq(M!Cookies) /\ Len(cs) <= n
  <2>1. m \in Nat
    OBVIOUS
  <2> QED
    BY <1>2, <2>1
<1>3. ASSUME cs \in Seq(M!Cookies), Len(cs) <= n
      PROVE  \E m \in 0..n : cs \in [1..m -> M!Cookies]
  <2>1. Len(cs) \in 0..n /\ cs \in [1..Len(cs) -> M!Cookies]
    BY <1>3
  <2> QED
    BY <2>1
<1> QED
  BY <1>1, <1>2, <1>3

\* Removing a cookie leaves cookies, one fewer.
LEMMA RemovedIsShorter ==
  ASSUME NEW cs \in Seq(M!Cookies), NEW i \in DOMAIN cs
  PROVE  /\ M!RemoveAt(cs, i) \in Seq(M!Cookies)
         /\ Len(M!RemoveAt(cs, i)) < Len(cs)
<1> DEFINE front == SubSeq(cs, 1, i - 1)
           back  == SubSeq(cs, i + 1, Len(cs))
<1>1. i \in 1..Len(cs) /\ Len(cs) \in Nat
  OBVIOUS
<1>2. front \in Seq(M!Cookies) /\ Len(front) = i - 1
  BY <1>1
<1>3. back \in Seq(M!Cookies) /\ Len(back) = Len(cs) - i
  BY <1>1
<1>4. M!RemoveAt(cs, i) = front \o back
  BY DEF M!RemoveAt
<1> HIDE DEF front, back
<1>5. front \o back \in Seq(M!Cookies) /\ Len(front \o back) = Len(front) + Len(back)
  BY <1>2, <1>3, ConcatProperties, Zenon
<1> QED
  BY <1>1, <1>2, <1>3, <1>4, <1>5

\* The invariant holds initially.
LEMMA InitAuth == MaxCookies \in Nat \ {0} /\ M!Init => M!AuthInv
<1> SUFFICES ASSUME MaxCookies \in Nat \ {0}, M!Init PROVE M!AuthInv
  OBVIOUS
<1>1. jar \in Seq(M!Cookies) /\ Len(jar) <= 1
  BY CookiesUpTo DEF M!Init
<1>2. jar \in M!BoundedSeq(M!Cookies, MaxCookies)
  BY <1>1, CookiesUpTo
<1>3. allCookies \in M!BoundedSeq(M!Cookies, MaxCookies)
  <2>1. allCookies \in Seq(M!Cookies) /\ Len(allCookies) <= MaxCookies
    BY DEF M!Init
  <2> QED
    BY <2>1, CookiesUpTo
<1>4. M!NoneKept \in [M!Names -> 0..MaxCookies]
  BY DEF M!NoneKept
<1> QED
  BY <1>2, <1>3, <1>4 DEF M!Init, M!AuthInv, M!TypeOK, M!StoresChoice

\* The steps of AuthenticateMaps keep the invariant.
LEMMA FlowKeepsAuth ==
  ASSUME MaxCookies \in Nat \ {0}, M!AuthInv, M!Flow
  PROVE  M!AuthInv'
<1> USE DEF M!AuthInv, M!TypeOK, M!StoresChoice
<1>1. CASE M!CheckProfile
  BY <1>1 DEF M!CheckProfile, M!Finish, M!Goto
<1>2. CASE M!Launch
  BY <1>2 DEF M!Launch, M!Goto
<1>3. CASE M!LaunchFails
  BY <1>3 DEF M!LaunchFails, M!Finish
<1>4. CASE M!Tick
  BY <1>4 DEF M!Tick, M!Goto
<1>5. CASE M!CtxDone
  BY <1>5 DEF M!CtxDone, M!Finish
<1>6. CASE M!PollFails
  BY <1>6 DEF M!PollFails, M!Goto
<1>7. CASE M!Poll
  BY <1>7 DEF M!Poll, M!Finish, M!Goto
<1>8. CASE M!Settle
  BY <1>8 DEF M!Settle, M!Goto
<1>9. CASE M!Refetch
  BY <1>9 DEF M!Refetch, M!Finish, M!Goto
<1>10. CASE M!Save
  <2> DEFINE kept == M!Chosen(allCookies)
  <2>1. kept \in [M!Names -> 0..MaxCookies]
    <3>1. allCookies \in Seq(M!Cookies) /\ Len(allCookies) <= MaxCookies
      BY CookiesUpTo
    <3>2. kept \in [M!Names -> 0..Len(allCookies)]
      BY <3>1, ChosenKeepsBest DEF KeepsBest
    <3>3. 0..Len(allCookies) \subseteq 0..MaxCookies
      BY <3>1
    <3> HIDE DEF kept
    <3> QED
      BY <3>2, <3>3
  <2>2. kept' = M!Chosen(allCookies') /\ allCookies' = allCookies
    BY <1>10 DEF M!Save, M!Finish
  <2> QED
    BY <1>10, <2>1, <2>2 DEF M!Save, M!Finish
<1> QED
  BY <1>1, <1>2, <1>3, <1>4, <1>5, <1>6, <1>7, <1>8, <1>9, <1>10 DEF M!Flow

\* What happens outside the flow keeps it: the jar stays within its bound.
LEMMA OutsideKeepsAuth ==
  ASSUME MaxCookies \in Nat \ {0}, M!AuthInv,
         \/ M!Late \/ M!CtxEnds \/ M!ChromeDies \/ M!OtherChrome
         \/ M!CookieSet \/ M!CookieRemoved
  PROVE  M!AuthInv'
<1> USE DEF M!AuthInv, M!TypeOK, M!StoresChoice, M!Outside
<1>1. CASE M!Late
  BY <1>1 DEF M!Late
<1>2. CASE M!CtxEnds
  BY <1>2 DEF M!CtxEnds
<1>3. CASE M!ChromeDies
  BY <1>3 DEF M!ChromeDies
<1>4. CASE M!OtherChrome
  BY <1>4 DEF M!OtherChrome
<1>5. jar \in Seq(M!Cookies) /\ Len(jar) \in Nat /\ Len(jar) <= MaxCookies
  BY CookiesUpTo
<1>6. CASE M!CookieSet
  <2>1. PICK c \in M!Cookies : jar' = Append(jar, c)
    BY <1>6 DEF M!CookieSet
  <2>2. jar' \in Seq(M!Cookies) /\ Len(jar') <= MaxCookies
    BY <1>5, <1>6, <2>1 DEF M!CookieSet
  <2>3. jar' \in M!BoundedSeq(M!Cookies, MaxCookies)
    BY <2>2, CookiesUpTo
  <2> QED
    BY <1>6, <2>3 DEF M!CookieSet
<1>7. CASE M!CookieRemoved
  <2>1. PICK i \in DOMAIN jar : jar' = M!RemoveAt(jar, i)
    BY <1>7 DEF M!CookieRemoved
  <2>2. jar' \in Seq(M!Cookies) /\ Len(jar') < Len(jar)
    BY <1>5, <2>1, RemovedIsShorter
  <2>3. Len(jar') <= MaxCookies
    BY <1>5, <2>2
  <2>4. jar' \in M!BoundedSeq(M!Cookies, MaxCookies)
    BY <2>2, <2>3, CookiesUpTo
  <2> QED
    BY <1>7, <2>4 DEF M!CookieRemoved
<1> QED
  BY <1>1, <1>2, <1>3, <1>4, <1>6, <1>7

\* The invariant holds in every reachable state.
THEOREM AuthInvariance ==
  ASSUME MaxCookies \in Nat \ {0}
  PROVE  M!Spec => []M!AuthInv
<1>1. M!Init => M!AuthInv
  BY InitAuth
<1>2. M!AuthInv /\ [M!Next]_M!vars => M!AuthInv'
  <2>1. M!AuthInv /\ UNCHANGED M!vars => M!AuthInv'
    BY DEF M!AuthInv, M!TypeOK, M!StoresChoice, M!vars, M!flow
  <2>2. M!AuthInv /\ M!Next => M!AuthInv'
    BY FlowKeepsAuth, OutsideKeepsAuth DEF M!Next
  <2> QED
    BY <2>1, <2>2
<1> QED
  BY <1>1, <1>2, PTL DEF M!Spec

\* Whatever cookies come and go before the last reading, the value stored for a
\* name is the last one of google.com itself, or the last of any domain when
\* google.com set none (preferDomain in AuthenticateMaps).
THEOREM ExactDomainAlwaysWins ==
  ASSUME MaxCookies \in Nat \ {0}
  PROVE  M!Spec => []M!ExactDomainWins
<1>1. M!AuthInv => M!ExactDomainWins
  <2> SUFFICES ASSUME M!AuthInv PROVE M!ExactDomainWins
    OBVIOUS
  <2>1. allCookies \in Seq(M!Cookies)
    BY CookiesUpTo DEF M!AuthInv, M!TypeOK
  <2>2. ASSUME NEW n \in M!Names, saved[n] # 0
        PROVE  /\ saved[n] \in BestOf(allCookies, Len(allCookies), n)
               /\ \A i \in BestOf(allCookies, Len(allCookies), n) : i <= saved[n]
    <3>1. saved = M!Chosen(allCookies)
      BY <2>2 DEF M!AuthInv, M!StoresChoice, M!NoneKept
    <3>2. KeepsBest(allCookies, Len(allCookies), saved)
      BY <2>1, <3>1, ChosenKeepsBest
    <3> QED
      BY <2>2, <3>2 DEF KeepsBest
  <2>3. DOMAIN allCookies = 1..Len(allCookies)
    BY <2>1
  <2> QED
    BY <2>2, <2>3 DEF M!ExactDomainWins, BestOf, ExactOf, KeptOf
<1> QED
  BY <1>1, AuthInvariance, PTL

-----------------------------------------------------------------------------
(* Unwrapping: what an opening opens *)

\* A ciphertext was sealed for a purpose under a key, with the key pair of a
\* sender whose public key is given where the purpose wants one.
SealedFor(d, purpose, key, public) ==
  \/ purpose \in K!Direct /\ d.key = key /\ d.at = 0 /\ d.ad = ""
  \/ purpose = "report" /\ d.key = K!Derived(key, "SHA-256") /\ d.at = 0 /\ d.ad = ""
  \/ /\ purpose = "recovery" /\ d.key = K!Derived(key, K!SharedInfo)
     /\ d.at = 2 /\ d.ad = "V1 locally_encrypted_recovery_key"
  \/ /\ purpose = "application" /\ d.key = K!Derived(key, K!SharedInfo)
     /\ d.at = 2 /\ d.ad = "V1 encrypted_application_key"
  \/ /\ purpose = "shared" /\ d.key = K!Derived(K!ECDH(key, public), K!P256Info)
     /\ d.at = 67 /\ d.ad = "V1 shared_key"

\* What opened is the whole of a ciphertext.
Opened(read, d) == d.alg = "gcm" /\ d.len = d.full /\ read.key = d.plain

\* What came out of GCM, if anything did, was sealed with this key, at this
\* place, with these associated data, and is whole.
Reads(read, d, key, at, ad) ==
  /\ read.err # "panic"
  /\ read.err = "none" => Opened(read, d) /\ d.key = key /\ d.at = at /\ d.ad = ad

\* That is so, without a panic, wherever the slice is in bounds (gcmDecryptAD).
LEMMA GCMOpens ==
  ASSUME NEW key, NEW d, d.len \in Nat, NEW at \in Nat, at <= d.len, NEW ad
  PROVE  Reads(K!GCM(key, d, at, ad), d, key, at, ad)
BY DEF K!GCM, K!Refused, K!Ok, K!Whole, Opened, Reads

\* With a key derived from one that is known: an error, or what GCM makes of it.
LEMMA DerivedReads ==
  ASSUME NEW d, d.len \in Nat, NEW private, NEW info, NEW ad
  PROVE  LET read == K!DecryptWithDerivedKey(d, private, info, ad, FALSE)
         IN  \/ read.err \in {"version", "short"}
             \/ Reads(read, d, K!Derived(private, info), 2, ad)
<1> DEFINE read == K!DecryptWithDerivedKey(d, private, info, ad, FALSE)
           gcm  == K!GCM(K!Derived(private, info), d, 2, ad)
<1>1. read.err \in {"version", "short"} \/ (2 <= d.len /\ read = gcm)
  BY DEF K!DecryptWithDerivedKey, K!Truncated, K!Refused
<1>2. 2 \in Nat
  OBVIOUS
<1>3. 2 <= d.len => Reads(gcm, d, K!Derived(private, info), 2, ad)
  BY <1>2, GCMOpens, Zenon
<1> HIDE DEF read, gcm
<1>4. read.err \in {"version", "short"} \/ Reads(read, d, K!Derived(private, info), 2, ad)
  BY <1>1, <1>3
<1> QED
  BY <1>4 DEF read

\* With a key agreed on with the public key in front of the IV.
LEMMA AgreedReads ==
  ASSUME NEW d, d.len \in Nat, NEW private, NEW info, NEW ad
  PROVE  LET read == K!DecryptWithDerivedKey(d, private, info, ad, TRUE)
         IN  \/ read.err \in {"version", "short", "public key"}
             \/ /\ Reads(read, d, K!Derived(K!ECDH(private, d.public), info), 67, ad)
                /\ d.public.of # {}
<1> DEFINE read == K!DecryptWithDerivedKey(d, private, info, ad, TRUE)
           key  == K!Derived(K!ECDH(private, d.public), info)
           gcm  == K!GCM(key, d, 2 + 65, ad)
<1>1. \/ read.err \in {"version", "short", "public key"}
      \/ 2 + 65 <= d.len /\ d.public.of # {} /\ read = gcm
  <2>1. read = IF d.len < 2 \/ d.version # "2.0" THEN K!Refused("version")
               ELSE IF d.len < 2 + 65 + 12 THEN K!Refused("short")
               ELSE IF d.public.of = {} THEN K!Refused("public key") ELSE gcm
    BY Zenon DEF K!DecryptWithDerivedKey, K!Truncated
  <2> HIDE DEF read, gcm
  <2>2. ~(d.len < 2 + 65 + 12) => 2 + 65 <= d.len
    OBVIOUS
  <2> QED
    BY <2>1, <2>2 DEF K!Refused
<1>2. 2 + 65 \in Nat /\ 2 + 65 = 67
  OBVIOUS
<1>3. 2 + 65 <= d.len => Reads(gcm, d, key, 2 + 65, ad)
  BY <1>2, GCMOpens, Zenon
<1> HIDE DEF read, gcm
<1>4. \/ read.err \in {"version", "short", "public key"}
      \/ Reads(read, d, key, 67, ad) /\ d.public.of # {}
  BY <1>1, <1>2, <1>3
<1> QED
  BY <1>4 DEF read

\* An identity or an account key of a length at which nothing authenticates it.
Unauthenticated(purpose, d) ==
  \/ purpose = "identity" /\ d.len = 48
  \/ purpose = "account" /\ d.len = 32

\* What an opening for a purpose may yield: no panic, and nothing but what was
\* sealed for it, but where nothing authenticates.
Opens(read, d, purpose, key) ==
  /\ read.err # "panic"
  /\ read.err = "none" =>
       \/ Unauthenticated(purpose, d)
       \/ /\ Opened(read, d) /\ SealedFor(d, purpose, key, d.public)
          /\ purpose = "shared" => d.public.of # {}

\* With the key itself.
LEMMA DirectOpens ==
  ASSUME NEW key, NEW d, d.len \in Nat, NEW q, q \in K!Direct
  PROVE  Opens(K!GCM(key, d, 0, ""), d, q, key)
<1>1. 0 \in Nat /\ 0 <= d.len
  OBVIOUS
<1>2. Reads(K!GCM(key, d, 0, ""), d, key, 0, "")
  BY <1>1, GCMOpens, Zenon
<1>3. q # "shared"
  BY DEF K!Direct
<1> QED
  BY <1>2, <1>3 DEF Opens, SealedFor, Reads

\* The owner's reports.
LEMMA ReportOpens ==
  ASSUME NEW key, NEW d, d.len \in Nat
  PROVE  Opens(K!Open("report", key, d), d, "report", key)
<1> DEFINE read == K!GCM(K!Derived(key, "SHA-256"), d, 0, "")
<1>1. 0 \in Nat /\ 0 <= d.len
  OBVIOUS
<1>2. Reads(read, d, K!Derived(key, "SHA-256"), 0, "")
  BY <1>1, GCMOpens, Zenon
<1>3. K!Open("report", key, d) = read
  BY DEF K!Open, K!DecryptOwnReport
<1> HIDE DEF read
<1>4. Opens(read, d, "report", key)
  BY <1>2 DEF Opens, SealedFor, Reads
<1> QED
  BY <1>3, <1>4

\* The recovery key.
LEMMA RecoveryOpens ==
  ASSUME NEW key, NEW d, d.len \in Nat
  PROVE  Opens(K!Open("recovery", key, d), d, "recovery", key)
<1> DEFINE ad   == "V1 locally_encrypted_recovery_key"
           read == K!DecryptWithDerivedKey(d, key, K!SharedInfo, ad, FALSE)
<1>1. \/ read.err \in {"version", "short"}
      \/ Reads(read, d, K!Derived(key, K!SharedInfo), 2, ad)
  BY DerivedReads
<1>2. K!Open("recovery", key, d) = read
  BY DEF K!Open, K!DecryptRecoveryKey
<1> HIDE DEF read
<1>3. Opens(read, d, "recovery", key)
  BY <1>1 DEF Opens, SealedFor, Reads
<1> QED
  BY <1>2, <1>3

\* The application key.
LEMMA ApplicationOpens ==
  ASSUME NEW key, NEW d, d.len \in Nat
  PROVE  Opens(K!Open("application", key, d), d, "application", key)
<1> DEFINE ad   == "V1 encrypted_application_key"
           read == K!DecryptWithDerivedKey(d, key, K!SharedInfo, ad, FALSE)
<1>1. \/ read.err \in {"version", "short"}
      \/ Reads(read, d, K!Derived(key, K!SharedInfo), 2, ad)
  BY DerivedReads
<1>2. K!Open("application", key, d) = read
  BY DEF K!Open, K!DecryptApplicationKey
<1> HIDE DEF read
<1>3. Opens(read, d, "application", key)
  BY <1>1 DEF Opens, SealedFor, Reads
<1> QED
  BY <1>2, <1>3

\* The shared key.
LEMMA SharedOpens ==
  ASSUME NEW key, NEW d, d.len \in Nat
  PROVE  Opens(K!Open("shared", key, d), d, "shared", key)
<1> DEFINE ad   == "V1 shared_key"
           read == K!DecryptWithDerivedKey(d, key, K!P256Info, ad, TRUE)
<1>1. \/ read.err \in {"version", "short", "public key"}
      \/ d.public.of # {} /\ Reads(read, d, K!Derived(K!ECDH(key, d.public), K!P256Info), 67, ad)
  BY AgreedReads
<1>2. K!Open("shared", key, d) = read
  BY DEF K!Open, K!DecryptSharedKey
<1> HIDE DEF read
<1>3. Opens(read, d, "shared", key)
  BY <1>1 DEF Opens, SealedFor, Reads
<1> QED
  BY <1>2, <1>3

\* An identity or an account key.
LEMMA SizedOpens ==
  ASSUME NEW key, NEW d, d.len \in Nat,
         NEW q, q \in K!Direct, NEW cbc, cbc \in {32, 48}, NEW gcm, NEW read,
         d.len = cbc => Unauthenticated(q, d),
         read = K!DecryptSized(key, d, cbc, gcm)
  PROVE  Opens(read, d, q, key)
<1>1. \/ read.err = "length"
      \/ d.len = cbc /\ read = K!CBC(key, d)
      \/ read = K!GCM(key, d, 0, "")
  BY DEF K!DecryptSized, K!Refused
<1>2. CASE d.len = cbc /\ read = K!CBC(key, d)
  <2>1. read.err = "none"
    BY <1>2 DEF K!CBC, K!Ok
  <2> QED
    BY <1>2, <2>1 DEF Opens
<1>3. CASE read = K!GCM(key, d, 0, "")
  BY <1>3, DirectOpens
<1>4. CASE read.err = "length"
  BY <1>4 DEF Opens
<1> QED
  BY <1>1, <1>2, <1>3, <1>4

\* Every opening, of any ciphertext and with any key, opens what was sealed for
\* its purpose with that key and nothing else, and none panics (keybackup.go).
LEMMA EveryPurposeOpens ==
  ASSUME NEW q \in K!Purposes, NEW key, NEW d, d.len \in Nat
  PROVE  Opens(K!Open(q, key, d), d, q, key)
<1>1. CASE q = "identity"
  <2>1. K!Open("identity", key, d) = K!DecryptSized(key, d, 48, 60)
    BY DEF K!Open, K!DecryptEIK
  <2>2. /\ "identity" \in K!Direct /\ 48 \in {32, 48}
        /\ d.len = 48 => Unauthenticated("identity", d)
    BY DEF K!Direct, Unauthenticated
  <2>3. Opens(K!DecryptSized(key, d, 48, 60), d, "identity", key)
    BY <2>2, SizedOpens, Zenon
  <2> QED
    BY <1>1, <2>1, <2>3
<1>2. CASE q = "account"
  <2>1. K!Open("account", key, d) = K!DecryptSized(key, d, 32, 44)
    BY DEF K!Open, K!DecryptAccountKey
  <2>2. /\ "account" \in K!Direct /\ 32 \in {32, 48}
        /\ d.len = 32 => Unauthenticated("account", d)
    BY DEF K!Direct, Unauthenticated
  <2>3. Opens(K!DecryptSized(key, d, 32, 44), d, "account", key)
    BY <2>2, SizedOpens, Zenon
  <2> QED
    BY <1>2, <2>1, <2>3
<1>3. CASE q \in {"owner", "domain"}
  <2>1. /\ K!Open("owner", key, d) = K!GCM(key, d, 0, "")
        /\ K!Open("domain", key, d) = K!GCM(key, d, 0, "")
    BY DEF K!Open, K!DecryptOwnerKey, K!DecryptSecurityDomainKey
  <2>2. q \in K!Direct
    BY <1>3 DEF K!Direct
  <2> QED
    BY <1>3, <2>1, <2>2, DirectOpens
<1>4. CASE q = "report"
  BY <1>4, ReportOpens
<1>5. CASE q = "recovery"
  BY <1>5, RecoveryOpens
<1>6. CASE q = "application"
  BY <1>6, ApplicationOpens
<1>7. CASE q = "shared"
  BY <1>7, SharedOpens
<1> QED
  BY <1>1, <1>2, <1>3, <1>4, <1>5, <1>6, <1>7 DEF K!Purposes

-----------------------------------------------------------------------------
(* Unwrapping: what a backup is *)

Fields == {"alg", "key", "ad", "plain", "at", "public", "version", "len", "full"}

\* What is known of a sealed box.
Box(box, alg, key, ad, plain, size, at, public, version) ==
  /\ DOMAIN box = Fields
  /\ box.alg = alg /\ box.key = key /\ box.ad = ad /\ box.plain = plain
  /\ box.at = at /\ box.public = public /\ box.version = version
  /\ box.len \in Nat /\ box.full = box.len
  /\ alg = "gcm" => box.len = at + size + 28
  /\ alg # "gcm" => box.len = at + size + 16

\* Sealing makes a box.
LEMMA SealedIsABox ==
  ASSUME NEW alg, NEW key, NEW ad, NEW plain, NEW size \in Nat, NEW at \in Nat, NEW public,
         NEW version
  PROVE  Box(K!Sealed(alg, key, ad, plain, size, at, public, version),
             alg, key, ad, plain, size, at, public, version)
<1> DEFINE box == K!Sealed(alg, key, ad, plain, size, at, public, version)
           len == at + size + IF alg = "gcm" THEN 12 + 16 ELSE 16
<1>1. box = [alg |-> alg, key |-> key, ad |-> ad, plain |-> plain, at |-> at,
             public |-> public, version |-> version, len |-> len, full |-> len]
  BY Zenon DEF K!Sealed
<1>2. /\ len \in Nat
      /\ alg = "gcm" => len = at + size + 28
      /\ alg # "gcm" => len = at + size + 16
  OBVIOUS
<1> HIDE DEF box, len
<1>3. DOMAIN box = Fields
  BY <1>1 DEF Fields
<1>4. /\ box.alg = alg /\ box.key = key /\ box.ad = ad /\ box.plain = plain
      /\ box.at = at /\ box.public = public /\ box.version = version
      /\ box.len = len /\ box.full = len
  BY <1>1
<1>5. Box(box, alg, key, ad, plain, size, at, public, version)
  BY <1>2, <1>3, <1>4 DEF Box
<1> QED
  BY <1>5 DEF box

\* Every backup is sealed for its purpose (keybackup.go).
LEMMA BackupsAreSealed ==
  ASSUME NEW p \in K!Purposes, NEW k, NEW plain, NEW sender, NEW alg
  PROVE  LET box == K!Backup(p, k, plain, sender, alg)
         IN  /\ DOMAIN box = Fields /\ SealedFor(box, p, k, sender)
             /\ box.plain = plain /\ box.len \in Nat /\ box.full = box.len
             /\ box.public = IF p = "shared" THEN sender ELSE K!Key("none")
<1> DEFINE box == K!Backup(p, k, plain, sender, alg)
           IsABox == /\ DOMAIN box = Fields /\ SealedFor(box, p, k, sender)
                     /\ box.plain = plain /\ box.len \in Nat /\ box.full = box.len
                     /\ box.public = IF p = "shared" THEN sender ELSE K!Key("none")
<1>1. CASE p \in K!Direct
  <2> DEFINE size == IF p = "account" THEN 16 ELSE 32
  <2>1. box = K!Sealed(alg, k, "", plain, size, 0, K!Key("none"), "none")
    BY <1>1 DEF K!Backup, K!Direct
  <2>2. size \in Nat /\ 0 \in Nat
    OBVIOUS
  <2>3. p # "shared"
    BY <1>1 DEF K!Direct
  <2>4. Box(box, alg, k, "", plain, size, 0, K!Key("none"), "none")
    BY <2>1, <2>2, SealedIsABox, ZenonT(60)
  <2> HIDE DEF box
  <2>5. IsABox
    BY <1>1, <2>3, <2>4 DEF SealedFor, Box
  <2> QED
    BY <2>5 DEF box
<1>2. CASE p = "report"
  <2> DEFINE direct == K!Sealed(alg, k, "", plain, 32, 0, K!Key("none"), "none")
  <2>1. box = [direct EXCEPT !.key = K!Derived(k, "SHA-256")]
    BY <1>2 DEF K!Backup, K!Direct
  <2>2. 32 \in Nat /\ 0 \in Nat
    OBVIOUS
  <2>3. Box(direct, alg, k, "", plain, 32, 0, K!Key("none"), "none")
    BY <2>2, SealedIsABox, ZenonT(60)
  <2> HIDE DEF box, direct
  <2>4. IsABox
    BY <1>2, <2>1, <2>3 DEF SealedFor, Fields, Box
  <2> QED
    BY <2>4 DEF box
<1>3. CASE p \in {"application", "recovery"}
  <2> DEFINE ad == IF p = "application" THEN "V1 encrypted_application_key"
                   ELSE "V1 locally_encrypted_recovery_key"
  <2>1. box = K!Sealed("gcm", K!Derived(k, K!SharedInfo), ad, plain, 32, 2,
                       K!Key("none"), "2.0")
    BY <1>3 DEF K!Backup, K!Direct
  <2>2. 32 \in Nat /\ 2 \in Nat
    OBVIOUS
  <2>3. Box(box, "gcm", K!Derived(k, K!SharedInfo), ad, plain, 32, 2, K!Key("none"), "2.0")
    BY <2>1, <2>2, SealedIsABox, ZenonT(60)
  <2> HIDE DEF box
  <2>4. IsABox
    BY <1>3, <2>3 DEF SealedFor, Box
  <2> QED
    BY <2>4 DEF box
<1>4. CASE p = "shared"
  <2>1. box = K!Sealed("gcm", K!Derived(K!ECDH(k, sender), K!P256Info), "V1 shared_key", plain, 32,
                       67, sender, "2.0")
    BY <1>4 DEF K!Backup, K!Direct
  <2>2. 32 \in Nat /\ 67 \in Nat
    OBVIOUS
  <2>3. Box(box, "gcm", K!Derived(K!ECDH(k, sender), K!P256Info), "V1 shared_key", plain, 32,
            67, sender, "2.0")
    BY <2>1, <2>2, SealedIsABox, ZenonT(60)
  <2> HIDE DEF box
  <2>4. IsABox
    BY <1>4, <2>3 DEF SealedFor, Box
  <2> QED
    BY <2>4 DEF box
<1> QED
  BY <1>1, <1>2, <1>3, <1>4 DEF K!Purposes, K!Direct

\* An owner key, a security domain key and a report are sealed the way that is
\* asked for.
LEMMA BackupsAlg ==
  ASSUME NEW p, NEW k, NEW plain, NEW sender, NEW alg, p \in {"owner", "domain", "report"}
  PROVE  K!Backup(p, k, plain, sender, alg).alg = alg
<1> DEFINE box    == K!Backup(p, k, plain, sender, alg)
           direct == K!Sealed(alg, k, "", plain, 32, 0, K!Key("none"), "none")
<1>1. box = direct \/ box = [direct EXCEPT !.key = K!Derived(k, "SHA-256")]
  BY DEF K!Backup, K!Direct
<1>2. 32 \in Nat /\ 0 \in Nat
  OBVIOUS
<1>3. Box(direct, alg, k, "", plain, 32, 0, K!Key("none"), "none")
  BY <1>2, SealedIsABox, ZenonT(60)
<1> HIDE DEF box, direct
<1>4. box.alg = alg
  BY <1>1, <1>3 DEF Box, Fields
<1> QED
  BY <1>4 DEF box

\* Keys, derived keys and agreed keys of different names differ.
LEMMA SameKey ==
  ASSUME NEW n, NEW m, K!Key(n) = K!Key(m)
  PROVE  n = m
<1>1. {n} = {m}
  BY DEF K!Key
<1> QED
  BY <1>1

\* Derived keys tell the names and the purposes they were derived for.
LEMMA SameDerived ==
  ASSUME NEW n, NEW m, NEW i, NEW j, K!Derived(K!Key(n), i) = K!Derived(K!Key(m), j)
  PROVE  n = m /\ i = j
<1>1. {n} = {m} /\ i = j
  BY DEF K!Key, K!Derived
<1> QED
  BY <1>1

\* What reports are sealed with is nobody's own key.
LEMMA ReportKeyIsDerived ==
  ASSUME NEW n, NEW m
  PROVE  K!Derived(K!Key(n), "SHA-256") # K!Key(m)
BY DEF K!Key, K!Derived

\* Keys agreed on with one sender tell the names.
LEMMA KeysAgree ==
  ASSUME NEW n, NEW m, NEW s, NEW i,
         K!Derived(K!ECDH(K!Key(n), K!Key(s)), i) = K!Derived(K!ECDH(K!Key(m), K!Key(s)), i)
  PROVE  n = m
<1>1. {n} \cup {s} = {m} \cup {s}
  BY DEF K!Derived, K!ECDH, K!Key
<1>2. n \in {m} \cup {s} /\ m \in {n} \cup {s}
  BY <1>1
<1> QED
  BY <1>2

\* A ciphertext was sealed with one key, and for one purpose unless it is sealed
\* directly.
LEMMA OneKeyOnePurpose ==
  ASSUME NEW p \in K!Purposes, NEW q \in K!Purposes, NEW n, NEW m, NEW d, NEW s, NEW public,
         SealedFor(d, p, K!Key(m), K!Key(s)), SealedFor(d, q, K!Key(n), public),
         p = "shared" => public = K!Key(s)
  PROVE  n = m /\ (q = p \/ {q, p} \subseteq K!Direct)
<1>1. CASE p = "shared"
  <2>1. q = "shared" /\ public = K!Key(s)
    BY <1>1 DEF SealedFor, K!Direct
  <2>2. d.key = K!Derived(K!ECDH(K!Key(n), K!Key(s)), K!P256Info)
    BY <2>1 DEF SealedFor, K!Direct
  <2>3. d.key = K!Derived(K!ECDH(K!Key(m), K!Key(s)), K!P256Info)
    BY <1>1 DEF SealedFor, K!Direct
  <2>4. K!Derived(K!ECDH(K!Key(n), K!Key(s)), K!P256Info)
          = K!Derived(K!ECDH(K!Key(m), K!Key(s)), K!P256Info)
    BY <2>2, <2>3
  <2>5. n = m
    BY <2>4, KeysAgree, Zenon
  <2> QED
    BY <1>1, <2>1, <2>5
<1>2. CASE p \in {"recovery", "application"}
  <2>1. q = p
    BY <1>2 DEF SealedFor, K!Direct
  <2>2. K!Derived(K!Key(n), K!SharedInfo) = K!Derived(K!Key(m), K!SharedInfo)
    BY <1>2, <2>1 DEF SealedFor, K!Direct
  <2>3. n = m
    BY <2>2, SameDerived, Zenon
  <2> QED
    BY <2>1, <2>3
<1>3. CASE p = "report"
  <2>1. q = "report" \/ q \in K!Direct
    BY <1>3 DEF SealedFor, K!Direct
  <2>2. d.key = K!Derived(K!Key(m), "SHA-256")
    BY <1>3 DEF SealedFor, K!Direct
  <2>3. CASE q \in K!Direct
    <3>1. d.key = K!Key(n)
      BY <2>3 DEF SealedFor, K!Direct
    <3> QED
      BY <2>2, <3>1, ReportKeyIsDerived
  <2>4. CASE q = "report"
    <3>1. d.key = K!Derived(K!Key(n), "SHA-256")
      BY <2>4 DEF SealedFor, K!Direct
    <3>2. n = m
      BY <2>2, <3>1, SameDerived
    <3> QED
      BY <1>3, <2>4, <3>2
  <2> QED
    BY <2>1, <2>3, <2>4
<1>4. CASE p \in K!Direct
  <2>1. q = "report" \/ q \in K!Direct
    BY <1>4 DEF SealedFor, K!Direct
  <2>2. d.key = K!Key(m)
    BY <1>4 DEF SealedFor, K!Direct
  <2>3. CASE q \in K!Direct
    <3>1. d.key = K!Key(n)
      BY <2>3 DEF SealedFor, K!Direct
    <3>2. n = m
      BY <2>2, <3>1, SameKey
    <3> QED
      BY <1>4, <2>3, <3>2
  <2>4. CASE q = "report"
    <3>1. d.key = K!Derived(K!Key(n), "SHA-256")
      BY <2>4 DEF SealedFor, K!Direct
    <3> QED
      BY <2>2, <3>1, ReportKeyIsDerived
  <2> QED
    BY <2>1, <2>3, <2>4
<1> QED
  BY <1>1, <1>2, <1>3, <1>4 DEF K!Purposes, K!Direct

-----------------------------------------------------------------------------
(* Unwrapping: a backup opens for its purpose *)

\* What a box that says what it is sealed with yields, if it is long enough.
LEMMA GCMOpensItsBox ==
  ASSUME NEW key, NEW box, NEW at \in Nat, NEW ad, NEW plain, NEW size, NEW public,
         NEW version, Box(box, "gcm", key, ad, plain, size, at, public, version), at + 12 <= box.len
  PROVE  K!GCM(key, box, at, ad) = K!Ok(plain)
<1>1. ~(at > box.len) /\ ~(box.len - at < 12)
  BY DEF Box
<1> QED
  BY <1>1 DEF K!GCM, K!Whole, Box

\* The same, where nothing is in front of the IV.
LEMMA GCMOpensDirectly ==
  ASSUME NEW key, NEW box, NEW ad, NEW plain, NEW size, NEW public, NEW version,
         Box(box, "gcm", key, ad, plain, size, 0, public, version), 12 <= box.len
  PROVE  K!GCM(key, box, 0, ad) = K!Ok(plain)
<1>1. ~(0 > box.len) /\ ~(box.len - 0 < 12)
  BY DEF Box
<1> QED
  BY <1>1 DEF K!GCM, K!Whole, Box

\* The same, for the form that nothing authenticates.
LEMMA CBCOpensItsBox ==
  ASSUME NEW key, NEW box, NEW ad, NEW plain, NEW size, NEW public, NEW version,
         Box(box, "cbc", key, ad, plain, size, 0, public, version), box.len \in {32, 48}
  PROVE  K!CBC(key, box) = K!Ok(plain)
<1>1. ~(box.len < 16) /\ (box.len - 16) % 16 = 0
  OBVIOUS
<1> QED
  BY <1>1 DEF K!CBC, K!Whole, Box

\* A backup, whole, opens with its key for its purpose; an identity or an
\* account key does in either form (keybackup.go).
LEMMA BackupOpens ==
  ASSUME NEW p \in K!Purposes, NEW k, NEW plain, NEW sender, sender.of # {}, NEW alg,
         alg = "gcm" \/ (alg = "cbc" /\ p \notin {"owner", "domain", "report"})
  PROVE  K!Open(p, k, K!Backup(p, k, plain, sender, alg)) = K!Ok(plain)
<1> DEFINE box == K!Backup(p, k, plain, sender, alg)
<1>0. 0 \in Nat /\ 2 \in Nat /\ 16 \in Nat /\ 32 \in Nat /\ 67 \in Nat
  OBVIOUS
<1>1. CASE p \in {"owner", "domain"}
  <2>1. box = K!Sealed(alg, k, "", plain, 32, 0, K!Key("none"), "none")
    BY <1>1 DEF K!Backup, K!Direct
  <2>2. alg = "gcm"
    BY <1>1
  <2>3. Box(box, "gcm", k, "", plain, 32, 0, K!Key("none"), "none")
    BY <1>0, <2>1, <2>2, SealedIsABox, ZenonT(60)
  <2>4. box.len = 0 + 32 + 28
    BY <2>3 DEF Box
  <2> HIDE DEF box
  <2>5. 12 <= box.len
    BY <2>4
  <2>6. K!GCM(k, box, 0, "") = K!Ok(plain)
    BY <2>3, <2>5, GCMOpensDirectly
  <2>7. K!Open(p, k, box) = K!Ok(plain)
    BY <1>1, <2>6 DEF K!Open, K!DecryptOwnerKey, K!DecryptSecurityDomainKey
  <2> QED
    BY <2>7 DEF box
<1>2. CASE p = "report"
  <2> DEFINE direct == K!Sealed(alg, k, "", plain, 32, 0, K!Key("none"), "none")
             derived == K!Derived(k, "SHA-256")
  <2>1. box = [direct EXCEPT !.key = derived]
    BY <1>2 DEF K!Backup, K!Direct
  <2>2. alg = "gcm"
    BY <1>2
  <2>3. Box(direct, "gcm", k, "", plain, 32, 0, K!Key("none"), "none")
    BY <1>0, <2>2, SealedIsABox, ZenonT(60)
  <2>4. direct.len = 0 + 32 + 28
    BY <2>3 DEF Box
  <2> HIDE DEF box, direct, derived
  <2>5. Box(box, "gcm", derived, "", plain, 32, 0, K!Key("none"), "none")
    BY <2>1, <2>3 DEF Box, Fields
  <2>6. box.len = direct.len
    BY <2>1, <2>3 DEF Box, Fields
  <2>7. 12 <= box.len
    BY <2>4, <2>6
  <2>8. K!GCM(derived, box, 0, "") = K!Ok(plain)
    BY <2>5, <2>7, GCMOpensDirectly
  <2>9. K!Open("report", k, box) = K!Ok(plain)
    BY <2>8 DEF K!Open, K!DecryptOwnReport, derived
  <2> QED
    BY <1>2, <2>9 DEF box
<1>3. CASE p = "recovery"
  <2> DEFINE ad  == "V1 locally_encrypted_recovery_key"
             key == K!Derived(k, K!SharedInfo)
  <2>1. box = K!Sealed("gcm", key, ad, plain, 32, 2, K!Key("none"), "2.0")
    BY <1>3 DEF K!Backup, K!Direct
  <2>2. Box(box, "gcm", key, ad, plain, 32, 2, K!Key("none"), "2.0")
    BY <1>0, <2>1, SealedIsABox, ZenonT(60)
  <2>3. box.version = "2.0" /\ box.len = 2 + 32 + 28
    BY <2>2 DEF Box
  <2> HIDE DEF box, ad
  <2>4. 2 + 12 <= box.len /\ ~(box.len < 2) /\ ~(box.len < 2 + 12)
    BY <2>3
  <2>5. K!GCM(key, box, 2, ad) = K!Ok(plain)
    BY <1>0, <2>2, <2>4, GCMOpensItsBox
  <2>6. K!DecryptWithDerivedKey(box, k, K!SharedInfo, ad, FALSE) = K!Ok(plain)
    BY <2>3, <2>4, <2>5 DEF K!DecryptWithDerivedKey, K!Truncated
  <2>7. K!Open("recovery", k, box) = K!Ok(plain)
    BY <2>6 DEF K!Open, K!DecryptRecoveryKey, ad
  <2> QED
    BY <1>3, <2>7 DEF box
<1>4. CASE p = "application"
  <2> DEFINE ad  == "V1 encrypted_application_key"
             key == K!Derived(k, K!SharedInfo)
  <2>1. box = K!Sealed("gcm", key, ad, plain, 32, 2, K!Key("none"), "2.0")
    BY <1>4 DEF K!Backup, K!Direct
  <2>2. Box(box, "gcm", key, ad, plain, 32, 2, K!Key("none"), "2.0")
    BY <1>0, <2>1, SealedIsABox, ZenonT(60)
  <2>3. box.version = "2.0" /\ box.len = 2 + 32 + 28
    BY <2>2 DEF Box
  <2> HIDE DEF box, ad
  <2>4. 2 + 12 <= box.len /\ ~(box.len < 2) /\ ~(box.len < 2 + 12)
    BY <2>3
  <2>5. K!GCM(key, box, 2, ad) = K!Ok(plain)
    BY <1>0, <2>2, <2>4, GCMOpensItsBox
  <2>6. K!DecryptWithDerivedKey(box, k, K!SharedInfo, ad, FALSE) = K!Ok(plain)
    BY <2>3, <2>4, <2>5 DEF K!DecryptWithDerivedKey, K!Truncated
  <2>7. K!Open("application", k, box) = K!Ok(plain)
    BY <2>6 DEF K!Open, K!DecryptApplicationKey, ad
  <2> QED
    BY <1>4, <2>7 DEF box
<1>5. CASE p = "shared"
  <2> DEFINE ad  == "V1 shared_key"
             key == K!Derived(K!ECDH(k, sender), K!P256Info)
  <2>1. box = K!Sealed("gcm", key, ad, plain, 32, 67, sender, "2.0")
    BY <1>5 DEF K!Backup, K!Direct
  <2>2. Box(box, "gcm", key, ad, plain, 32, 67, sender, "2.0")
    BY <1>0, <2>1, SealedIsABox, ZenonT(60)
  <2>3. box.version = "2.0" /\ box.len = 67 + 32 + 28
    BY <2>2 DEF Box
  <2> HIDE DEF box, ad
  <2>4. 67 + 12 <= box.len /\ ~(box.len < 2) /\ ~(box.len < 2 + 65 + 12) /\ 2 + 65 = 67
    BY <2>3
  <2>5. K!GCM(key, box, 67, ad) = K!Ok(plain)
    BY <1>0, <2>2, <2>4, GCMOpensItsBox
  <2>6. box.public = sender
    BY <2>2 DEF Box
  <2>7. K!DecryptWithDerivedKey(box, k, K!P256Info, ad, TRUE) = K!Ok(plain)
    BY <2>3, <2>4, <2>5, <2>6 DEF K!DecryptWithDerivedKey, K!Truncated
  <2>8. K!Open("shared", k, box) = K!Ok(plain)
    BY <2>7 DEF K!Open, K!DecryptSharedKey, ad
  <2> QED
    BY <1>5, <2>8 DEF box
<1>6. CASE p \in {"identity", "account"}
  <2> DEFINE size == IF p = "account" THEN 16 ELSE 32
  <2>1. box = K!Sealed(alg, k, "", plain, size, 0, K!Key("none"), "none")
    BY <1>6 DEF K!Backup, K!Direct
  <2>2. size \in Nat
    OBVIOUS
  <2>3. Box(box, alg, k, "", plain, size, 0, K!Key("none"), "none")
    BY <1>0, <2>1, <2>2, SealedIsABox, ZenonT(60)
  <2>4. /\ alg = "gcm" => box.len = 0 + size + 28
        /\ alg # "gcm" => box.len = 0 + size + 16
    BY <2>3 DEF Box
  <2> HIDE DEF box
  <2>5. CASE alg = "gcm"
    <3>1. box.len = IF p = "account" THEN 44 ELSE 60
      BY <2>4, <2>5
    <3>2. 12 <= box.len
      BY <3>1
    <3>3. K!GCM(k, box, 0, "") = K!Ok(plain)
      BY <2>3, <2>5, <3>2, GCMOpensDirectly
    <3>4. CASE p = "identity"
      <4>1. box.len = 60 /\ box.len # 48
        BY <3>1, <3>4
      <4>2. K!DecryptSized(k, box, 48, 60) = K!Ok(plain)
        BY <3>3, <4>1 DEF K!DecryptSized
      <4>3. K!Open("identity", k, box) = K!Ok(plain)
        BY <4>2 DEF K!Open, K!DecryptEIK
      <4> QED
        BY <3>4, <4>3 DEF box
    <3>5. CASE p = "account"
      <4>1. box.len = 44 /\ box.len # 32
        BY <3>1, <3>5
      <4>2. K!DecryptSized(k, box, 32, 44) = K!Ok(plain)
        BY <3>3, <4>1 DEF K!DecryptSized
      <4>3. K!Open("account", k, box) = K!Ok(plain)
        BY <4>2 DEF K!Open, K!DecryptAccountKey
      <4> QED
        BY <3>5, <4>3 DEF box
    <3> QED
      BY <1>6, <3>4, <3>5
  <2>6. CASE alg = "cbc"
    <3>1. box.len = IF p = "account" THEN 32 ELSE 48
      BY <2>4, <2>6
    <3>2. box.len \in {32, 48}
      BY <3>1
    <3>3. K!CBC(k, box) = K!Ok(plain)
      <4> HIDE DEF size
      <4>1. Box(box, "cbc", k, "", plain, size, 0, K!Key("none"), "none")
        BY <2>3, <2>6, Zenon
      <4> QED
        BY <3>2, <4>1, CBCOpensItsBox, ZenonT(60)
    <3>4. CASE p = "identity"
      <4>1. box.len = 48
        BY <3>1, <3>4
      <4>2. K!DecryptSized(k, box, 48, 60) = K!Ok(plain)
        BY <3>3, <4>1 DEF K!DecryptSized
      <4>3. K!Open("identity", k, box) = K!Ok(plain)
        BY <4>2 DEF K!Open, K!DecryptEIK
      <4> QED
        BY <3>4, <4>3 DEF box
    <3>5. CASE p = "account"
      <4>1. box.len = 32
        BY <3>1, <3>5
      <4>2. K!DecryptSized(k, box, 32, 44) = K!Ok(plain)
        BY <3>3, <4>1 DEF K!DecryptSized
      <4>3. K!Open("account", k, box) = K!Ok(plain)
        BY <4>2 DEF K!Open, K!DecryptAccountKey
      <4> QED
        BY <3>5, <4>3 DEF box
    <3> QED
      BY <1>6, <3>4, <3>5
  <2> QED
    BY <2>5, <2>6
<1> QED
  BY <1>1, <1>2, <1>3, <1>4, <1>5, <1>6 DEF K!Purposes

\* A length that is cut is a length.
LEMMA MinOfTwo ==
  ASSUME NEW a \in Nat, NEW b \in Nat
  PROVE  Min({a, b}) \in Nat
<1>1. \E x \in {a, b} : \A y \in {a, b} : x <= y
  OBVIOUS
<1> QED
  BY <1>1 DEF Min

\* A backup, and what PickBackup makes of it.
BackedUp(p, q, m, plain, s, alg, l, version, public, box, d) ==
  /\ p \in K!Purposes /\ q \in K!Purposes /\ alg \in {"gcm", "cbc"} /\ l \in Nat
  /\ public \in {K!Key(s), [of |-> {}, for |-> "itself"]} /\ K!Key(s) # K!Key("none")
  /\ box = K!Backup(p, K!Key(m), plain, K!Key(s), alg)
  /\ d = [box EXCEPT !.len = Min({l, @}), !.version = version,
                     !.public = IF @ = K!Key("none") THEN @ ELSE public]

\* A backup as PickBackup makes it opens for its purpose (keybackup.go).
LEMMA BackupOpensForItsPurpose ==
  ASSUME NEW p, NEW q, NEW n, NEW m, NEW plain, NEW s, NEW alg, NEW l, NEW version,
         NEW public, NEW box, NEW d,
         BackedUp(p, q, m, plain, s, alg, l, version, public, box, d)
  PROVE  K!OpensForItsPurpose(q, K!Key(n), d,
           [purpose |-> p, key |-> K!Key(m), plain |-> plain, box |-> box])
<1>0. /\ p \in K!Purposes /\ q \in K!Purposes /\ alg \in {"gcm", "cbc"} /\ l \in Nat
      /\ public \in {K!Key(s), [of |-> {}, for |-> "itself"]} /\ K!Key(s) # K!Key("none")
      /\ box = K!Backup(p, K!Key(m), plain, K!Key(s), alg)
      /\ d = [box EXCEPT !.len = Min({l, @}), !.version = version,
                         !.public = IF @ = K!Key("none") THEN @ ELSE public]
  BY DEF BackedUp
<1> DEFINE read == K!Open(q, K!Key(n), d)
           made == [purpose |-> p, key |-> K!Key(m), plain |-> plain, box |-> box]
<1>1. /\ DOMAIN box = Fields /\ SealedFor(box, p, K!Key(m), K!Key(s))
      /\ box.plain = plain /\ box.len \in Nat /\ box.full = box.len
      /\ box.public = IF p = "shared" THEN K!Key(s) ELSE K!Key("none")
  BY <1>0, BackupsAreSealed
<1>2. /\ d.len = Min({l, box.len})
      /\ d.public = IF box.public = K!Key("none") THEN box.public ELSE public
      /\ d.alg = box.alg /\ d.key = box.key /\ d.ad = box.ad
      /\ d.plain = box.plain /\ d.at = box.at /\ d.full = box.full
  BY <1>0, <1>1 DEF Fields
<1>3. d.len \in Nat
  BY <1>0, <1>1, <1>2, MinOfTwo
<1>4. Opens(read, d, q, K!Key(n))
  BY <1>0, <1>3, EveryPurposeOpens
<1>5. SealedFor(d, p, K!Key(m), K!Key(s))
  BY <1>1, <1>2 DEF SealedFor
<1> HIDE DEF read
<1>6. ASSUME read.err = "none", ~Unauthenticated(q, d)
      PROVE  /\ read.key = plain /\ d.len = box.len /\ n = m
             /\ q = p \/ {q, p} \subseteq K!Direct
  <2>1. /\ Opened(read, d) /\ SealedFor(d, q, K!Key(n), d.public)
        /\ (q = "shared" => d.public.of # {})
    BY <1>4, <1>6 DEF Opens
  <2>2. read.key = plain /\ d.len = box.len
    BY <1>1, <1>2, <2>1 DEF Opened
  <2>3. p = "shared" => d.public = K!Key(s)
    <3>1. SUFFICES ASSUME p = "shared" PROVE d.public = K!Key(s)
      OBVIOUS
    <3>2. q = "shared"
      BY <1>5, <2>1, <3>1 DEF SealedFor, K!Direct
    <3>3. d.public = public
      BY <1>0, <1>1, <1>2, <3>1
    <3>4. public.of # {}
      BY <2>1, <3>2, <3>3
    <3> QED
      BY <1>0, <3>3, <3>4
  <2>4. n = m /\ (q = p \/ {q, p} \subseteq K!Direct)
    BY <1>0, <1>5, <2>1, <2>3, OneKeyOnePurpose
  <2> QED
    BY <2>2, <2>4
<1>7. ASSUME q = p, K!Key(n) = K!Key(m), d = box,
             box.alg = "gcm" \/ q \in {"identity", "account"}
      PROVE  read = K!Ok(plain)
  <2>1. K!Key(s).of # {}
    BY DEF K!Key
  <2>2. alg = "gcm" \/ (alg = "cbc" /\ p \notin {"owner", "domain", "report"})
    BY <1>0, <1>7, BackupsAlg DEF K!Purposes
  <2>3. K!Open(p, K!Key(m), box) = K!Ok(plain)
    BY <1>0, <2>1, <2>2, BackupOpens
  <2> QED
    BY <1>7, <2>3 DEF read
<1>8. /\ made.purpose = p /\ made.key = K!Key(m) /\ made.plain = plain /\ made.box = box
  OBVIOUS
<1> HIDE DEF made
<1>9. read.err # "panic"
  BY <1>4 DEF Opens
<1>10. \/ read.err # "none"
       \/ (q = "identity" /\ d.len = 48) \/ (q = "account" /\ d.len = 32)
       \/ /\ read.key = made.plain /\ d.len = made.box.len /\ K!Key(n) = made.key
          /\ q = made.purpose \/ {q, made.purpose} \subseteq K!Direct
  <2>1. CASE Unauthenticated(q, d)
    BY <2>1 DEF Unauthenticated
  <2>2. CASE read.err = "none" /\ ~Unauthenticated(q, d)
    <3>1. /\ read.key = plain /\ d.len = box.len /\ n = m
          /\ q = p \/ {q, p} \subseteq K!Direct
      BY <1>6, <2>2
    <3> QED
      BY <1>8, <3>1
  <2> QED
    BY <2>1, <2>2
<1>11. (/\ q = made.purpose /\ K!Key(n) = made.key /\ d = made.box
        /\ made.box.alg = "gcm" \/ q \in {"identity", "account"})
          => read = K!Ok(made.plain)
  BY <1>7, <1>8
<1>12. K!OpensForItsPurpose(q, K!Key(n), d, made)
  BY <1>9, <1>10, <1>11 DEF K!OpensForItsPurpose, read
<1> QED
  BY <1>12 DEF made

-----------------------------------------------------------------------------
(* Unwrapping: the keys of a tracker, and the vault *)

\* Four different things are four.
LEMMA FourDiffer ==
  ASSUME NEW a, NEW b, NEW c, NEW d, a # b, a # c, a # d, b # c, b # d, c # d
  PROVE  Cardinality({a, b, c, d}) = 4
<1>1. ASSUME NEW S, IsFiniteSet(S), NEW x, x \notin S
      PROVE  IsFiniteSet(S \cup {x}) /\ Cardinality(S \cup {x}) = Cardinality(S) + 1
  BY <1>1, FS_AddElement
<1>2. IsFiniteSet({a}) /\ Cardinality({a}) = 1
  BY FS_Singleton
<1>3. {a} \cup {b} = {a, b} /\ {a, b} \cup {c} = {a, b, c} /\ {a, b, c} \cup {d} = {a, b, c, d}
  OBVIOUS
<1>4. b \notin {a} /\ c \notin {a, b} /\ d \notin {a, b, c}
  OBVIOUS
<1>5. IsFiniteSet({a, b}) /\ Cardinality({a, b}) = Cardinality({a}) + 1
  <2>1. /\ IsFiniteSet({a} \cup {b})
        /\ Cardinality({a} \cup {b}) = Cardinality({a}) + 1
    BY <1>1, <1>4, <1>2, Zenon
  <2> QED
    BY <1>3, <2>1
<1>6. IsFiniteSet({a, b, c}) /\ Cardinality({a, b, c}) = Cardinality({a, b}) + 1
  <2>1. /\ IsFiniteSet({a, b} \cup {c})
        /\ Cardinality({a, b} \cup {c}) = Cardinality({a, b}) + 1
    BY <1>1, <1>4, <1>5, Zenon
  <2> QED
    BY <1>3, <2>1
<1>7. IsFiniteSet({a, b, c, d}) /\ Cardinality({a, b, c, d}) = Cardinality({a, b, c}) + 1
  <2>1. /\ IsFiniteSet({a, b, c} \cup {d})
        /\ Cardinality({a, b, c} \cup {d}) = Cardinality({a, b, c}) + 1
    BY <1>1, <1>4, <1>6, Zenon
  <2> QED
    BY <1>3, <2>1
<1> QED
  BY <1>2, <1>5, <1>6, <1>7

\* The keys for a tracker's operations differ (GenerateFMDNKeys).
LEMMA TrackerKeys ==
  ASSUME NEW n, NEW m
  PROVE  K!KeysApart(K!Key(n), K!Key(m))
<1> DEFINE of(x) == {K!Derived(K!Key(x), "1"), K!Derived(K!Key(x), "2"),
                     K!Derived(K!Key(x), "3"), K!Derived(K!Key(x), "SHA-256")}
           four(x) == {K!FMDNKeys(K!Key(x)).recovery, K!FMDNKeys(K!Key(x)).ringing,
                       K!FMDNKeys(K!Key(x)).tracking, K!Derived(K!Key(x), "SHA-256")}
<1>1. ASSUME NEW x PROVE four(x) = of(x)
  BY DEF K!FMDNKeys, K!TruncatedSHA256
<1>2. /\ K!Derived(K!Key(n), "1") # K!Derived(K!Key(n), "2")
      /\ K!Derived(K!Key(n), "1") # K!Derived(K!Key(n), "3")
      /\ K!Derived(K!Key(n), "1") # K!Derived(K!Key(n), "SHA-256")
      /\ K!Derived(K!Key(n), "2") # K!Derived(K!Key(n), "3")
      /\ K!Derived(K!Key(n), "2") # K!Derived(K!Key(n), "SHA-256")
      /\ K!Derived(K!Key(n), "3") # K!Derived(K!Key(n), "SHA-256")
  BY DEF K!Derived
<1>3. Cardinality(of(n)) = 4
  BY <1>2, FourDiffer
<1>4. ASSUME K!Key(n) # K!Key(m) PROVE of(n) \cap of(m) = {}
  <2>1. n # m
    BY <1>4
  <2>2. ASSUME NEW i, NEW j PROVE K!Derived(K!Key(n), i) # K!Derived(K!Key(m), j)
    BY <2>1, SameDerived
  <2> QED
    BY <2>2
<1>5. Cardinality(four(n)) = 4
  BY <1>1, <1>3
<1>7. K!Cardinality(four(n)) = Cardinality(four(n))
  BY DEF K!Cardinality, Cardinality
<1>6. K!Key(n) # K!Key(m) => four(n) \cap four(m) = {}
  BY <1>1, <1>4
<1> QED
  BY <1>5, <1>6, <1>7 DEF K!KeysApart

\* Of finitely many entries one has the highest epoch.
LEMMA Highest ==
  ASSUME NEW n \in Nat, NEW D \in SUBSET (1..n), D # {}, NEW f, \A i \in D : f[i] \in Int
  PROVE  \E i \in D : \A j \in D : f[j] <= f[i]
<1> DEFINE Has(k) == \/ D \cap (1..k) = {}
                     \/ \E i \in D \cap (1..k) : \A j \in D \cap (1..k) : f[j] <= f[i]
           S == {k \in Nat : Has(k)}
<1>1. 0 \in S
  OBVIOUS
<1>2. ASSUME NEW k \in S PROVE k + 1 \in S
  <2>1. k \in Nat /\ Has(k) /\ k + 1 \in Nat
    OBVIOUS
  <2>2. CASE k + 1 \notin D
    <3>1. D \cap (1..(k + 1)) = D \cap (1..k)
      BY <2>1, <2>2
    <3>2. Has(k + 1)
      BY <2>1, <3>1
    <3> QED
      BY <2>1, <3>2
  <2>3. CASE k + 1 \in D
    <3>1. D \cap (1..(k + 1)) = (D \cap (1..k)) \cup {k + 1}
      BY <2>1, <2>3
    <3>2. f[k + 1] \in Int
      BY <2>3
    <3>3. CASE D \cap (1..k) = {}
      <4>1. \E i \in D \cap (1..(k + 1)) : \A j \in D \cap (1..(k + 1)) : f[j] <= f[i]
        BY <3>1, <3>2, <3>3
      <4> QED
        BY <2>1, <4>1
    <3>4. CASE \E i \in D \cap (1..k) : \A j \in D \cap (1..k) : f[j] <= f[i]
      <4>1. PICK i \in D \cap (1..k) : \A j \in D \cap (1..k) : f[j] <= f[i]
        BY <3>4
      <4>2. f[i] \in Int
        BY <4>1
      <4>3. CASE f[k + 1] <= f[i]
        <5>1. \A j \in D \cap (1..(k + 1)) : f[j] <= f[i]
          BY <3>1, <4>1, <4>3
        <5>2. i \in D \cap (1..(k + 1))
          BY <3>1, <4>1
        <5> QED
          BY <2>1, <5>1, <5>2
      <4>4. CASE f[i] < f[k + 1]
        <5>1. ASSUME NEW j \in D \cap (1..(k + 1)) PROVE f[j] <= f[k + 1]
          <6>1. f[j] \in Int
            BY <5>1
          <6>2. CASE j = k + 1
            BY <3>2, <6>2
          <6>3. CASE j \in D \cap (1..k)
            <7>1. f[j] <= f[i]
              BY <4>1, <6>3
            <7> QED
              BY <3>2, <4>2, <4>4, <6>1, <7>1
          <6> QED
            BY <3>1, <6>2, <6>3
        <5>2. k + 1 \in D \cap (1..(k + 1))
          BY <3>1
        <5> QED
          BY <2>1, <5>1, <5>2
      <4> QED
        BY <3>2, <4>2, <4>3, <4>4
    <3> QED
      BY <2>1, <3>3, <3>4
  <2> QED
    BY <2>2, <2>3
<1> HIDE DEF S
<1>3. S = Nat
  <2>1. S \in SUBSET Nat
    BY DEF S
  <2> QED
    BY <1>1, <1>2, <2>1, SetInduction
<1>4. Has(n)
  BY <1>3 DEF S
<1>5. D \cap (1..n) = D
  OBVIOUS
<1> QED
  BY <1>4, <1>5

\* From every vault the newest key is taken (extractSharedKey).
LEMMA NewestIsTaken ==
  ASSUME NEW n \in Nat,
         NEW entries \in [1..n -> [epoch : Epochs \cup {NoEpoch}, bytes : {"all", "some"},
                                   key : KeyNames]],
         NEW levels
  PROVE  K!NewestKeyTaken(levels, entries)
<1> DEFINE read == K!ExtractSharedKey(levels, entries)
           dated == {i \in DOMAIN entries : entries[i].epoch # NoEpoch}
           newest == {i \in dated : \A j \in dated : entries[j].epoch <= entries[i].epoch}
<1>1. SUFFICES ASSUME read.err = "none"
               PROVE  \E i \in DOMAIN entries :
                        /\ entries[i].key = read.key /\ entries[i].bytes = "all"
                        /\ \A j \in DOMAIN entries :
                             entries[j].epoch # NoEpoch =>
                               entries[i].epoch # NoEpoch /\ entries[i].epoch >= entries[j].epoch
  BY DEF K!NewestKeyTaken
<1>2. /\ entries # <<>> /\ K!NewestEntry(entries).bytes = "all"
      /\ read.key = K!NewestEntry(entries).key
  BY <1>1 DEF K!ExtractSharedKey, K!Refused, K!Ok
<1>3. DOMAIN entries = 1..n /\ n > 0
  <2>1. DOMAIN entries = 1..n
    OBVIOUS
  <2>2. CASE n = 0
    BY <1>2, <2>1, <2>2
  <2> QED
    BY <2>1, <2>2
<1>4. CASE dated = {}
  <2>1. K!NewestEntry(entries) = entries[1]
    BY <1>4 DEF K!NewestEntry
  <2> QED
    BY <1>2, <1>3, <1>4, <2>1
<1>5. CASE dated # {}
  <2>1. K!NewestEntry(entries) = entries[K!Min(newest)]
    BY <1>5 DEF K!NewestEntry
  <2>2. ASSUME NEW i \in dated PROVE entries[i].epoch \in Int
    BY InputAssumption DEF InputAssumption
  <2>3. newest # {}
    <3> DEFINE f == [i \in 1..n |-> entries[i].epoch]
    <3>1. \E i \in dated : \A j \in dated : f[j] <= f[i]
      <4>1. dated \in SUBSET (1..n) /\ \A i \in dated : f[i] \in Int
        BY <1>3, <2>2
      <4> HIDE DEF f, dated
      <4> QED
        BY <1>5, <4>1, Highest
    <3> QED
      BY <1>3, <3>1
  <2>4. K!Min(newest) \in newest
    <3>1. newest \in SUBSET Nat
      BY <1>3
    <3> HIDE DEF newest
    <3>2. \E i \in newest : \A m \in newest : i <= m
      BY <2>3, <3>1, Least
    <3> QED
      BY <3>2 DEF K!Min
  <2> DEFINE i == K!Min(newest)
  <2>5. i \in dated /\ \A j \in dated : entries[j].epoch <= entries[i].epoch
    BY <2>4
  <2> HIDE DEF i
  <2>6. ASSUME NEW j \in DOMAIN entries, entries[j].epoch # NoEpoch
        PROVE  entries[i].epoch # NoEpoch /\ entries[i].epoch >= entries[j].epoch
    <3>1. j \in dated
      BY <2>6
    <3> QED
      BY <2>2, <2>5, <3>1
  <2> QED
    BY <1>2, <2>1, <2>5, <2>6 DEF i
<1> QED
  BY <1>4, <1>5

-----------------------------------------------------------------------------
(* Unwrapping: pushes *)

\* The last of the headers with a name is the one that is read (decrypt).
LEMMA LastHeaderIsRead ==
  ASSUME NEW hs, NEW n \in Nat, DOMAIN hs = 1..n, NEW name, NEW i \in 1..n,
         hs[i].key = name, \A j \in 1..n : hs[j].key = name => j <= i
  PROVE  W!Header(hs, name) = hs[i].value
<1> DEFINE at == {j \in DOMAIN hs : hs[j].key = name}
<1>1. i \in at /\ \A j \in at : i >= j
  OBVIOUS
<1>2. at \subseteq Int
  OBVIOUS
<1> HIDE DEF at
<1>3. W!Max(at) \in at /\ \A j \in at : W!Max(at) >= j
  BY <1>1 DEF W!Max
<1>4. W!Max(at) = i
  <2>1. W!Max(at) \in Int /\ i \in Int
    <3> DEFINE most == W!Max(at)
    <3>1. most \in at
      BY <1>3
    <3> HIDE DEF most
    <3>2. most \in Int
      BY <1>2, <3>1
    <3> QED
      BY <3>2 DEF most
  <2>2. W!Max(at) >= i /\ i >= W!Max(at)
    BY <1>1, <1>3
  <2> QED
    BY <2>1, <2>2
<1> QED
  BY <1>1, <1>4 DEF W!Header, at

\* A push as PickPush makes it.
Headers(before, form, from) ==
  before \o [<<[key |-> "crypto-key", value |-> W!Padded(from)],
               [key |-> "encryption", value |-> W!Padded("salt")]>> EXCEPT ![1].value.form = form]

\* What a push's own headers say is what is read, whatever comes before them.
LEMMA HeadersOfAPush ==
  ASSUME NEW R, NEW before \in Seq(R), NEW form, NEW from
  PROVE  /\ W!Header(Headers(before, form, from), "crypto-key") = [form |-> form, of |-> from]
         /\ W!Header(Headers(before, form, from), "encryption") = W!Padded("salt")
<1> DEFINE own == <<[key |-> "crypto-key", value |-> [form |-> form, of |-> from]],
                    [key |-> "encryption", value |-> W!Padded("salt")]>>
           hs  == Headers(before, form, from)
           n   == Len(before)
<1>1. hs = before \o own
  BY DEF Headers, W!Padded
<1>2. /\ n \in Nat /\ DOMAIN before = 1..n /\ Len(own) = 2
      /\ own[1].key = "crypto-key" /\ own[1].value = [form |-> form, of |-> from]
      /\ own[2].key = "encryption" /\ own[2].value = W!Padded("salt")
  OBVIOUS
<1>3. before \in Seq(R \cup {own[1], own[2]}) /\ own \in Seq(R \cup {own[1], own[2]})
  OBVIOUS
<1> HIDE DEF own
<1>4. /\ DOMAIN (before \o own) = 1..(n + 2)
      /\ (before \o own)[n + 1] = own[1] /\ (before \o own)[n + 2] = own[2]
  <2> DEFINE c == before \o own
  <2>1. /\ c \in Seq(R \cup {own[1], own[2]}) /\ Len(c) = n + 2
        /\ \A i \in 1..(n + 2) : c[i] = IF i <= n THEN before[i] ELSE own[i - n]
    <3>1. /\ c \in Seq(R \cup {own[1], own[2]}) /\ Len(c) = n + Len(own)
          /\ \A i \in 1..(n + Len(own)) : c[i] = IF i <= n THEN before[i] ELSE own[i - n]
      BY <1>3, ConcatProperties, Zenon
    <3> QED
      BY <1>2, <3>1
  <2>2. DOMAIN c = 1..(n + 2)
    BY <2>1
  <2> HIDE DEF c, n
  <2>3. c[n + 1] = own[1] /\ c[n + 2] = own[2]
    <3>1. /\ n + 1 \in 1..(n + 2) /\ ~(n + 1 <= n) /\ (n + 1) - n = 1
          /\ n + 2 \in 1..(n + 2) /\ ~(n + 2 <= n) /\ (n + 2) - n = 2
      BY <1>2
    <3> QED
      BY <2>1, <3>1
  <2> QED
    BY <2>2, <2>3 DEF c
<1> HIDE DEF hs, n
<1>5. /\ DOMAIN hs = 1..(n + 2) /\ n + 2 \in Nat /\ n + 1 \in 1..(n + 2) /\ n + 2 \in 1..(n + 2)
      /\ hs[n + 1].key = "crypto-key" /\ hs[n + 2].key = "encryption"
  BY <1>1, <1>2, <1>4
<1>6. \A j \in 1..(n + 2) : hs[j].key = "encryption" => j <= n + 2
  BY <1>2
<1>7. \A j \in 1..(n + 2) : hs[j].key = "crypto-key" => j <= n + 1
  BY <1>2, <1>5
<1>8. W!Header(hs, "crypto-key") = hs[n + 1].value
  BY <1>5, <1>7, LastHeaderIsRead
<1>9. W!Header(hs, "encryption") = hs[n + 2].value
  BY <1>5, <1>6, LastHeaderIsRead
<1> QED
  BY <1>1, <1>2, <1>4, <1>8, <1>9 DEF hs

\* A push is as its sender made it, and is for these credentials.
Intact(cut, truthful, to, receiver, from, form) ==
  /\ cut = 0 /\ truthful /\ to = receiver /\ from # NotAKey
  /\ form # "not base64url"

\* A push for a receiver, as PickPush makes it, and the credentials it comes to.
Pushed(msg, creds, len, pad, truthful, cut, id, form, receiver, to, from, before) ==
  /\ len \in Nat /\ pad \in Nat /\ truthful \in BOOLEAN /\ cut \in Nat /\ form \in W!Forms
  /\ receiver \in KeyNames /\ to \in KeyNames /\ from \in KeyNames \cup {NotAKey}
  /\ before \in Seq({before[i] : i \in DOMAIN before})
  /\ creds = [keys |-> W!GenerateKeys(to, "secret")]
  /\ msg.sealed = W!MessageKey(receiver, from, "secret", "salt")
  /\ msg.headers = Headers(before, form, from) /\ msg.cut = cut /\ msg.id = id
  /\ msg.plain.pad = pad /\ msg.plain.len = IF truthful THEN 2 + pad + len ELSE len

\* What becomes of it.
ReadAsPushed(msg, creds, len, truthful, cut, form, receiver, to, from) ==
  /\ W!PushRead(creds, msg, len, FALSE)
  /\ Intact(cut, truthful, to, receiver, from, form) => W!Decrypt(creds, msg) = W!Ok(len)

\* Whatever was sealed for whom, a push is read as PushRead says (decrypt).
LEMMA EveryPushIsRead ==
  ASSUME NEW len, NEW pad, NEW truthful, NEW cut, NEW id, NEW form, NEW receiver, NEW to,
         NEW from, NEW before, NEW creds, NEW msg,
         Pushed(msg, creds, len, pad, truthful, cut, id, form, receiver, to, from, before)
  PROVE  ReadAsPushed(msg, creds, len, truthful, cut, form, receiver, to, from)
<1>0. /\ len \in Nat /\ pad \in Nat /\ cut \in Nat /\ form \in W!Forms
      /\ receiver \in KeyNames /\ to \in KeyNames /\ from \in KeyNames \cup {NotAKey}
      /\ before \in Seq({before[i] : i \in DOMAIN before})
      /\ creds = [keys |-> W!GenerateKeys(to, "secret")]
      /\ msg.sealed = W!MessageKey(receiver, from, "secret", "salt") /\ msg.cut = cut
      /\ msg.id = id /\ msg.headers = Headers(before, form, from) /\ msg.plain.pad = pad
      /\ msg.plain.len \in Nat /\ (truthful => msg.plain.len = 2 + pad + len)
  BY DEF Pushed
<1> DEFINE read == W!Decrypt(creds, msg)
           dh   == [form |-> form, of |-> from]
           salt == W!Padded("salt")
           key  == W!MessageKey(to, from, "secret", "salt")
           plain == msg.plain
<1>1. W!Header(msg.headers, "crypto-key") = dh /\ W!Header(msg.headers, "encryption") = salt
  BY <1>0, HeadersOfAPush
<1>2. creds.keys.private.of = to /\ creds.keys.secret.of = "secret"
  BY <1>0 DEF W!GenerateKeys, W!Padded
<1>3. dh # None /\ salt # None
  <2>1. dh \in [form : W!Forms, of : KeyNames \cup {NotAKey, "salt"}]
    BY <1>0
  <2>2. salt \in [form : W!Forms, of : KeyNames \cup {NotAKey, "salt"}]
    BY DEF W!Padded, W!Forms
  <2> HIDE DEF dh, salt
  <2> QED
    BY <2>1, <2>2, InputAssumption DEF InputAssumption
<1>4. /\ dh.of = from /\ salt.of = "salt" /\ dh.form = form /\ salt.form = "padded"
  BY DEF W!Padded
<1>5. W!Decodes(salt) /\ (W!Decodes(dh) <=> form # "not base64url")
  BY <1>3, <1>4 DEF W!Decodes
<1>6. plain.len \in Nat /\ plain.pad = pad /\ (truthful => plain.len = 2 + pad + len)
  BY <1>0
<1> HIDE DEF dh, salt, plain, key
<1>7. read = IF form = "not base64url" THEN W!Refused("base64")
             ELSE IF from = NotAKey THEN W!Refused("public key")
             ELSE IF plain.len + 16 - cut < 18 THEN W!Refused("short")
             ELSE IF cut > 0 \/ msg.sealed # key THEN W!Refused("authentication")
             ELSE W!Unpad(plain)
  BY <1>1, <1>2, <1>3, <1>4, <1>5, <1>0 DEF W!Decrypt, plain, key
<1> HIDE DEF read
<1>8. ASSUME read.err \in {"none", "panic"}
      PROVE  /\ read = W!Ok(plain.len - 2 - pad) \/ read = W!Refused("padding")
             /\ cut = 0 /\ msg.sealed = key /\ plain.len >= 2
             /\ read.err = "none" => read.len \in 0..(plain.len - 2)
  <2>1. /\ form # "not base64url" /\ from # NotAKey /\ ~(plain.len + 16 - cut < 18)
        /\ ~(cut > 0 \/ msg.sealed # key) /\ read = W!Unpad(plain)
    BY <1>7, <1>8 DEF W!Refused
  <2>2. cut = 0 /\ plain.len >= 2
    <3>1. ~(cut > 0) /\ ~(plain.len + 16 - cut < 18)
      BY <2>1
    <3> HIDE DEF plain
    <3>2. cut = 0
      BY <1>0, <3>1
    <3>3. ~(plain.len + 16 - 0 < 18)
      BY <3>1, <3>2
    <3> QED
      BY <1>0, <1>6, <3>2, <3>3
  <2>3. \/ 2 + pad > plain.len /\ read = W!Refused("padding")
        \/ 2 + pad <= plain.len /\ read = W!Ok(plain.len - 2 - pad)
    <3>1. ~(plain.len < 2) /\ (~(2 + pad > plain.len) => 2 + pad <= plain.len)
      BY <1>0, <1>6, <2>2
    <3> QED
      BY <1>0, <1>6, <2>1, <3>1 DEF W!Unpad
  <2>4. read.err = "none" => read.len \in 0..(plain.len - 2)
    BY <1>0, <1>6, <2>3 DEF W!Ok, W!Refused
  <2> QED
    BY <2>1, <2>2, <2>3, <2>4
<1>9. read.err # "panic"
  BY <1>8 DEF W!Ok, W!Refused
<1>10. ASSUME Intact(cut, truthful, to, receiver, from, form) PROVE read = W!Ok(len)
  <2>0. cut = 0 /\ truthful /\ to = receiver /\ from # NotAKey /\ form # "not base64url"
    BY <1>10 DEF Intact
  <2>1. msg.sealed = key
    BY <1>0, <2>0 DEF key
  <2>2. /\ ~(plain.len + 16 - 0 < 18) /\ ~(0 > 0) /\ ~(plain.len < 2)
        /\ ~(2 + pad > plain.len) /\ plain.len - 2 - pad = len
    <3> DEFINE l == 2 + pad + len
    <3>1. plain.len = l
      BY <1>0, <1>6, <2>0
    <3>2. /\ ~(l + 16 - 0 < 18) /\ ~(0 > 0) /\ ~(l < 2)
          /\ ~(2 + pad > l) /\ l - 2 - pad = len
      BY <1>0
    <3> HIDE DEF l
    <3> QED
      BY <3>1, <3>2
  <2>3. ~(plain.len + 16 - cut < 18) /\ ~(cut > 0)
    BY <2>0, <2>2
  <2>4. read = W!Unpad(plain)
    BY <1>7, <2>0, <2>1, <2>3
  <2> QED
    BY <1>0, <1>6, <2>2, <2>4 DEF W!Unpad
<1>11. read.err = "none" => /\ msg.sealed.receiver = creds.keys.private.of
                            /\ msg.sealed.secret = creds.keys.secret.of
  BY <1>0, <1>2, <1>8 DEF key, W!MessageKey
<1>12. /\ W!HandleDataMessage(creds, msg).ack = msg.id
       /\ W!HandleDataMessage(creds, msg).handled => read.err = "none" /\ msg.id # None
  BY DEF W!HandleDataMessage, read
<1>13. read.err = "none" => read.len \in 0..(msg.plain.len - 2) /\ msg.cut = 0
  BY <1>0, <1>8 DEF plain
<1> QED
  BY <1>9, <1>10, <1>11, <1>12, <1>13 DEF ReadAsPushed, W!PushRead, read

-----------------------------------------------------------------------------
(* Unwrapping: every input *)

\* Each pick is of an input that is unwrapped as it should be.
LEMMA BackupsUnwrap ==
  ASSUME PickBackup
  PROVE  KeysUnwrap'
<1>1. PICK p \in K!Purposes, purpose \in K!Purposes, k \in {K!Key(n) : n \in KeyNames},
           key \in {K!Key(n) : n \in KeyNames}, alg \in {"gcm", "cbc"},
           len \in Lengths, version \in {"none", "2.0"},
           public \in {K!Key("sender"), [of |-> {}, for |-> "itself"]} :
        LET box == K!Backup(p, k, K!Key("plain"), K!Key("sender"), alg)
        IN  input' = [made |-> [purpose |-> p, key |-> k, plain |-> K!Key("plain"), box |-> box],
                      purpose |-> purpose, key |-> key,
                      d |-> [box EXCEPT !.len = Min({len, @}), !.version = version,
                                        !.public = IF @ = K!Key("none") THEN @ ELSE public]]
  BY DEF PickBackup, Picks
<1>2. PICK m \in KeyNames, n \in KeyNames : k = K!Key(m) /\ key = K!Key(n)
  OBVIOUS
<1> DEFINE box  == K!Backup(p, k, K!Key("plain"), K!Key("sender"), alg)
           made == [purpose |-> p, key |-> k, plain |-> K!Key("plain"), box |-> box]
           d    == [box EXCEPT !.len = Min({len, @}), !.version = version,
                               !.public = IF @ = K!Key("none") THEN @ ELSE public]
<1>3. input' = [made |-> made, purpose |-> purpose, key |-> key, d |-> d]
  BY <1>1
<1>4. K!Key("sender") # K!Key("none") /\ len \in Nat
  BY InputAssumption DEF K!Key, InputAssumption
<1>5. K!OpensForItsPurpose(purpose, key, d, made)
  <2>1. box = K!Backup(p, K!Key(m), K!Key("plain"), K!Key("sender"), alg)
    BY <1>2
  <2>2. d = [box EXCEPT !.len = Min({len, @}), !.version = version,
                        !.public = IF @ = K!Key("none") THEN @ ELSE public]
    OBVIOUS
  <2> HIDE DEF box, d
  <2>3. BackedUp(p, purpose, m, K!Key("plain"), "sender", alg, len, version, public, box, d)
    BY <1>4, <2>1, <2>2 DEF BackedUp
  <2>4. K!OpensForItsPurpose(purpose, K!Key(n), d,
          [purpose |-> p, key |-> K!Key(m), plain |-> K!Key("plain"), box |-> box])
    BY <2>3, BackupOpensForItsPurpose, Zenon
  <2> QED
    BY <1>2, <2>4
<1>6. K!KeysApart(k, key)
  BY <1>2, TrackerKeys
<1>7. made.key = k
  OBVIOUS
<1> HIDE DEF made, d
<1>8. input'.purpose = purpose /\ input'.key = key /\ input'.d = d /\ input'.made = made
  BY <1>3
<1>9. subject' = "backup"
  BY DEF PickBackup, Picks
<1> QED
  BY <1>5, <1>6, <1>7, <1>8, <1>9 DEF KeysUnwrap

\* The vaults.
LEMMA VaultsUnwrap ==
  ASSUME PickVault
  PROVE  KeysUnwrap'
<1>1. subject' = "vault"
  BY DEF PickVault, Picks
<1>2. PICK n \in Nat : input'.entries \in [1..n -> [epoch : Epochs \cup {NoEpoch},
                                                     bytes : {"all", "some"}, key : KeyNames]]
  BY InputAssumption DEF PickVault, Picks, InputAssumption
<1>3. K!NewestKeyTaken(input'.levels, input'.entries)
  BY <1>2, NewestIsTaken
<1> QED
  BY <1>1, <1>3 DEF KeysUnwrap

\* The pushes.
LEMMA PushesUnwrap ==
  ASSUME PickPush
  PROVE  KeysUnwrap'
<1>1. PICK len \in TextLengths, pad \in Paddings, truthful \in BOOLEAN, cut \in Cuts,
           id \in MessageIDs \cup {None}, form \in W!Forms, receiver \in KeyNames, to \in KeyNames,
           from \in KeyNames \cup {NotAKey}, before \in EarlierHeaders :
          LET sent == W!Push(W!GenerateKeys(receiver, "secret"), from, "salt", len, pad, id)
          IN  input' =
                [creds |-> [keys |-> W!GenerateKeys(to, "secret")], len |-> len,
                 msg |-> [sent EXCEPT !.cut = cut,
                                      !.headers = before \o [@ EXCEPT ![1].value.form = form],
                                      !.plain.len = IF truthful THEN @ ELSE len],
                 intact |-> /\ cut = 0 /\ truthful /\ to = receiver /\ from # NotAKey
                            /\ form # "not base64url"]
  BY DEF PickPush, Picks
<1> DEFINE sent  == W!Push(W!GenerateKeys(receiver, "secret"), from, "salt", len, pad, id)
           creds == [keys |-> W!GenerateKeys(to, "secret")]
           msg   == [sent EXCEPT !.cut = cut,
                                 !.headers = before \o [@ EXCEPT ![1].value.form = form],
                                 !.plain.len = IF truthful THEN @ ELSE len]
           intact == /\ cut = 0 /\ truthful /\ to = receiver /\ from # NotAKey
                     /\ form # "not base64url"
           own   == <<[key |-> "crypto-key", value |-> W!Padded(from)],
                      [key |-> "encryption", value |-> W!Padded("salt")]>>
           to1 == W!MessageKey(receiver, from, "secret", "salt")
<1>2. input' = [creds |-> creds, len |-> len, msg |-> msg, intact |-> intact]
  BY <1>1
<1>3. len \in Nat /\ pad \in Nat /\ cut \in Nat
      /\ before \in Seq({before[i] : i \in DOMAIN before})
  BY InputAssumption DEF InputAssumption
<1>4. sent = [sealed |-> to1, plain |-> [len |-> 2 + pad + len, pad |-> pad], cut |-> 0, id |-> id,
              headers |-> own]
  <2>1. /\ W!GenerateKeys(receiver, "secret").public.of = receiver
        /\ W!GenerateKeys(receiver, "secret").secret.of = "secret"
    BY DEF W!GenerateKeys, W!Padded
  <2> QED
    BY <2>1, Zenon DEF W!Push
<1> HIDE DEF sent, own, to1
<1>5. /\ msg.sealed = to1 /\ msg.cut = cut /\ msg.id = id
      /\ msg.headers = before \o [own EXCEPT ![1].value.form = form]
      /\ msg.plain.pad = pad /\ msg.plain.len = IF truthful THEN 2 + pad + len ELSE len
  BY <1>4
<1>10. intact => Intact(cut, truthful, to, receiver, from, form)
  BY DEF Intact
<1> HIDE DEF msg, creds, intact
<1>6. msg.headers = Headers(before, form, from)
  BY <1>5 DEF Headers, own
<1>7. W!PushRead(creds, msg, len, intact)
  <2>1. Pushed(msg, creds, len, pad, truthful, cut, id, form, receiver, to, from, before)
    BY <1>3, <1>5, <1>6 DEF Pushed, to1, creds
  <2>2. ReadAsPushed(msg, creds, len, truthful, cut, form, receiver, to, from)
    BY <2>1, EveryPushIsRead, Zenon
  <2> QED
    BY <1>10, <2>2 DEF ReadAsPushed, W!PushRead
<1>8. input'.creds = creds /\ input'.len = len /\ input'.msg = msg /\ input'.intact = intact
  BY <1>2
<1>9. subject' = "push"
  BY DEF PickPush, Picks
<1> QED
  BY <1>7, <1>8, <1>9 DEF KeysUnwrap

\* Keys and pushes open with what they were sealed with and nothing else, for all
\* names, lengths, epochs and headers (keybackup.go, extractSharedKey, decrypt).
THEOREM KeysAlwaysUnwrap == UnwrapSpec => []KeysUnwrap
<1>1. NothingPicked => KeysUnwrap
  BY DEF NothingPicked, KeysUnwrap
<1>2. KeysUnwrap /\ [PickSealed]_<<subject, input>> => KeysUnwrap'
  <2> SUFFICES ASSUME KeysUnwrap, [PickSealed]_<<subject, input>> PROVE KeysUnwrap'
    OBVIOUS
  <2>1. CASE PickBackup
    BY <2>1, BackupsUnwrap
  <2>2. CASE PickVault
    BY <2>2, VaultsUnwrap
  <2>3. CASE PickPush
    BY <2>3, PushesUnwrap
  <2>4. CASE UNCHANGED <<subject, input>>
    BY <2>4 DEF KeysUnwrap
  <2> QED
    BY <2>1, <2>2, <2>3, <2>4 DEF PickSealed
<1> QED
  BY <1>1, <1>2, PTL DEF UnwrapSpec

-----------------------------------------------------------------------------
(* Leftovers *)

\* Cookies are read in each form, and from no other.
LEMMA CookiesAreRead ==
  ASSUME NEW inner \in PlainForms,
         NEW stored \in {inner, [kind |-> "absent"], [kind |-> "string", inner |-> inner]}
  PROVE  F!CookiesLoaded(stored, F!AsMap(inner))
<1>1. CASE inner.kind = "map"
  <2>1. PICK c : inner = [kind |-> "map", cookies |-> c]
    BY <1>1 DEF PlainForms
  <2>2. F!AsMap(inner) = c
    BY <2>1 DEF F!AsMap
  <2>3. CASE stored = inner
    BY <2>1, <2>2, <2>3 DEF F!CookiesLoaded, F!LoadMapsCookies, F!IsMap, F!AsMap
  <2>4. CASE stored = [kind |-> "absent"]
    BY <2>1, <2>2, <2>4 DEF F!CookiesLoaded, F!LoadMapsCookies, F!IsMap, F!AsMap
  <2>5. CASE stored = [kind |-> "string", inner |-> inner]
    BY <2>1, <2>2, <2>5 DEF F!CookiesLoaded, F!LoadMapsCookies, F!IsMap, F!AsMap
  <2> QED
    BY <2>3, <2>4, <2>5
<1>2. CASE inner.kind # "map"
  <2>1. inner \in {[kind |-> "other"], [kind |-> "null"]} /\ F!AsMap(inner) = {}
    BY <1>2 DEF PlainForms, F!AsMap
  <2>2. F!LoadMapsCookies(TRUE, stored).cookies = {}
    BY <2>1 DEF F!LoadMapsCookies, F!IsMap, F!AsMap
  <2>3. stored \notin {[kind |-> "map", cookies |-> {}],
                       [kind |-> "string", inner |-> [kind |-> "map", cookies |-> {}]]}
    BY <2>1
  <2> QED
    BY <2>1, <2>2, <2>3 DEF F!CookiesLoaded
<1> QED
  BY <1>1, <1>2

\* A number is read from either tool's file, if it fits.
LEMMA NumbersAreRead ==
  ASSUME NEW n \in Numbers \cup {NaN}
  PROVE  F!NumberRead(n)
<1>1. n # NaN => n \in Int
  BY LeftoversAssumption DEF LeftoversAssumption
<1>2. MaxUint \in Nat
  BY LeftoversAssumption DEF LeftoversAssumption
<1>3. F!IsUint(n) <=> n # NaN /\ n \in 0..MaxUint
  BY <1>1, <1>2 DEF F!IsUint
<1> QED
  BY <1>3 DEF F!NumberRead, F!FlexUint64, F!GoNumber, F!PythonNumber

\* The token is found wherever it is.
LEMMA TokensAreFound ==
  ASSUME NEW nested, NEW flat
  PROVE  F!TokenFound(nested, flat)
BY DEF F!TokenFound, F!RegistrationToken

\* A sequence and an element behind it come apart again.
LEMMA SplitLock ==
  ASSUME NEW T, NEW host \in Seq(T), NEW last
  PROVE  /\ Len(L!ChromeLock(host, last)) = Len(host) + 1
         /\ L!SplitTarget(L!ChromeLock(host, last)) = <<host, last>>
<1> DEFINE S    == T \cup {last}
           lock == Append(host, last)
<1>1. host \in Seq(S)
  OBVIOUS
<1>2. lock \in Seq(S) /\ Len(lock) = Len(host) + 1 /\ lock[Len(lock)] = last
  BY <1>1
<1>3. SubSeq(lock, 1, Len(lock) - 1) = host
  BY <1>1
<1> QED
  BY <1>2, <1>3 DEF L!ChromeLock, L!SplitTarget, L!Front, L!Last

\* The process that holds a profile, by the target of its lock.
LEMMA LockOwner ==
  ASSUME NEW target, NEW local, NEW living
  PROVE  L!ProfileInUse("dir", target, local, living, TRUE)
          <=> /\ target # <<>> /\ L!ParseSingletonLock(target).ok
              /\ L!ParseSingletonLock(target).host = local
              /\ L!ParseSingletonLock(target).pid \in living
              /\ L!ParseSingletonLock(target).pid # NoPID
BY DEF L!ProfileInUse, L!ProfileOwner, L!ProcessAlive

\* What a lock says, when it says anything.
LEMMA LockParsed ==
  ASSUME NEW T, NEW target \in Seq(T)
  PROVE  LET lock == L!ParseSingletonLock(target)
             host == L!SplitTarget(target)[1]
             pid  == L!SplitTarget(target)[2]
         IN  /\ lock.ok <=> ~(Len(target) < 2) /\ host # <<"">> /\ pid \in PIDs
             /\ lock.ok => lock.host = host /\ lock.pid = Numerals[pid]
<1> DEFINE host == L!SplitTarget(target)[1]
           pid  == L!SplitTarget(target)[2]
<1>1. \A n \in DOMAIN Numerals : Numerals[n] \in Int
  BY LeftoversAssumption DEF LeftoversAssumption
<1>2. pid \in PIDs <=> pid \in DOMAIN Numerals /\ ~(Numerals[pid] <= 0)
  BY <1>1 DEF PIDs
<1> HIDE DEF host, pid
<1>3. L!ParseSingletonLock(target) =
        IF Len(target) < 2 \/ host = <<"">> \/ pid \notin DOMAIN Numerals
          THEN [ok |-> FALSE, host |-> <<>>, pid |-> NoPID]
        ELSE IF Numerals[pid] <= 0 THEN [ok |-> FALSE, host |-> <<>>, pid |-> NoPID]
        ELSE [ok |-> TRUE, host |-> host, pid |-> Numerals[pid]]
  BY DEF host, pid, L!ParseSingletonLock
<1> DEFINE lock == L!ParseSingletonLock(target)
<1>4. ASSUME ~(Len(target) < 2) /\ host # <<"">> /\ pid \in PIDs
      PROVE  lock.ok /\ lock.host = host /\ lock.pid = Numerals[pid]
  <2>1. lock = [ok |-> TRUE, host |-> host, pid |-> Numerals[pid]]
    BY <1>2, <1>3, <1>4
  <2> QED
    BY <2>1
<1>5. ASSUME ~(~(Len(target) < 2) /\ host # <<"">> /\ pid \in PIDs)
      PROVE  ~lock.ok
  <2>1. lock = [ok |-> FALSE, host |-> <<>>, pid |-> NoPID]
    BY <1>2, <1>3, <1>5
  <2> QED
    BY <2>1
<1>6. /\ lock.ok <=> ~(Len(target) < 2) /\ host # <<"">> /\ pid \in PIDs
      /\ lock.ok => lock.host = host /\ lock.pid = Numerals[pid]
  BY <1>4, <1>5
<1> QED
  BY <1>6 DEF host, pid

\* A sequence is its front and its last element.
LEMMA FrontAndLast ==
  ASSUME NEW T, NEW s \in Seq(T), s # <<>>
  PROVE  s = Append(SubSeq(s, 1, Len(s) - 1), s[Len(s)])
<1>1. Len(s) \in Nat /\ Len(s) >= 1
  <2>1. Len(s) \in Nat \ {0}
    BY EmptySeq
  <2> QED
    BY <2>1
<1> DEFINE f == SubSeq(s, 1, Len(s) - 1)
<1>2. f \in Seq(T) /\ Len(f) = Len(s) - 1 /\ \A i \in 1..(Len(s) - 1) : f[i] = s[i]
  <2>1. \A i \in 1..(Len(s) - 1) : s[i] \in T
    BY <1>1
  <2>2. /\ f \in Seq(T)
        /\ Len(f) = IF 1 <= Len(s) - 1 THEN (Len(s) - 1) - 1 + 1 ELSE 0
        /\ \A i \in 1..((Len(s) - 1) - 1 + 1) : f[i] = s[1 + i - 1]
    <3> DEFINE n == Len(s) - 1
    <3>1. 1 \in Int /\ n \in Int
      BY <1>1
    <3> HIDE DEF n
    <3>2. \A i \in 1..n : s[i] \in T
      BY <2>1 DEF n
    <3>3. /\ SubSeq(s, 1, n) \in Seq(T)
          /\ Len(SubSeq(s, 1, n)) = IF 1 <= n THEN n - 1 + 1 ELSE 0
          /\ \A i \in 1..(n - 1 + 1) : SubSeq(s, 1, n)[i] = s[1 + i - 1]
      BY <3>1, <3>2, SubSeqProperties
    <3> QED
      BY <3>3 DEF n
  <2> HIDE DEF f
  <2>3. f \in Seq(T)
    BY <2>2
  <2>4. Len(f) = Len(s) - 1
    <3>1. Len(f) = IF 1 <= Len(s) - 1 THEN (Len(s) - 1) - 1 + 1 ELSE 0
      BY <2>2, Zenon
    <3> DEFINE n == Len(s)
               k == Len(f)
    <3>2. n \in Nat /\ n >= 1 /\ k = IF 1 <= n - 1 THEN (n - 1) - 1 + 1 ELSE 0
      BY <1>1, <3>1
    <3> HIDE DEF n, k
    <3>3. k = n - 1
      BY <3>2
    <3> QED
      BY <3>3 DEF n, k
  <2>5. \A i \in 1..(Len(s) - 1) : f[i] = s[i]
    BY <1>1, <2>2
  <2> QED
    BY <2>3, <2>4, <2>5
<1>3. s[Len(s)] \in T
  BY <1>1
<1> HIDE DEF f
<1>4. /\ Append(f, s[Len(s)]) \in Seq(T) /\ Len(Append(f, s[Len(s)])) = Len(s)
      /\ \A i \in 1..Len(s) : Append(f, s[Len(s)])[i] = s[i]
  BY <1>1, <1>2, <1>3
<1>5. Append(f, s[Len(s)]) = s
  BY <1>4
<1> QED
  BY <1>5 DEF f

\* A profile is refused while its Chrome lives on this host, and only then.
LEMMA LocksAreRespected ==
  ASSUME NEW host \in Hosts, NEW local \in Hosts, NEW numeral \in PIDs, NEW living
  PROVE  L!LockRespected(host, numeral, local, living)
<1> DEFINE lock == L!ChromeLock(host, numeral)
           T    == {host[i] : i \in DOMAIN host}
<1>1. host \in Seq(T) /\ host # <<>>
  BY LeftoversAssumption DEF LeftoversAssumption, IsSeq
<1>11. host # <<"">>
  BY LeftoversAssumption DEF LeftoversAssumption
<1>2. Numerals[numeral] # NoPID
  BY LeftoversAssumption DEF LeftoversAssumption, PIDs
<1> HIDE DEF T
<1>3. Len(lock) = Len(host) + 1 /\ L!SplitTarget(lock) = <<host, numeral>>
  BY <1>1, SplitLock, Zenon
<1>4. Len(host) \in Nat \ {0}
  BY <1>1
<1>10. lock \in Seq(T \cup {numeral}) /\ lock # <<>> /\ ~(Len(lock) < 2)
  BY <1>1, <1>3, <1>4 DEF L!ChromeLock
<1>5. L!ParseSingletonLock(lock).ok /\ L!ParseSingletonLock(lock).host = host
      /\ L!ParseSingletonLock(lock).pid = Numerals[numeral]
  <2> HIDE DEF lock
  <2>1. L!SplitTarget(lock)[1] = host /\ L!SplitTarget(lock)[2] = numeral
    BY <1>3
  <2> QED
    BY <1>11, <2>1, <1>10, LockParsed
<1>6. L!ProfileInUse("dir", lock, local, living, TRUE)
        <=> host = local /\ Numerals[numeral] \in living
  BY <1>2, <1>10, <1>5, LockOwner
<1>7. ~L!ProfileInUse("", lock, local, living, TRUE)
  BY DEF L!ProfileInUse
<1>8. ASSUME L!ProfileInUse("dir", host, local, living, TRUE)
      PROVE  \E n \in DOMAIN Numerals : host = L!ChromeLock(local, n) /\ Numerals[n] \in living
  <2> DEFINE n == host[Len(host)]
  <2>1. /\ L!ParseSingletonLock(host).ok /\ L!ParseSingletonLock(host).host = local
        /\ L!ParseSingletonLock(host).pid \in living
    BY <1>8, LockOwner
  <2>2. /\ ~(Len(host) < 2) /\ L!SplitTarget(host)[1] = local
        /\ L!SplitTarget(host)[2] \in PIDs /\ Numerals[L!SplitTarget(host)[2]] \in living
    BY <1>1, <2>1, LockParsed
  <2>3. SubSeq(host, 1, Len(host) - 1) = local /\ n \in PIDs /\ Numerals[n] \in living
    BY <2>2 DEF L!SplitTarget, L!Front, L!Last
  <2>4. host = Append(SubSeq(host, 1, Len(host) - 1), n)
    BY <1>1, FrontAndLast, Zenon
  <2> QED
    BY <2>3, <2>4 DEF PIDs, L!ChromeLock
<1>9. ~L!ProfileInUse("dir", <<>>, local, living, TRUE)
  BY LockOwner
<1> QED
  BY <1>6, <1>7, <1>8, <1>9 DEF L!LockRespected

\* What a flow says of a flag.
Told(config, env, flag) ==
  CASE flag = "headless" -> L!Truth(config.headless)
    [] flag = "disable-blink-features" -> "AutomationControlled"
    [] flag \in {"enable-automation", "password-store", "use-mock-keychain"} -> "false"
    [] flag \in {"no-sandbox", "disable-dev-shm-usage", "disable-gpu"} -> "true"
    [] flag = "window-size" -> config.windowSize
    [] flag = "user-data-dir" -> config.userDataDir

\* The flags of a flow, one by one.
LEMMA FlagsOneByOne ==
  ASSUME NEW config, NEW env, NEW f
  PROVE  f \in L!InitFlags(config, env) <=>
           \/ f = <<"headless", L!Truth(config.headless)>>
           \/ f = <<"enable-automation", "false">>
           \/ f = <<"disable-blink-features", "AutomationControlled">>
           \/ f = <<"password-store", "false">>
           \/ f = <<"use-mock-keychain", "false">>
           \/ f = <<"no-sandbox", "true">> /\ L!NoSandbox(config, env)
           \/ f = <<"disable-dev-shm-usage", "true">> /\ config.disableDevShmUsage
           \/ f = <<"disable-gpu", "true">> /\ config.disableGPU
           \/ f = <<"window-size", config.windowSize>> /\ config.windowSize # ""
           \/ f = <<"user-data-dir", config.userDataDir>> /\ config.userDataDir # ""
BY Zenon DEF L!InitFlags, L!Set

\* What chromedp sets by itself is overridden.
LEMMA LineIsOfTheFlow ==
  ASSUME NEW config, NEW env, NEW f
  PROVE  f \in L!CommandLine(config, env) <=> f \in L!InitFlags(config, env) /\ f[2] # "false"
<1>1. ASSUME f \in L!Defaults
      PROVE  \E g \in L!InitFlags(config, env) : g[1] = f[1]
  <2>1. /\ <<"headless", L!Truth(config.headless)>> \in L!InitFlags(config, env)
        /\ <<"enable-automation", "false">> \in L!InitFlags(config, env)
        /\ <<"password-store", "false">> \in L!InitFlags(config, env)
        /\ <<"use-mock-keychain", "false">> \in L!InitFlags(config, env)
    BY FlagsOneByOne
  <2>2. \/ f = <<"headless", "true">>
        \/ f = <<"enable-automation", "true">>
        \/ f = <<"password-store", "basic">>
        \/ f = <<"use-mock-keychain", "true">>
    BY <1>1 DEF L!Defaults
  <2> QED
    BY <2>1, <2>2
<1> QED
  BY <1>1 DEF L!CommandLine, L!AllocatorOptions, L!Override

\* A flag has the value that the flow gives it.
LEMMA OneValuePerFlag ==
  ASSUME NEW config, NEW env, NEW f \in L!InitFlags(config, env)
  PROVE  f = <<f[1], Told(config, env, f[1])>>
<1>1. CASE f = <<"headless", L!Truth(config.headless)>>
  BY <1>1 DEF Told
<1>2. CASE f = <<"disable-blink-features", "AutomationControlled">>
  BY <1>2 DEF Told
<1>3. CASE \/ f = <<"enable-automation", "false">> \/ f = <<"password-store", "false">>
           \/ f = <<"use-mock-keychain", "false">>
  BY <1>3 DEF Told
<1>4. CASE \/ f = <<"no-sandbox", "true">> \/ f = <<"disable-dev-shm-usage", "true">>
           \/ f = <<"disable-gpu", "true">>
  BY <1>4 DEF Told
<1>5. CASE f = <<"window-size", config.windowSize>>
  BY <1>5 DEF Told
<1>6. CASE f = <<"user-data-dir", config.userDataDir>>
  BY <1>6 DEF Told
<1> QED
  BY <1>1, <1>2, <1>3, <1>4, <1>5, <1>6, FlagsOneByOne

\* The sandbox is left out only on demand.
LEMMA SandboxFlag ==
  ASSUME NEW config, NEW env, NEW f \in L!InitFlags(config, env), f[1] = "no-sandbox"
  PROVE  L!NoSandbox(config, env)
<1>1. /\ f # <<"headless", L!Truth(config.headless)>>
      /\ f # <<"enable-automation", "false">>
      /\ f # <<"disable-blink-features", "AutomationControlled">>
      /\ f # <<"password-store", "false">>
      /\ f # <<"use-mock-keychain", "false">>
      /\ f # <<"disable-dev-shm-usage", "true">>
      /\ f # <<"disable-gpu", "true">>
      /\ f # <<"window-size", config.windowSize>>
      /\ f # <<"user-data-dir", config.userDataDir>>
  OBVIOUS
<1> QED
  BY <1>1, FlagsOneByOne, Zenon

\* Chrome is launched as it was configured.
LEMMA LaunchesAreAsTold ==
  ASSUME NEW config, NEW env, config.headless \in BOOLEAN, config.userDataDir # "false"
  PROVE  L!LaunchedAsTold(config, env)
<1> DEFINE line == L!CommandLine(config, env)
<1>1. \A f : f \in line <=> f \in L!InitFlags(config, env) /\ f[2] # "false"
  BY LineIsOfTheFlow
<1>2. \A f \in line : f = <<f[1], Told(config, env, f[1])>> /\ f[2] # "false"
  BY <1>1, OneValuePerFlag
<1> HIDE DEF line
<1>3. {f[1] : f \in line} \cap {"enable-automation", "password-store", "use-mock-keychain"} = {}
  <2>1. ASSUME NEW f \in line,
               f[1] \in {"enable-automation", "password-store", "use-mock-keychain"}
        PROVE  FALSE
    <3>1. Told(config, env, f[1]) = "false"
      BY <2>1 DEF Told
    <3> QED
      BY <1>2, <2>1, <3>1
  <2> QED
    BY <2>1
<1>4. <<"headless", "true">> \in line <=> config.headless
  <2> DEFINE f == <<"headless", "true">>
  <2>1. CASE config.headless
    <3>1. f \in L!InitFlags(config, env)
      BY <2>1, FlagsOneByOne DEF L!Truth
    <3> QED
      BY <1>1, <2>1, <3>1
  <2>2. CASE ~config.headless
    <3>1. f \in line => f = <<"headless", Told(config, env, "headless")>>
      BY <1>2
    <3>2. Told(config, env, "headless") = "false"
      BY <2>2 DEF Told, L!Truth
    <3> QED
      BY <2>2, <3>1, <3>2
  <2> QED
    BY <2>1, <2>2
<1>5. <<"no-sandbox", "true">> \in line <=> config.noSandbox \/ env = "1"
  <2>1. <<"no-sandbox", "true">> \in L!InitFlags(config, env) <=> config.noSandbox \/ env = "1"
    <3> DEFINE f == <<"no-sandbox", "true">>
    <3>1. f[1] = "no-sandbox"
      OBVIOUS
    <3>2. f \in L!InitFlags(config, env) => L!NoSandbox(config, env)
      <4> HIDE DEF f
      <4> QED
        BY <3>1, SandboxFlag
    <3>3. L!NoSandbox(config, env) => f \in L!InitFlags(config, env)
      BY FlagsOneByOne
    <3> QED
      BY <3>2, <3>3 DEF L!NoSandbox
  <2> QED
    BY <1>1, <2>1
<1>6. \A f, g \in line : f[1] = g[1] => f = g
  BY <1>2
<1>7. config.userDataDir # "" => <<"user-data-dir", config.userDataDir>> \in line
  <2>1. config.userDataDir # "" =>
          <<"user-data-dir", config.userDataDir>> \in L!InitFlags(config, env)
    BY FlagsOneByOne
  <2> QED
    BY <1>1, <2>1
<1> QED
  BY <1>3, <1>4, <1>5, <1>6, <1>7 DEF line, L!LaunchedAsTold

\* What is left on disk is read whole, for all cookies, numbers, tokens, hosts and
\* processes (LoadMapsCookies, flexUint64, RegistrationToken, CheckProfileFree,
\* AllocatorOptions).
THEOREM LeftoversAlwaysRead == LeftoversSpec => []LeftoversRead
<1>1. NothingPicked => LeftoversRead
  BY DEF NothingPicked, LeftoversRead
<1>2. LeftoversRead /\ [PickLeftover]_<<subject, input>> => LeftoversRead'
  <2> SUFFICES ASSUME LeftoversRead, [PickLeftover]_<<subject, input>> PROVE LeftoversRead'
    OBVIOUS
  <2>1. CASE PickCookies
    <3>1. PICK inner \in PlainForms :
             \E stored \in {inner, [kind |-> "absent"], [kind |-> "string", inner |-> inner]} :
                input' = [cookies |-> F!AsMap(inner), stored |-> stored]
      BY <2>1 DEF PickCookies
    <3>2. PICK stored \in {inner, [kind |-> "absent"], [kind |-> "string", inner |-> inner]} :
             input' = [cookies |-> F!AsMap(inner), stored |-> stored]
      BY <3>1
    <3>3. F!CookiesLoaded(stored, F!AsMap(inner))
      BY CookiesAreRead
    <3>4. input'.stored = stored /\ input'.cookies = F!AsMap(inner)
      BY <3>2
    <3>5. subject' = "cookies"
      BY <2>1 DEF PickCookies, Picks
    <3> QED
      BY <3>3, <3>4, <3>5 DEF LeftoversRead
  <2>2. CASE PickNumeral
    <3>1. F!NumberRead(input') /\ subject' = "numeral"
      BY <2>2, NumbersAreRead DEF PickNumeral, Picks
    <3> QED
      BY <3>1 DEF LeftoversRead
  <2>3. CASE PickToken
    <3>1. F!TokenFound(input'.nested, input'.flat) /\ subject' = "token"
      BY <2>3, TokensAreFound DEF PickToken, Picks
    <3> QED
      BY <3>1 DEF LeftoversRead
  <2>4. CASE PickLock
    <3>1. input'.host \in Hosts /\ input'.local \in Hosts /\ input'.numeral \in PIDs
      BY <2>4 DEF PickLock
    <3>2. L!LockRespected(input'.host, input'.numeral, input'.local, input'.living)
      BY <3>1, LocksAreRespected
    <3>3. subject' = "lock"
      BY <2>4 DEF PickLock, Picks
    <3> QED
      BY <3>2, <3>3 DEF LeftoversRead
  <2>5. CASE PickConfig
    <3>1. input'.config.headless \in BOOLEAN /\ input'.config.userDataDir # "false"
      BY <2>5, LeftoversAssumption DEF LeftoversAssumption, PickConfig
    <3>2. L!LaunchedAsTold(input'.config, input'.env)
      BY <3>1, LaunchesAreAsTold
    <3>3. subject' = "config"
      BY <2>5 DEF PickConfig, Picks
    <3> QED
      BY <3>2, <3>3 DEF LeftoversRead
  <2>6. CASE UNCHANGED <<subject, input>>
    <3>1. subject' = subject /\ input' = input
      BY <2>6
    <3> QED
      BY <3>1, Zenon DEF LeftoversRead
  <2> QED
    BY <2>1, <2>2, <2>3, <2>4, <2>5, <2>6 DEF PickLeftover
<1> QED
  BY <1>1, <1>2, PTL DEF LeftoversSpec

=============================================================================
