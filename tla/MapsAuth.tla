------------------------------ MODULE MapsAuth ------------------------------
(***************************************************************************)
(* AuthenticateMaps of maps/maps.go: Chrome shows Google Maps, the flow    *)
(* polls the browser's cookies until one named SID is there, waits for the *)
(* others to settle, reads them again, keeps one value per name and stores *)
(* them.                                                                   *)
(*                                                                         *)
(* A cookie is its name and its domain; where it stands among the cookies  *)
(* Chrome returns tells two of the same kind apart.  The browser's cookies *)
(* change at any time.  One call is followed to its return.                *)
(***************************************************************************)
EXTENDS Naturals, Sequences, SequencesExt

CONSTANTS
    MaxCookies   \* bound: cookies in the browser at one time

ASSUME BoundAssumption == MaxCookies \in Nat \ {0}

VARIABLES
    pc, result,
    hasDeadline, \* does the caller's context have a deadline
    late,        \* the deadline has passed
    ctxEnd,      \* has the caller's context ended
    browser,     \* is Chrome running
    otherChrome, \* does another Chrome use the profile
    jar,         \* the cookies in the browser, in the order Chrome lists them
    allCookies,  \* what the flow has read of them to store
    saved        \* per name, the place in allCookies of the value stored

flow  == <<pc, result, hasDeadline, late, ctxEnd>>
vars  == <<flow, browser, otherChrome, jar, allCookies, saved>>

\* isEssentialCookie keeps "SID" from any host; "OTHER" is any name it omits.
Names == {"SID", "OTHER"}
\* .google.com, a subdomain of it, and any other host.
Domains == {"google.com", "sub", "regional"}
Cookies == [name : Names, domain : Domains]
NoneKept == [n \in Names |-> 0]

TypeOK ==
    /\ pc \in {"check", "launch", "select", "poll", "settle", "refetch",
               "save", "done"}
    /\ result \in {"none", "saved", "profileInUse", "error", "timeout", "ctx"}
    /\ hasDeadline \in BOOLEAN /\ late \in BOOLEAN /\ ctxEnd \in BOOLEAN
    /\ browser \in {"no", "up", "dead"} /\ otherChrome \in BOOLEAN
    /\ jar \in BoundedSeq(Cookies, MaxCookies)
    /\ allCookies \in BoundedSeq(Cookies, MaxCookies)
    /\ saved \in [Names -> 0..MaxCookies]
    /\ result = "saved" <=> saved # NoneKept

Init ==
    /\ pc = "check" /\ result = "none"
    /\ hasDeadline \in BOOLEAN /\ late = FALSE /\ ctxEnd = FALSE
    /\ browser = "no" /\ otherChrome \in BOOLEAN
    /\ jar \in BoundedSeq(Cookies, 1)      \* left in a persistent profile
    /\ allCookies = <<>> /\ saved = NoneKept

-----------------------------------------------------------------------------
(* The choice of one value per name *)

\* containsGoogleDomain, isEssentialCookie
Kept(c) == c.domain \in {"google.com", "sub"} \/ c.name = "SID"

\* Mutated form: the later value always wins.
preferDomainLast(candidate, current) == TRUE

preferDomain(candidate, current) ==
    current = "google.com" => candidate = "google.com"

\* The i-th cookie is taken, or passed over.
Considered(cs, kept, i) ==
    LET c == cs[i]
        prev == kept[c.name]
    IN  IF Kept(c) /\ (prev # 0 => preferDomain(c.domain, cs[prev].domain))
          THEN [kept EXCEPT ![c.name] = i]
          ELSE kept

\* mapsCookies and cookieDomain after all the cookies of cs.
Chosen(cs) ==
    LET kept[i \in 0..Len(cs)] ==
            IF i = 0 THEN NoneKept ELSE Considered(cs, kept[i - 1], i)
    IN  kept[Len(cs)]

-----------------------------------------------------------------------------
(* Steps of the flow *)

\* The deferred cancels end Chrome.
Finish(r) ==
    /\ pc' = "done" /\ result' = r /\ browser' = "no"
    /\ UNCHANGED <<hasDeadline, late, ctxEnd, otherChrome, jar, allCookies>>

Goto(l) ==
    /\ pc' = l
    /\ UNCHANGED <<result, hasDeadline, late, ctxEnd>>

\* chromedp.Run returns an error.
MustFail == browser = "dead" \/ ctxEnd

\* chrome.CheckProfileFree
CheckProfile ==
    /\ pc = "check"
    /\ \/ otherChrome /\ Finish("profileInUse")
       \/ /\ ~otherChrome /\ Goto("launch")
          /\ UNCHANGED <<browser, otherChrome, jar, allCookies>>
    /\ UNCHANGED saved

Launch ==
    /\ pc = "launch" /\ ~MustFail /\ ~otherChrome
    /\ Goto("select") /\ browser' = "up"
    /\ UNCHANGED <<otherChrome, jar, allCookies, saved>>

\* Chrome is handed to another instance, dies, or fails to load the page.
LaunchFails == pc = "launch" /\ Finish("error") /\ UNCHANGED saved

Tick ==
    /\ pc = "select"
    /\ Goto("poll")
    /\ UNCHANGED <<browser, otherChrome, jar, allCookies, saved>>

\* Mutated form: the poll's select waits for the ticker only.
CtxDoneUnwatched == pc = "settle" /\ ctxEnd /\ Finish("ctx") /\ UNCHANGED saved

\* The select of the loop and the one of the settling time.
CtxDone ==
    /\ pc \in {"select", "settle"} /\ ctxEnd
    /\ Finish("ctx") /\ UNCHANGED saved

\* A poll that fails is tried again, past the test of the deadline.
PollFails ==
    /\ pc = "poll" /\ MustFail
    /\ Goto("select")
    /\ UNCHANGED <<browser, otherChrome, jar, allCookies, saved>>

SignedIn(cs) == \E i \in DOMAIN cs : cs[i].name = "SID"

\* What it reads is read again before it is used.
Poll ==
    /\ pc = "poll" /\ ~MustFail
    /\ \/ /\ SignedIn(jar) \/ ~late
          /\ Goto(IF SignedIn(jar) THEN "settle" ELSE "select")
          /\ UNCHANGED <<browser, otherChrome, jar, allCookies>>
       \/ ~SignedIn(jar) /\ late /\ Finish("timeout")
    /\ UNCHANGED saved

\* Three seconds later.
Settle ==
    /\ pc = "settle"
    /\ Goto("refetch")
    /\ UNCHANGED <<browser, otherChrome, jar, allCookies, saved>>

Refetch ==
    /\ pc = "refetch"
    /\ \/ /\ ~MustFail
          /\ Goto("save") /\ allCookies' = jar
          /\ UNCHANGED <<browser, otherChrome, jar>>
       \/ MustFail /\ Finish("error")
    /\ UNCHANGED saved

\* Mutated form: no test for cookies worth storing.
SaveAnything ==
    /\ pc = "save"
    /\ saved' = Chosen(allCookies)
    /\ Finish("saved")

\* Nothing to keep, Update fails, or Update stores the cookies.
Save ==
    /\ pc = "save"
    /\ LET kept == Chosen(allCookies)
       IN  \/ UNCHANGED saved /\ Finish("error")
           \/ kept # NoneKept /\ saved' = kept /\ Finish("saved")

Flow ==
    \/ CheckProfile \/ Launch \/ LaunchFails \/ Tick \/ CtxDone
    \/ PollFails \/ Poll \/ Settle \/ Refetch \/ Save

-----------------------------------------------------------------------------
(* The clock, the caller, Chrome and the user *)

Outside == <<pc, result, hasDeadline, allCookies, saved>>

\* The context's deadline, or four minutes from the first page on.
Late ==
    /\ pc # "done" /\ ~late /\ (hasDeadline \/ pc \notin {"check", "launch"})
    /\ late' = TRUE
    /\ UNCHANGED <<Outside, ctxEnd, browser, otherChrome, jar>>

\* The context's deadline passes, or the caller cancels.
CtxEnds ==
    /\ pc # "done" /\ ~ctxEnd
    /\ ctxEnd' = TRUE
    /\ UNCHANGED <<Outside, late, browser, otherChrome, jar>>

ChromeDies ==
    /\ browser = "up"
    /\ browser' = "dead"
    /\ UNCHANGED <<Outside, late, ctxEnd, otherChrome, jar>>

\* Chrome keeps a second instance off the profile of a running one.
OtherChrome ==
    /\ pc # "done" /\ browser = "no"
    /\ otherChrome' = ~otherChrome
    /\ UNCHANGED <<Outside, late, ctxEnd, browser, jar>>

\* Sign-ins, redirects and scripts set and remove cookies; what they do after
\* the last reading makes no difference.
Watched == browser = "up" /\ pc \notin {"save", "done"}

CookieSet ==
    /\ Watched /\ Len(jar) < MaxCookies
    /\ \E c \in Cookies : jar' = Append(jar, c)
    /\ UNCHANGED <<Outside, late, ctxEnd, browser, otherChrome>>

CookieRemoved ==
    /\ Watched
    /\ \E i \in DOMAIN jar : jar' = RemoveAt(jar, i)
    /\ UNCHANGED <<Outside, late, ctxEnd, browser, otherChrome>>

Next ==
    \/ Flow
    \/ Late \/ CtxEnds \/ ChromeDies \/ OtherChrome
    \/ CookieSet \/ CookieRemoved

\* Time passes and timers fire; a select takes one of the ready cases at
\* random, so it does not miss a context that has ended for ever.  chromedp.Run
\* returns when its context ends or Chrome is gone; the store answers.
Fairness ==
    /\ WF_vars(CheckProfile) /\ WF_vars(Tick) /\ SF_vars(CtxDone)
    /\ WF_vars(MustFail /\ Flow) /\ WF_vars(Settle) /\ WF_vars(Save)
    /\ WF_vars(Late) /\ WF_vars(hasDeadline /\ late /\ CtxEnds)

Spec == Init /\ [][Next]_vars /\ Fairness

-----------------------------------------------------------------------------
(* Properties *)

\* The comment on preferDomain: "An exact google.com cookie beats regional
\* domains; between two equally specific domains the later value wins".
ExactDomainWins ==
    \A n \in Names :
        LET kept  == {i \in DOMAIN allCookies :
                        allCookies[i].name = n /\ Kept(allCookies[i])}
            exact == {i \in kept : allCookies[i].domain = "google.com"}
            best  == IF exact = {} THEN kept ELSE exact
        IN  saved[n] # 0 => /\ saved[n] \in best
                            /\ \A i \in best : i <= saved[n]

\* A call whose context has a deadline, or ends, returns (AuthenticateMaps).
EndsWithContext == hasDeadline \/ ctxEnd ~> pc = "done"

\* "login timeout - SID cookie not found after 4 minutes": with the wait's
\* deadline behind it and Chrome gone, the call returns.
TimesOut == late /\ browser = "dead" ~> pc = "done"

-----------------------------------------------------------------------------
(* For the proofs *)

\* What is stored is the choice among the cookies read last, and nothing is
\* stored before the flow returns.
StoresChoice ==
    /\ pc # "done" => result = "none"
    /\ saved \in {NoneKept, Chosen(allCookies)}

AuthInv == TypeOK /\ StoresChoice
=============================================================================
