----------------------------- MODULE BrowserFlow -----------------------------
(***************************************************************************)
(* The two interactive flows of browser/oauth.go.  RunOAuthFlow opens      *)
(* Chrome and polls its cookies for an oauth_token; RequestSharedKey waits *)
(* for the sign-in, opens the security domain page and polls it for the    *)
(* vault keys, which the page hands over by calling                        *)
(* window.mm.setVaultSharedKeys.  Both stop when their context ends or     *)
(* their deadline passes.                                                  *)
(*                                                                         *)
(* The JavaScript the flow injects (vaultKeysHookJS, wrapVaultKeysJS) is   *)
(* part of the model: window.mm is an object whose methods are wrapped or  *)
(* not.  The user, the pages and Chrome are external and may do anything   *)
(* at any time.  One flow is followed, from its call to its return.        *)
(***************************************************************************)
EXTENDS Naturals

CONSTANTS
    MaxDocs      \* bound: documents loaded

ASSUME BoundAssumption == MaxDocs \in Nat \ {0}

VARIABLES
    flow,        \* "oauth" or "key"
    pc, phase,   \* control; the poll loop it is in
    result,
    hasDeadline, \* does the caller's context have a deadline
    late,        \* the flow's deadline has passed
    ctxEnd,      \* how the caller's context ended
    browser,     \* is Chrome running
    otherChrome, \* does another Chrome use the profile
    sawClosed,   \* what the first of the two reads of a poll returned
    site,        \* what the window shows
    docs,        \* documents so far
    mm,          \* window.mm: are its methods wrapped, does the page define them
    captured,    \* window.__e2ee_vault_keys is set
    closed,      \* window.__e2ee_closed is set
    cookie,      \* an oauth_token cookie exists
    \* what happened: the page has assigned window.mm, or the fallback has
    \* wrapped it, in this document; it has then handed the keys over to an
    \* object that did not capture them
    assigned, missed

call  == <<flow, hasDeadline>>
time  == <<late, ctxEnd>>
page  == <<site, docs, mm, captured, closed, assigned>>
user  == <<cookie, missed, otherChrome>>
control == <<call, pc, phase, result, time, sawClosed>>
vars  == <<call, pc, phase, result, time, browser, sawClosed, page, user>>

PCs == {"check", "launch", "accounts", "poll", "pollKeys", "wait", "vault",
        "fallback", "done"}
Results == {"none", "token", "key", "profileInUse", "error", "closed",
            "timeout", "ctx"}

TypeOK ==
    /\ flow \in {"oauth", "key"} /\ hasDeadline \in BOOLEAN
    /\ pc \in PCs /\ phase \in {"none", "cookies", "signin", "keys"}
    /\ result \in Results /\ (result # "none" <=> pc = "done")
    /\ late \in BOOLEAN /\ ctxEnd \in {"no", "canceled", "deadline"}
    /\ browser \in {"no", "up", "dead"} /\ otherChrome \in BOOLEAN
    /\ sawClosed \in BOOLEAN
    /\ site \in {"blank", "accounts", "myaccount", "setup", "vault"}
    /\ docs \in 0..MaxDocs
    /\ mm \in [wrapped : BOOLEAN, own : BOOLEAN]
    /\ captured \in BOOLEAN /\ closed \in BOOLEAN /\ cookie \in BOOLEAN
    /\ assigned \in BOOLEAN
    /\ missed \in BOOLEAN

\* The hook's initial object: plain, without methods.
FreshMM == [wrapped |-> FALSE, own |-> FALSE]

Init ==
    /\ flow \in {"oauth", "key"} /\ hasDeadline \in BOOLEAN
    /\ pc = "check" /\ phase = "none" /\ result = "none"
    /\ late = FALSE /\ ctxEnd = "no"
    /\ browser = "no" /\ otherChrome \in BOOLEAN /\ sawClosed = FALSE
    /\ site = "blank" /\ docs = 0 /\ mm = FreshMM
    /\ captured = FALSE /\ closed = FALSE /\ assigned = FALSE
    /\ cookie \in BOOLEAN        \* one may be left in a persistent profile
    /\ missed = FALSE

-----------------------------------------------------------------------------
(* Steps of the flow *)

\* Mutated form: a shadowed error, nothing is returned.
FinishWithNothing(r) ==
    /\ pc' = "done" /\ result' = "none"
    /\ browser' = "no"
    /\ UNCHANGED <<call, phase, time, sawClosed, page, user>>

\* The deferred cancels end Chrome.
Finish(r) ==
    /\ pc' = "done" /\ result' = r
    /\ browser' = "no"
    /\ UNCHANGED <<call, phase, time, sawClosed, page, user>>

CheckProfile ==
    /\ pc = "check"
    /\ IF otherChrome
         THEN Finish("profileInUse")
         ELSE /\ pc' = "launch"
              /\ UNCHANGED <<call, phase, result, time, browser, sawClosed,
                             page, user>>

\* Mutated form: the browser's context does not come from the caller's.
MustFailDetached == browser = "dead"

\* chromedp.Run returns an error.
MustFail == browser = "dead" \/ ctxEnd # "no"

\* A new document: the page's globals are gone and the hook, if installed, has run.
Load(s) ==
    /\ docs < MaxDocs
    /\ docs' = docs + 1 /\ site' = s
    /\ mm' = FreshMM /\ captured' = FALSE /\ closed' = FALSE
    /\ assigned' = FALSE

\* The first chromedp.Run starts Chrome; one that finds the profile taken is
\* handed to the running instance and fails.
Launch ==
    /\ pc = "launch" /\ ~MustFail /\ ~otherChrome
    /\ browser' = "up"
    /\ IF flow = "oauth"
         THEN /\ Load("setup")
              /\ pc' = "poll" /\ phase' = "cookies"
         ELSE /\ pc' = "accounts"
              /\ UNCHANGED <<page, phase>>
    /\ UNCHANGED <<call, result, time, sawClosed, user>>

Accounts ==
    /\ pc = "accounts" /\ ~MustFail
    /\ Load("accounts")
    /\ pc' = "poll" /\ phase' = "signin"
    /\ UNCHANGED <<call, result, time, browser, sawClosed, user>>

\* A navigation or a launch that fails.
NavigateFails ==
    /\ pc \in {"launch", "accounts", "vault"}
    /\ MustFail \/ otherChrome
    /\ Finish("error")

\* Cookies or location read; with no result the loop looks at the clock.
PollFound ==
    /\ pc = "poll" /\ ~MustFail
    /\ \/ phase = "cookies" /\ cookie /\ Finish("token")
       \/ /\ phase = "signin" /\ site = "myaccount"
          /\ pc' = "vault"
          /\ UNCHANGED <<call, phase, result, time, browser, sawClosed, page,
                         user>>

\* No result: the location could not be read, or it or the cookies are not
\* what the flow waits for.
NothingYet ==
    \/ phase = "signin" /\ (MustFail \/ site # "myaccount")
    \/ phase = "cookies" /\ ~MustFail /\ ~cookie

PollNothing ==
    /\ pc = "poll" /\ NothingYet
    /\ IF late
         THEN Finish("timeout")
         ELSE /\ pc' = "wait"
              /\ UNCHANGED <<call, phase, result, time, browser, sawClosed,
                             page, user>>

PollError ==
    /\ pc \in {"poll", "pollKeys"} /\ phase # "signin" /\ MustFail
    /\ Finish("error")

Vault ==
    /\ pc = "vault" /\ ~MustFail
    /\ Load("vault")
    /\ pc' = "fallback"
    /\ UNCHANGED <<call, phase, result, time, browser, sawClosed, user>>

\* wrapVaultKeysJS wraps the object in place, over the page's own methods; if
\* it cannot be run the flow goes on.  The wait for the keys has a deadline
\* of its own unless the context has one.
Fallback ==
    /\ pc = "fallback"
    /\ IF MustFail
         THEN UNCHANGED page
         ELSE /\ mm' = [mm EXCEPT !.wrapped = TRUE]
              /\ assigned' = TRUE
              /\ UNCHANGED <<site, docs, captured, closed>>
    /\ late' = (late /\ hasDeadline)
    /\ pc' = "poll" /\ phase' = "keys"
    /\ UNCHANGED <<call, result, ctxEnd, browser, sawClosed, user>>

\* The poll for the keys evaluates twice in the page.
ReadClosed ==
    /\ pc = "poll" /\ phase = "keys" /\ ~MustFail
    /\ sawClosed' = closed
    /\ pc' = "pollKeys"
    /\ UNCHANGED <<call, phase, result, time, browser, page, user>>

\* Mutated form: the deadline is tested before the keys.
ReadKeysDeadlineFirst ==
    /\ pc = "pollKeys" /\ ~MustFail
    /\ \/ sawClosed /\ Finish("closed")
       \/ ~sawClosed /\ late /\ Finish("timeout")
       \/ ~sawClosed /\ ~late /\ captured /\ Finish("key")
       \/ /\ ~sawClosed /\ ~late /\ ~captured
          /\ pc' = "wait"
          /\ UNCHANGED <<call, phase, result, time, browser, sawClosed, page,
                         user>>

ReadKeys ==
    /\ pc = "pollKeys" /\ ~MustFail
    /\ \/ sawClosed /\ Finish("closed")
       \/ ~sawClosed /\ captured /\ Finish("key")
       \/ ~sawClosed /\ captured /\ Finish("error")   \* extractSharedKey
       \/ ~sawClosed /\ ~captured /\ late /\ Finish("timeout")
       \/ /\ ~sawClosed /\ ~captured /\ ~late
          /\ pc' = "wait"
          /\ UNCHANGED <<call, phase, result, time, browser, sawClosed, page,
                         user>>

\* The select of every loop.
Tick ==
    /\ pc = "wait"
    /\ pc' = "poll"
    /\ UNCHANGED <<call, phase, result, time, browser, sawClosed, page, user>>

CtxDone ==
    /\ pc = "wait" /\ ctxEnd # "no"
    /\ Finish("ctx")

Flow ==
    \/ CheckProfile \/ Launch \/ Accounts \/ NavigateFails
    \/ PollFound \/ PollNothing \/ PollError
    \/ Vault \/ Fallback \/ ReadClosed \/ ReadKeys
    \/ Tick \/ CtxDone

-----------------------------------------------------------------------------
(* The clock and the caller *)

Late ==
    /\ pc # "done" /\ ~late /\ (hasDeadline \/ phase # "none")
    /\ late' = TRUE
    /\ UNCHANGED <<call, pc, phase, result, ctxEnd, browser, sawClosed, page,
                   user>>

CtxExpires ==
    /\ pc # "done" /\ hasDeadline /\ late /\ ctxEnd = "no"
    /\ ctxEnd' = "deadline"
    /\ UNCHANGED <<call, pc, phase, result, late, browser, sawClosed, page,
                   user>>

Cancel ==
    /\ pc # "done" /\ ctxEnd = "no"
    /\ ctxEnd' = "canceled"
    /\ UNCHANGED <<call, pc, phase, result, late, browser, sawClosed, page,
                   user>>

-----------------------------------------------------------------------------
(* Chrome, the user and the pages *)

\* The user closes the window, or Chrome crashes.
ChromeDies ==
    /\ browser = "up"
    /\ browser' = "dead"
    /\ UNCHANGED <<control, page, user>>

\* Chrome keeps a second instance off the profile of a running one.
OtherChrome ==
    /\ pc # "done" /\ browser = "no"
    /\ otherChrome' = ~otherChrome
    /\ UNCHANGED <<control, browser, page, cookie, missed>>

SignIn ==
    /\ browser = "up"
    /\ \/ site = "accounts" /\ Load("myaccount") /\ UNCHANGED cookie
       \/ site = "setup" /\ cookie' = TRUE /\ UNCHANGED page
    /\ UNCHANGED <<control, browser, otherChrome, missed>>

\* The security domain page goes from one document to the next.
Redirect ==
    /\ browser = "up" /\ site = "vault"
    /\ Load("vault")
    /\ UNCHANGED <<control, browser, user>>

\* The page assigns window.mm: the hook's setter wraps the object.
Assign ==
    /\ browser = "up" /\ site = "vault"
    /\ \E own \in BOOLEAN : mm' = [wrapped |-> TRUE, own |-> own]
    /\ assigned' = TRUE
    /\ UNCHANGED <<control, browser, site, docs, captured, closed, user>>

\* Mutated form: wrapMethod installs a plain value, which the page overwrites.
DefineOverwrites ==
    /\ browser = "up" /\ site = "vault"
    /\ mm' = [wrapped |-> FALSE, own |-> TRUE]
    /\ UNCHANGED <<control, browser, site, docs, captured, closed, assigned,
                   user>>

\* The page sets a method of the object: the wrapper's setter keeps the wrapper.
Define ==
    /\ browser = "up" /\ site = "vault"
    /\ mm' = [mm EXCEPT !.own = TRUE]
    /\ UNCHANGED <<control, browser, site, docs, captured, closed, assigned,
                   user>>

\* The page calls window.mm.setVaultSharedKeys, and never after closeView.
HandOver ==
    /\ browser = "up" /\ site = "vault" /\ ~closed
    /\ captured' = (captured \/ mm.wrapped)
    /\ missed' = (missed \/ (assigned /\ ~mm.wrapped))
    /\ UNCHANGED <<control, browser, site, docs, mm, closed, assigned, cookie,
                   otherChrome>>

\* The page calls window.mm.closeView.
CloseView ==
    /\ browser = "up" /\ site = "vault"
    /\ closed' = (closed \/ mm.wrapped)
    /\ UNCHANGED <<control, browser, site, docs, mm, captured, assigned, user>>

World ==
    \/ Late \/ CtxExpires \/ Cancel \/ ChromeDies \/ OtherChrome
    \/ SignIn \/ Redirect \/ Assign \/ Define \/ HandOver \/ CloseView

Next == Flow \/ World

\* Time passes and tickers tick.  chromedp.Run returns when its context ends
\* or Chrome is gone; before that a page may keep it for ever, so nothing is
\* owed by Launch, Accounts, Vault or a read that could succeed.
Fairness ==
    /\ WF_vars(CheckProfile) /\ WF_vars(Tick) /\ WF_vars(CtxDone)
    /\ WF_vars(MustFail /\ Flow)
    /\ WF_vars(PollNothing) /\ WF_vars(Late) /\ WF_vars(CtxExpires)

Spec == Init /\ [][Next]_vars /\ Fairness

-----------------------------------------------------------------------------
(* Properties *)

\* An object the page assigned to window.mm, or the fallback wrapped, captures
\* the keys whatever the page does to its methods afterwards (the comment on
\* vaultKeysHookJS: setVaultSharedKeys and closeView are observed).
HookedCaptures == ~missed

\* ErrTimeout is the last resort: a flow that reports it has found none of what
\* it waited for when it looked last, although the deadline may pass, and the
\* token or the keys come, at any point of the poll (the order of the tests in
\* the loops of RunOAuthFlow and RequestSharedKey).
TimeoutIsLastResort ==
    result = "timeout" => ~captured /\ (flow = "oauth" => ~cookie)

\* A flow whose context has a deadline, or ends, returns, whatever Chrome, the
\* pages and the user do (RunOAuthFlow, RequestSharedKey).
EndsWithContext == hasDeadline \/ ctxEnd # "no" ~> pc = "done"

-----------------------------------------------------------------------------
(* For the proofs *)

\* Where a flow can be, and what its window shows there.
Stages ==
    /\ flow = "oauth" => /\ phase \in {"none", "cookies"}
                         /\ pc \in {"check", "launch", "poll", "wait", "done"}
    /\ pc = "pollKeys" => phase = "keys"
    /\ site = "vault" => phase = "keys" \/ pc \in {"fallback", "done"}
    /\ pc = "done" => browser = "no"

\* What the page's globals can be.
Globals ==
    /\ captured => site = "vault"
    /\ assigned => mm.wrapped

FlowInv ==
    TypeOK /\ HookedCaptures /\ TimeoutIsLastResort /\ Stages /\ Globals

=============================================================================
