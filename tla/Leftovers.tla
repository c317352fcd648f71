------------------------------ MODULE Leftovers ------------------------------
(***************************************************************************)
(* What a program finds on disk: the forms of StoredForms, in files that   *)
(* other tools and earlier versions wrote, and the profile of ChromeLaunch *)
(* with the lock of a Chrome, and how one is configured.                   *)
(***************************************************************************)
EXTENDS Integers, Sequences, Inputs

CONSTANTS
    MaxUint, NaN, Numerals, NoPID,
    CookieMaps,         \* what may be stored as Maps cookies
    Numbers, TokenTexts,
    Hosts,              \* names of hosts, each as its parts between dashes
    WindowSizes, DataDirs, Environments

F == INSTANCE StoredForms
L == INSTANCE ChromeLaunch

\* Numbers of processes are positive numbers that differ from each other.
PIDs == {n \in DOMAIN Numerals : Numerals[n] > 0}

ASSUME LeftoversAssumption ==
    /\ MaxUint \in Nat /\ Numbers \subseteq Int
    /\ \A n \in DOMAIN Numerals : Numerals[n] \in Int /\ Numerals[n] # NoPID
    /\ \A h \in Hosts : IsSeq(h) /\ h # <<>> /\ h # <<"">>
    /\ "false" \notin DataDirs

\* JSON that is not in a string: cookies, null, or something else.
PlainForms ==
    {[kind |-> "other"], [kind |-> "null"]} \cup {[kind |-> "map", cookies |-> c] : c \in CookieMaps}

PickCookies ==
    /\ Picks("cookies")
    /\ \E inner \in PlainForms :
          \E stored \in {inner, [kind |-> "absent"], [kind |-> "string", inner |-> inner]} :
             input' = [cookies |-> F!AsMap(inner), stored |-> stored]

PickNumeral == Picks("numeral") /\ input' \in Numbers \cup {NaN}

PickToken == Picks("token") /\ input' \in [nested : TokenTexts, flat : TokenTexts]

PickLock ==
    /\ Picks("lock")
    /\ input' \in [host : Hosts, numeral : PIDs, local : Hosts,
                   living : SUBSET {Numerals[n] : n \in PIDs}]

PickConfig ==
    /\ Picks("config")
    /\ input' \in [config : [headless : BOOLEAN, noSandbox : BOOLEAN, disableDevShmUsage : BOOLEAN,
                             disableGPU : BOOLEAN, windowSize : WindowSizes, userDataDir : DataDirs],
                   env : Environments]

PickLeftover == PickCookies \/ PickNumeral \/ PickToken \/ PickLock \/ PickConfig

LeftoversSpec == NothingPicked /\ [][PickLeftover]_<<subject, input>>

-----------------------------------------------------------------------------
(* Properties *)

\* What others left on disk is read in each of its forms, and a Chrome is
\* launched as it was configured, on a profile that is free (LoadMapsCookies,
\* flexUint64, RegistrationToken, CheckProfileFree, AllocatorOptions).
LeftoversRead ==
    /\ subject = "cookies" => F!CookiesLoaded(input.stored, input.cookies)
    /\ subject = "numeral" => F!NumberRead(input)
    /\ subject = "token" => F!TokenFound(input.nested, input.flat)
    /\ subject = "lock" => L!LockRespected(input.host, input.numeral, input.local, input.living)
    /\ subject = "config" => L!LaunchedAsTold(input.config, input.env)

=============================================================================
