---------------------------- MODULE ChromeLaunch ----------------------------
(***************************************************************************)
(* What chrome/ decides before a Chrome is launched: whether another one   *)
(* holds the profile, and the options of the command line.                 *)
(*                                                                         *)
(* The target of a lock is the sequence of its parts between dashes.       *)
(***************************************************************************)
EXTENDS Integers, SequencesExt

CONSTANTS
    Numerals,       \* the parts that read as a number, and the numbers
    NoPID

-----------------------------------------------------------------------------
(* The profile's lock *)

\* Mutated form: the host ends at the first dash.
SplitAtFirst(target) == <<SubSeq(target, 1, 1), target[2]>>

\* The host, and what stands behind the last dash.
SplitTarget(target) == <<Front(target), Last(target)>>

\* parseSingletonLock: something on both sides of a dash, and a positive number.
ParseSingletonLock(target) ==
    LET host == SplitTarget(target)[1]
        pid  == SplitTarget(target)[2]
    IN  IF Len(target) < 2 \/ host = <<"">> \/ pid \notin DOMAIN Numerals
          THEN [ok |-> FALSE, host |-> <<>>, pid |-> NoPID]
        ELSE IF Numerals[pid] <= 0 THEN [ok |-> FALSE, host |-> <<>>, pid |-> NoPID]
        ELSE [ok |-> TRUE, host |-> host, pid |-> Numerals[pid]]

\* Mutated form: a lock holds until it is removed.
LockStands(pid, living, unix) == TRUE

\* processAlive: the signal reaches the process, or is not permitted.  Other
\* systems than Unix do not say.
ProcessAlive(pid, living, unix) == unix /\ pid \in living

\* profileOwner; target is empty when there is no lock.
ProfileOwner(target, local, living, unix) ==
    LET lock == ParseSingletonLock(target)
    IN  IF target = <<>> THEN NoPID
        ELSE IF lock.ok /\ lock.host = local /\ ProcessAlive(lock.pid, living, unix)
          THEN lock.pid ELSE NoPID

\* CheckProfileFree; dir is "" for a profile of its own.
ProfileInUse(dir, target, local, living, unix) ==
    dir # "" /\ ProfileOwner(target, local, living, unix) # NoPID

-----------------------------------------------------------------------------
(* The options: flags with their values, "false" for a flag that is left out *)

Set(flag, value, when) == IF when THEN {<<flag, value>>} ELSE {}

Truth(b) == IF b THEN "true" ELSE "false"

NoSandbox(config, env) == config.noSandbox \/ env = "1"

\* initFlags
InitFlags(config, env) ==
    {<<"headless", Truth(config.headless)>>, <<"enable-automation", "false">>,
     <<"disable-blink-features", "AutomationControlled">>,
     <<"password-store", "false">>, <<"use-mock-keychain", "false">>}
    \cup Set("no-sandbox", "true", NoSandbox(config, env))
    \cup Set("disable-dev-shm-usage", "true", config.disableDevShmUsage)
    \cup Set("disable-gpu", "true", config.disableGPU)
    \cup Set("window-size", config.windowSize, config.windowSize # "")
    \cup Set("user-data-dir", config.userDataDir, config.userDataDir # "")

\* External: what chromedp sets by itself, and how an option overrides earlier ones.
Defaults == {<<"headless", "true">>, <<"enable-automation", "true">>,
             <<"password-store", "basic">>, <<"use-mock-keychain", "true">>}
Override(flags, later) == {f \in flags : \A g \in later : g[1] # f[1]} \cup later

\* Mutated form: the defaults come last.
DefaultsLast(config, env) == Override(InitFlags(config, env), Defaults)

\* AllocatorOptions: no flag comes twice, so that their order, that of a map,
\* does not matter.
AllocatorOptions(config, env) == Override(Defaults, InitFlags(config, env))

CommandLine(config, env) == {f \in AllocatorOptions(config, env) : f[2] # "false"}

-----------------------------------------------------------------------------
(* Properties *)

\* External: the lock of a Chrome with a process ID on a host.
ChromeLock(host, numeral) == Append(host, numeral)

\* A flow is refused a profile while the Chrome that locked it lives on this
\* host, and only then: not for its own profile, a lock left behind, one of
\* another machine or of another form (CheckProfileFree: "a lock is reported
\* only when it names a live process on this host").
LockRespected(host, numeral, local, living) ==
    /\ ProfileInUse("dir", ChromeLock(host, numeral), local, living, TRUE)
          <=> host = local /\ Numerals[numeral] \in living
    /\ ~ProfileInUse("", ChromeLock(host, numeral), local, living, TRUE)
    /\ ProfileInUse("dir", host, local, living, TRUE) =>
          \E n \in DOMAIN Numerals : host = ChromeLock(local, n) /\ Numerals[n] \in living
    /\ ~ProfileInUse("dir", <<>>, local, living, TRUE)

\* The Chrome of a flow stores cookies like the user's own and does not say it
\* is automated, and runs without a window or a sandbox only when told to; each
\* flag has one value (the comments of initFlags and Config).
LaunchedAsTold(config, env) ==
    LET line == CommandLine(config, env)
    IN  /\ {f[1] : f \in line} \cap {"enable-automation", "password-store", "use-mock-keychain"} = {}
        /\ <<"headless", "true">> \in line <=> config.headless
        /\ <<"no-sandbox", "true">> \in line <=> config.noSandbox \/ env = "1"
        /\ \A f, g \in line : f[1] = g[1] => f = g
        /\ config.userDataDir # "" => <<"user-data-dir", config.userDataDir>> \in line

=============================================================================
