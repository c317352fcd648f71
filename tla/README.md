# Verification of google-find-my-tools-go

TLA+ models of `pkg/googlefindmy`, its stateful parts and its algorithms, the
TLC runs that check them on small instances, and TLAPS proofs for any size of
the constants.
Paths below are relative to `src/pkg/googlefindmy`. `PROJECT.json` has the
exact lines each definition stands for, one plausible mutation per property
that the runs must catch, and the hazards the properties are for.

## 1. The system

The library signs a user in with a real Chrome, exchanges and stores
credentials, registers a virtual Android device for pushes, asks Google's
backends for trackers, and receives their locations as encrypted push messages.
There is no main program: the program that uses the library calls the parts and
hands results from one to the next, mostly through `auth.Store`.

| Component (source) | State | Operations | Hard behaviour | Correct when | Modelled in |
| --- | --- | --- | --- | --- | --- |
| push connection (`fcm/push.go`) | `mu`, `conn`, `ctx`, `cancel`, `firstMessage`; the goroutine in `Run`, one watcher goroutine per `Listen` | `Run`, `Connect`, `Listen`, `Close`, `sendMsg`, `readMsg` | `Close` at any point, cancellation, blocking `Write` under the lock, watchers of older sessions | no socket leaks, version byte once per connection, cancellation ends `Run`, every session ends | `MCSClient` |
| push delivery (`fcm/push.go`) | `receivedPersistentIDs`; the server's queue | handle, remember, acknowledge, report ids at login | lost acks and connections, restarts, redelivery, messages that do not decrypt | no push lost, handler at most once per process life, queue drains | `PushDelivery`, `MCSDelivery` |
| credential store (`auth/store.go`) | `secrets.json`, its temporary file, `mu` | `Load`, `Update`, `Save`, `Clear` | crashes between system calls, failing calls, several Stores on a path | an atomic, durable register | `AtomicSecrets`, `SecretsStore` |
| registration (`fcm/register.go`) | results of four steps, retry counter | `Register`, `Checkin` | retries of requests that were served, late service, timeouts | credentials fit together, retries repeat themselves, bounded, ends | `Registration` |
| interactive flows (`browser/oauth.go`, `chrome/profile.go`) | poll loop; in the page `window.mm` and two flags | `RunOAuthFlow`, `RequestSharedKey` and the JavaScript they inject | user, page and Chrome act at any time; redirects wipe the page's globals | keys are captured, errors are true, ends with its context | `BrowserFlow` |
| Maps sign-in (`maps/maps.go`) | poll loop, cookies | `AuthenticateMaps` | cookies change while read; dead Chrome | best cookie per name stored, ends | `MapsAuth` |
| owner key (`spot/ownerkey.go`, with `auth/gpsoauth.go`, `spot/spot.go`) | the store's `owner_key` | `GetOwnerKey` | load - network - update, with other writers between | cached key fits the stored shared key, nothing lost | `OwnerKey` |
| Maps client (`maps/maps.go`) | preferred account index under `mu` | `GetState` | concurrent calls read and write the preference in two critical sections; sessions end | an index accepted throughout is found, the preference is the last success, every call returns | `MapsClient`, `MapsContacts` |
| list discovery (`maps/savedplaces/discovery.go`) | position in the walk; the page | `DiscoverListSpecs` | page rendered in pieces, names that repeat, lists that change, markup that moves | specs are lists, each once, under a name it bore; all are found; ends | `ListDiscovery` |
| saved places (`maps/savedplaces/savedplaces.go`, `cookies.go`) | none | `ParseListSpecs`, `FetchList`, `FetchLists`, `LoadMapsCookies` | partial answers, failing lists among others, several forms of cookies | every place once, every list accounted for | `SavedPlaces`, `StoredForms` |
| HTTP services (`nova/nova.go`, `spot/spot.go`, `auth/gpsoauth.go`, `internal/httpbody`) | none | `ListDevices`, `Locate`, `GetEidInfoForE2eeDevices`, `ExchangeOAuthToken`, `RequestScopeToken`, `Safe` | every way an answer can be bad; errors quote bodies that hold secrets | a result only of a good answer, errors without secrets | `HttpApi`, `Framing` |
| framing (`grpc/grpc.go`, varints and messages in `fcm/push.go`) | none | pure functions | widths, limits, the byte at which a stream ends | decoding inverts encoding | `Framing` |
| push decryption (`fcm/push.go`) | none | `newPushCrypto`, `decrypt`, `handleDataMessage` | three base64 forms, two padding bytes, ids absent | a message sealed for these credentials is read, nothing else | `PushCrypto` |
| cryptography (`crypto/`) | none | EAX, EIDs, reports, key backup | block boundaries, two clocks, slices at untrusted lengths | decryption inverts encryption, a key opens only for its purpose | `Eax`, `Fmdn`, `KeyBackup` |
| Chrome launch (`chrome/`) | the profile's lock | `CheckProfileFree`, `AllocatorOptions` | stale locks, locks of other hosts, host names with dashes | a held profile is not used, flags are as configured | `ChromeLaunch` |
| stored forms (`auth`, `fcm/register.go`, `savedplaces/cookies.go`) | none | `UnmarshalJSON` and fallbacks | numbers as text, nested or flat tokens, JSON in a string | each form read alike | `StoredForms` |
| generated code (`proto/`) | none | - | - | - | no (section 7) |

How they interact: a program stores what `RunOAuthFlow` and
`RequestSharedKey` return, and `Register`'s credentials, with `Store.Update`;
`AuthenticateMaps` and `GetOwnerKey` call `Update` themselves; the push client is
built from the registration's credentials and calls the program's handler from
the goroutine in `Run`; `Locate` sends the registration token along, and the
location arrives through the push client.

`Locate` gives its request a uuid and the push repeats it, but the library does
not match them: the program's handler does.

## 2. Plan

In the order of importance. All of it is done but for what the end of the section
names.

1. `MCSClient`: life cycle of the push connection. Proofs: types, no leaked
   socket, version byte.
2. `MCSDelivery`, refining `PushDelivery`: what a push client promises. Proofs:
   at most once per process, refinement.
3. `SecretsStore`, refining `AtomicSecrets`. Proofs: never torn, durable,
   refinement.
4. `Registration`. Proofs: credentials fit, retries repeat, and are as many as
   the loop allows.
5. `BrowserFlow`. Proofs: types, keys are captured, a timeout comes last.
6. `MapsAuth`. Proof: what is stored per name is google.com's own or the last.
7. `OwnerKey`, which uses the store at the grain of `AtomicSecrets`. Proofs: no
   lost update, cached key fits.
8. `MapsClient`, with any number of concurrent callers. Proofs: an index accepted
   throughout is found, the preference is the last success.
9. `ListDiscovery`, against a page that renders, moves and changes. Proof: what is
   returned is lists, each once; all lists are found.
10. The algorithms, as operators, each checked over all inputs of a bounded set by
    one module, `MCAlgorithms`: `Framing`, its inputs in `Frames` (proof: what is
    framed is read back, and only that); `Eax`, its inputs in `Ciphers` (proof: the
    MAC is the standard's, decryption undoes encryption), and `Fmdn`; `KeyBackup`
    and `PushCrypto` over ideal cryptography, their inputs in `Unwrapping` (proof:
    what is sealed opens for its purpose and nothing else does); `HttpApi`, its
    inputs in `HttpAnswers` (proof: a result only of a good answer, errors without
    secrets, every device told); `StoredForms` and `ChromeLaunch`, their inputs in
    `Leftovers` (proof: what other programs left on disk is read as they meant
    it); `JsonValues` with the two parsers on it, `SavedPlaces` and
    `MapsContacts`, their inputs in `Parsers` (proof: what is pasted and answered
    is read whole).

Still worth having: a refinement that shows `OwnerKey`'s store steps to be those
of `AtomicSecrets`.

## 3. Modules and code

### MCSClient

One step is one critical section of `mu`, one blocking call, or one test of a
context. `pc` and `phase` are where the goroutine in `Run` is; `rconn`,
`isFirst` and `res` are locals of `readMsg`. Attempts are numbered; a number
names the socket and the context of one `Connect`.

| Code | Actions |
| --- | --- |
| `Connect` | `ConnectBegin`, `DialOk`, `DialFail`, `Install`, `LoginDeadline`, `SendLock`.., `LoginResult`, `ConnectClose` |
| `sendMsg` | `SendLock` takes `mu`, `WriteOk`/`WriteFail` release it |
| `readMsg` | `ReadConn`, `ReadFirst` (two critical sections), `ReadOk`, `ReadFail` |
| `Listen` | `ListenBegin`, `LoopTop`, `ListenConn`, `ListenError`, `ListenMessage`, `StopWatch`, `ListenClose` |
| watcher of `Listen` | `WatchDone`, `WatchStop`, `WatchClose` |
| `Run` | `ConnectError`, `RunReturn`, `Retry` |
| `Close` from the program | `UserClose` |

External: `CancelRoot`, `PeerStalls`, `PeerResumes`. Abstractions: the length of
the backoff, the content of messages beyond what `Listen` tells apart, reads
from the TLS buffer after `Close`; setting a read deadline is merged with the
step before the read. A dial that fails leaves nothing anyone refers to, so its
number is used again. Only callers of `Run` are modelled, not of `Connect` and
`Listen` one by one.

### MCSDelivery and PushDelivery

`PushDelivery` is the promise: a message leaves the server's queue only after
the handler ran for it, if it ever could. `MCSDelivery` has the client's steps
`Connect`/`Connected` (login with the remembered ids), `Read`, `Handle`
(`handleDataMessage`), `Remember`, `Ack`, `Lost`, and the server's, external:
queue, redelivery, acks. The mapping takes `handled` for `delivered` and the
messages the server dropped for `forgotten`. Messages under way are a set: a
message is on one connection at most once. The handler is assumed given and to
return.

### SecretsStore and AtomicSecrets

Every system call of `saveLocked` is an action (`OpenTmp`, `Write`, `Sync`,
`Close`, `Rename`, `DirSync`, and `Fail`/`RemoveTmp` for each error); files have
inodes, so that two Stores of a path would share the temporary file. `Crash`
keeps synced data and any directory entry since the last directory sync; that
sync may fail, and then the caller gets nil all the same. The secrets are the
set of callers whose field they hold: what an `Update` must not lose. The
mapping reads `secrets.json` now (`value`) and what a crash may leave
(`fallback`). `Load` and `Exists` change nothing and are not actions.

### Registration

`Begin`, then per step `Attempt`, `Answered` or `AttemptFails`, `Timer` or
`CtxEnds`, `NextStep`, `Return`/`Fail`. Requests stay in `net` and are served
later or not at all (`Serve`), and a retry may repeat one that was served. `timed`
is whether the call's `http.Client` has a timeout. Random values and results are the
number of the attempt that drew them, so "the same installation" is equality of
forms. A server gives an installation the fid it was asked for or another one
(`installed`), and the client keeps the one in the answer (`AnsweredFIDs`).
Encodings, configuration errors (`DefaultConfig` has none) and the backoff's
length are left out.

### BrowserFlow

`flow` chooses `RunOAuthFlow` or `RequestSharedKey`; both have the same profile
check and poll loop. `Load` is a new document: globals gone, hook run. `Assign`,
`Define`, `HandOver` and `CloseView` are what the page does with `window.mm`;
the hook's setter and the wrapped accessors decide what they do. `Fallback` is
`wrapVaultKeysJS`. One poll is two reads (`ReadClosed`, `ReadKeys`), and the page
may run between them. The page calls nothing after `closeView`. Choosing the
newest key (`extractSharedKey`) succeeds or fails.

### MapsAuth

The poll loop of `AuthenticateMaps`, which waits before it reads and goes on
after an error; then settling, reading again, and `Chosen`, the map of one value
per name, as a fold in Chrome's order. Cookies have an essential name or
another, and one of three kinds of domain, which is all `preferDomain`,
`containsGoogleDomain` and `isEssentialCookie` tell apart. Host-only cookies of
`google.com` itself are left out: Chrome does not list them for Maps.

### OwnerKey

Per caller `Load`, `Cached` or `LoadFails`, `Token`, `EidInfo`, `Decrypt`,
`Cache`; each store operation is one step, which `SecretsStore` justifies for
one Store. A key is its account: authenticated decryption fails for another's.
External: the program's sign-in (which saves fresh secrets), shared key and FCM
credentials. `overlapped` records that the last sign-in or `Clear` came during a
call.

### MapsClient

Per caller of `GetState` an order of account indices, taken under the lock
(`Order`: `authUserOrder` of the preference), a request per index (`Try`, then
`Accepted`, `Rejected` or `RequestFails`), and `Remember`, the second critical
section. The requests run without the lock, so that other callers read and write
the preference in between. External: `SessionsChange`, which lets any index
become accepted or not at any time. `steady`, `failed`, `newest` and `raced` are
history: which indices were accepted ever since a call began, whether one of its
requests failed, which index was accepted last, and whether another call had one
to remember then. What is read from an accepted answer is in `MapsContacts`.

### ListDiscovery

`DiscoverListSpecs` as a sequence of chromedp actions: cookies, the panel
(`Navigate`, `ClickSaved`, `PlacesShown`), `ReadNames` or the fallback
`ReadLinks`, then for each name the panel again, `ClickList` and `TakeID`. Every
poll may time out, every action fails once the context is done or Chrome is
gone. The page is the environment: it renders one entry after the other
(`Render`), follows a click to the list's URL or to one without an ID
(`Follow`), shows the account as it was when the document was loaded, and its
markup may be the one the selectors know or not. `AccountChanges` is once in a
behaviour. A list's detail text is its number of places, of which the filters
look at the last digit.

### The algorithms

Each of these modules translates the functions of one part of the code into
operators; what they promise is stated at the end of the module, and
`MCAlgorithms` quantifies it over inputs: a behaviour picks an algorithm and an
input, and stops. The two variables of such a behaviour are in `Inputs`. The inputs
of six groups are in modules of their own, which the proofs use too: `Frames` for
`Framing`, `Ciphers` for `Eax`, `Unwrapping` for `KeyBackup` and `PushCrypto`,
`HttpAnswers` for `HttpApi`, `Leftovers` for `StoredForms` and `ChromeLaunch`,
`Parsers` for `SavedPlaces` and `MapsContacts`. There they are constants, which
`MCAlgorithms` gives their values.

| Module | Code | What is abstract |
| --- | --- | --- |
| `Framing` | varints, the frames of `sendMsg` and `readMsg`, gRPC `Wrap`, `Unwrap`, `ReadFrame` | widths of push frames and the limits of size are constants (`GroupBits`, `WordBits`, `MaxMCSMessageSize`, `MaxFrameSize`); a reader is a function of the bytes that arrive before the end of the stream; of frames that `Wrap` cannot build, from 4 GiB on (`Below4GiB`), nothing is said |
| `Eax` | `crypto/eax.go` | bytes per block and values per byte are constants; the block cipher and exclusive or are parameters |
| `Fmdn` | `eid.go`, `secp160r1.go`, `foreigntracker.go`, `fmdn.go` | the curve is a parameter of its family (same equation, P mod 4 = 3) |
| `KeyBackup` | `keybackup.go`, `location.go`, `extractSharedKey` | ideal ciphers: a key is what it was derived from and for, a box its content and real length |
| `PushCrypto` | `newPushCrypto`, `decrypt`, `handleDataMessage`, `GenerateKeys` | ideal ciphers; text as the form it decodes in |
| `HttpApi` | `nova`, `spot`, `gpsoauth`, `internal/httpbody`, the requests of `savedplaces` | a body is a sequence of pieces: keys, separators, secrets, other text; what an escape stands for is a constant (`Escapes`), and so is which are malformed (`BadEscapes`): fields are split, then unescaped, as `url.ParseQuery` does |
| `JsonValues`, `SavedPlaces`, `MapsContacts` | type assertions on decoded JSON, and the two parsers | what regular expressions find in a text is part of the text; arrays are nested up to `Nesting`, which is 10,000 in `encoding/json` and 6 in the run, and `firstIDString` is a function of that depth |
| `StoredForms` | `LoadMapsCookies`, numbers and tokens of stored credentials | JSON as a record with its kind |
| `ChromeLaunch` | `CheckProfileFree`, `AllocatorOptions` | a lock's target is its parts between dashes |

## 4. Runs

Ten runs show that properties hold; two show where the code does something else
than its comments or tests say (section 5). Each property of the first ten has a
mutated form of a definition in `PROJECT.json` that violates it, so none of them
holds by the shape of a model. The inductive invariants of section 6 are not among
the properties of a run, and types only in `browser` and `maps_auth`.

| Run | Properties | Bounds and why they are enough |
| --- | --- | --- |
| `push` | `NoSocketLeak`, `VersionByteOnce`; `CancelEndsRun`, `CloseEndsSession`, `NoWatcherLeak`, `CancelledConnCloses`, while peers that stop reading read again some day | 2 connections, 1 `Close` by the program: a watcher, a `Close` and a read of the first session can all meet the second |
| `push_delivery` | `OncePerProcess`, `NoPushLost` (refinement), `EveryPushHandled`, `QueueDrains` | two ordinary messages, one that does not decrypt, one without id; 2 losses and 1 restart: a loss before and after the restart |
| `store` | `NeverTorn`, `ReturnedSurvivesCrash`, `StoreIsRegister` (refinement) | 2 threads on one Store, any number of operations and crashes; 4 files: the current one, one a crash may bring back, the temporary one, a spare |
| `registration` | `CredentialsUsable`, `RetriesRepeat`, `RetryBudget`, `CallEnds`, `CancelEndsCall` | 3 attempts per step, so that a first, a middle and a last one exist; servers keep the fid or choose another; 1 call: `Register` keeps nothing from one call to the next, and the proofs cover any number |
| `browser` | `TypeOK`, `HookedCaptures`, `TimeoutIsLastResort`, `EndsWithContext` | 5 documents: three the flow loads, two redirects |
| `maps_auth` | `TypeOK`, `ExactDomainWins`, `EndsWithContext` | 4 cookies at a time: two per name in either order, and two that come between |
| `ownerkey` | `MapsCookiesKept`, `CachedKeyFits` | 2 callers, 2 accounts, any number of calls |
| `maps_client` | `SteadyIndexFound`, `LastSuccessPreferred`, `CallsEnd` | 2 callers, any number of calls, any changes of sessions: a call between the two critical sections of another, and two successes that race (514,104 states); the proofs cover any number of callers |
| `discovery` | `SpecsAreLists`, `AllListsFound`, `EndsWithContext` | six accounts of up to three lists: none, counts of 0, 1 and 10, an entry that is no list, equal names; one change of the account |
| `algorithms` | `FramesExact`, `EaxExact`, `ReportsDecrypt`, `KeysUnwrap`, `AnswersTold`, `MapsParsed`, `LeftoversRead` | 146,956 inputs in all, see below |
| `push_idle` | violated: `IdleTimeoutPings` | 1 connection |
| `registration_timeout` | violated: `TimeoutRetried` | 2 attempts |

`algorithms` takes all inputs up to a size at which every case of the code
occurs, with the code's constants made small (`Algorithms.cfg`):

- push frames in words of 8 bits from groups of 3, so that a varint has three
  bytes and its last one bits to spare; payloads up to beyond the limit of 9;
  gRPC frames with their real header of five bytes, read and built, with payloads
  on both sides of 255 and of a limit of 257;
- blocks of three bytes of two bits, data of up to seven bytes: none, a part of a
  block, one, more than one and two blocks, with and without the prefix block;
- the curve of 31 points over the integers modulo 23, all private keys, all
  x, which includes numbers that are on no point; timestamps on both sides of the
  masked bit;
- backups of every purpose and cipher, cut at each length that a slice of
  `keybackup.go` depends on; vaults of up to three entries; pushes with each form
  of their header fields;
- answers of up to three form fields, with escapes in keys and values, some of
  them malformed, each status and each way to fail; lists
  and contacts of up to three and two entries, with parts missing or of
  another kind.

Deadlock is checked except where the modelled activity ends by itself: one flow
or sign-in followed to its return, all calls made, all messages delivered, one input
looked at.

### Fairness

- Steps of a goroutine that is not blocked are weakly fair.
- Reads of the push connection end by their deadlines (60 s, 15 s at login). The
  TLS handshake has none: a dial is owed nothing until the context is cancelled.
  A `Write` ends only if the peer reads: it is strongly fair, so that a peer that
  reads now and then lets it end. `PeerReads` says whether a peer that stopped
  reading resumes; section 5 has what happens when it need not.
- `mu` is a Go mutex, which hands itself to a waiter that has starved: a
  watcher's `Close` is strongly fair.
- The server of `MCSDelivery` sends and processes acks in the end; losses and
  restarts are bounded.
- `Registration` relies on its own timers, on the client's timeout where there
  is one, and on the context; nothing on servers.
- In the browser flows time passes, and `chromedp.Run` returns once its context
  ended or Chrome is gone. A page may keep a read or a navigation for ever. Go's
  `select` chooses among ready cases at random, hence strong fairness for the
  `ctx.Done` case in `MapsAuth`, whose ticker may be ready as well.

- A call of `GetState` goes on: its goroutine runs and gets the lock, and the
  30 s of `httpclient.Default` end each request. Nothing is assumed of the
  sessions or of the other callers.
- The walk of `ListDiscovery` goes on: commands return once the context is done or
  Chrome is gone, and the time of every poll passes. Nothing is assumed of the
  page.

## 5. Findings

| Run | Code | Disagreement |
| --- | --- | --- |
| `push_idle` | `fcm/push.go:255` | wrapped timeouts fail the type assertion: an idle connection is dropped, never pinged |
| `registration_timeout` | `fcm/register.go:352` | the HTTP client's own timeout is not retried |

Four more properties are stated in the modules, are violated by the code, and have
a configuration of their own outside the list of runs:

| Property and configuration | Code | Disagreement |
| --- | --- | --- |
| `CancelEndsRun` where a peer may stop reading for good, `MCSClientStall.cfg` | `fcm/push.go:366` | `Write` without deadline under `mu`: `Close`, the watcher and cancellation wait for a peer that does not read |
| `WatcherClosesOwnConn`, `MCSClientStaleWatcher.cfg` | `fcm/push.go:234` | a late watcher closes the next session's connection |
| `TimesOut`, `MapsAuthTimeout.cfg` | `maps/maps.go:98` | with Chrome gone and no context deadline the poll never ends |
| `FallsBackOnLinks`, `ListDiscoveryFallback.cfg` (module `MCListDiscovery`) | `maps/savedplaces/discovery.go:180` | the comment at lines 64-66 says that the harvest of links keeps discovery working when the aria-label chain changes; the poll for that chain fails the walk before it |

`tlc -config MCSClientStall.cfg MCSClient` and so on shows each of them.

Behaviours the models have and no run singles out, because no comment or test
says otherwise, or only one that can be read in two ways; most are also hazards in
`PROJECT.json`, each at its line:

- two Stores on one path (two processes) share the temporary file and can tear
  `secrets.json` or lose an update: atomicity holds per `Store`, which is what
  the `OneStore` of run and proofs says (`auth/store.go:86`, `:105`);
- keys handed over in the same poll interval as `closeView` are dropped
  (`browser/oauth.go:308`), and those handed over before the page has assigned
  `window.mm` are not seen (`:196`);
- a deadline of the context mostly ends a flow with the context's error and not
  with `ErrTimeout` (`browser/oauth.go:113`);
- a regional cookie replaces one of a google.com subdomain, only google.com
  itself is protected (`maps/maps.go:189`);
- a sign-in during a call of `GetOwnerKey` gets the other account's owner key
  cached (`spot/ownerkey.go:103`), hence the exception in `CachedKeyFits`;
- of two calls of `GetState` that succeed with different indices at a time, the
  slower one's is preferred, also when it is the older (`maps/maps.go:263`);
- `ErrCookiesExpired` is also what a call returns when its requests failed on the
  way, for a network failure or a cancelled context (`maps/maps.go:265`);
- of two lists with one name the first is opened twice and the second lost
  (`savedplaces/discovery.go:81`); a count that ends in a zero, 10 or 20, is taken
  for an empty list (`:195`); names are read as soon as one entry is rendered
  (`:188`);
- bits of a varint's fifth byte above the word are shifted out, not refused
  (`fcm/push.go:486`);
- the comment at `crypto/foreigntracker.go:90-92` speaks of a high bit that
  encodes the parity of y; the code takes the even y always, and that is what
  reports are made for;
- keys backed up in the CBC form are not authenticated: with another key the
  result is an error or other bytes, as `KeyBackup` says;
- stored Maps cookies that are `null` load as none, without an error; a contact
  that shares no place is reported at 0, 0.

## 6. Proofs

All proofs hold for every value of the constants that satisfies the named
assumptions of the modules.

- `MCSClientProofs`: `Spec => []IInv`. `NoSocketLeak` alone is not inductive:
  that `Connect` overwrites nothing open needs the attempts to be numbered in
  order (`Numbering`), that a write is under way exactly while the lock is held
  (`Locking`) and which phase a control point belongs to (`Phases`);
  `VersionByteOnce` needs the history of first frames (`Framing`).
  From it `TypeCorrectness`, `SocketsNeverLeak`, `VersionByteSentOnce`.
- `MCSDeliveryProofs`: `DeliveryInv` says that whatever is on its way out of the
  queue has been handled (`HandledFirst`) and that what is recorded is not under
  way (`RecordedOnce`). From it `HandledOncePerProcess`, and
  `DeliveryImplementsPromise`, by a step simulation.
- `SecretsStoreProofs`, for one Store (`OneStore`, see section 5): `StoreInv`
  says who holds the lock, whose the temporary file is, and what it contains at
  each step. From it `SecretsNeverTorn`,
  `StoreImplementsRegister` and `ReturnedIsDurable`.
- `RegistrationProofs`, the budget: `RetryBudget` counts requests, and needs
  `Counted`: the step at work has made one request per attempt so far, and no
  request is of a step to come. Requests are numbered, so that their number is
  that of an interval. From it `RetriesWithinBudget`.
- `RegistrationProofs`, the credentials: `IInv` adds that requests are numbered and belong to
  steps made so far (`Numbered`), that the current step's requests say what the
  client holds (`SameForm`), and that finished steps are known to a server
  (`StepsDone`). From it `ReturnedCredentialsUsable`, `RetriesAreRepetitions`.
- `OwnerKeyProofs`: `CookiesAreKept` with the type invariant only, since the
  final `Update` starts from what it finds; `CachedKeyAlwaysFits` from `AloneInv`:
  unless a replacement of the secrets overlapped a call, what a call works on is
  of the account in the store, and so are the stored keys. `TypeCorrectness`
  includes that a call under way has a shared key and FCM credentials.
- `SignInProofs`, the flows: `FlowInv` adds that an object the page has assigned is
  wrapped, and captured keys are those of the page shown (`Globals`), and where
  a flow can be while its window shows that page (`Stages`): the sign-in loop,
  which can time out too, never has keys. From it `FlowTypes`, `HookCaptures` and
  `TimeoutComesLast`.
- `SignInProofs`, the Maps sign-in (an instance `M` of `MapsAuth`): `AuthInv` says
  that what is stored is `Chosen`, the loop's result, of the cookies read last.
  `ChosenStepByStep` unfolds that loop by one cookie, and `ChosenKeepsBest`
  carries over it that the value kept for a name is that of the last cookie of
  google.com so far, or of the last so far. The theorems, `AuthInvariance` and
  `ExactDomainAlwaysWins`, state their only assumption: at least one cookie
  fits (`MaxCookies`).
- `SignInProofs`, the keys (`Unwrapping`): `EveryPurposeOpens` says of any ciphertext
  at all that a `Decrypt` function which returns a key has met the seal of its
  purpose (`SealedFor`), or the form that nothing authenticates; it never panics.
  `OneKeyOnePurpose` says that a backup bears the seal of its own key and purpose
  only, `BackupOpensForItsPurpose` that it opens there, and `FourDiffer` that the
  keys for the operations on a tracker are different. `NewestIsTaken` follows the
  search of `extractSharedKey`, `EveryPushIsRead` the ways through `decrypt`. From
  them `KeysAlwaysUnwrap`, for all names of keys, lengths, epochs and headers that
  satisfy `InputAssumption` (numbers are numbers, markers are no keys).
- `SignInProofs`, what is left on disk (`Leftovers`): `CookiesAreRead`,
  `NumbersAreRead` and `TokensAreFound` go through the forms that stored
  credentials come in. `LocksAreRespected` rests on `SplitLock`: whatever dashes a
  host's name has in it, the last dash of a lock's target is the one before the
  process id. `LaunchesAreAsTold` unfolds the list of flags one option at a time
  (`FlagsOneByOne`), so that of each flag the last value stands
  (`OneValuePerFlag`). From them `LeftoversAlwaysRead`, for all that satisfies
  `LeftoversAssumption` (numbers are integers, a host has a name, no profile is
  in a directory called `false`).
- `OwnerKeyProofs`, the answers (`HttpAnswers`): `TruncateKeeps` says that where a
  body is cut the pieces before are what they were, so that a secret which is
  still there has its key before it, and `SafeHidesSecrets` that it is redacted
  then. `FieldSays` says of any body that the value taken for a key is that of the
  first field with it, to the next separator or the end, once its pieces are
  unescaped, and that only an empty one is missed. `TokensNeedAnswers` and
  `BodiesNeedAnswers` follow the early returns of the five requests in both
  directions: what succeeds has met every condition, and what meets them succeeds.
  `FlatInSections` unfolds the concatenation of `CanonicIDs` (`NextSection`): each
  device's identifiers are a section of it, where the one before ends. From them
  `AnswersAlwaysTold`, for all that satisfies `AnswersAssumption` (fields of an
  answer are of their types; no secret is a separator, a malformed escape or one
  of the marks `***` and `...`, and no separator is an escape).
- `OwnerKeyProofs`, the bytes on the wire (`Frames`): a varint is unfolded byte by
  byte. `LeftCounts` bounds what is left of a number after some turns of
  `encodeVarint32` (`LeftFits`: it fits a byte in time), `SumOfBytes` says that
  what the bytes have added up to and what is left make the number at each turn,
  and `SumBelow` that some bytes never make more than they can hold. From them
  `DecodesBack`, an encoding is read back and no shorter piece of it is, and
  `VarintsExact`, whatever is accepted has a shortest form. `MessageReadsBack`
  follows a message cut in its header, its size and its payload. For gRPC frames,
  `FramesRead` says that the header of what is taken is the one `Wrap` writes,
  `ValueOf` that a length below 4 GiB is the one its four bytes give, and
  `HeaderDecides` that a frame is refused or taken by these: so `PayloadUnwraps`,
  what `Wrap` builds is read back up to the limit and refused above it. From them
  `FramesAlwaysExact`, for all that satisfies `WidthAssumption` and
  `FramesAssumption`. The provers have no facts about `^`: the first gives, of the
  powers of two in use, that they are numbers, a group is more than one and a word
  no more than the longest varint holds.
- `OwnerKeyProofs`, the ciphers (`Ciphers`): the code shifts blocks byte by byte,
  the standard doubles a number. `NumberSteps` says what number a block is, byte
  after byte, `BlockOfNumber` that a block is that of its number, `ShiftNumber`
  what a shift makes of it: `generateSubkey` doubles. `Cutting` says that the code
  and the standard cut data into as many blocks, with the same last one, and
  `ChainsAgree` that then both chains of the cipher end alike; from them
  `CMACIsExact`. `CTRInverts` needs of exclusive or only that it undoes itself, so
  that `EaxAlwaysInverts`: what is sealed with a key, nonce and header opens with
  them, whatever the cipher. From them `CiphersAlwaysExact`, for all that satisfies
  `CipherAssumption` and `CiphersAssumption` (sizes are numbers, exclusive or is
  one, the cipher maps blocks to blocks).
- `MapsClientProofs`: `OrderIsComplete` says that `AuthUserOrder` yields each
  index whatever is preferred, `HeadOrTail` that taking the first loses no other.
  `SteadyIndexFound` alone is not inductive: `StillToCome` says that, unless a
  request failed, an index accepted all along is still in a running call's order
  or being asked. `LastSuccessPreferred` needs `NewestKnown`: without a race the
  newest index is preferred already, or that of the only call with one to
  remember. From them `SteadyIndexIsFound` and `PreferredIsNewest`.
- `MapsClientProofs`, the parsers (`Parsers`): a loop that appends what is wanted
  is `Kept`, and `KeptIs` says of it that some enumeration of the wanted indices,
  in order, leads to each element. `IDIsFirst` goes down the depth of a value:
  what `firstIDString` returns is the first ID among the strings in it, in the
  order of the paths to them. `ListingGrows` is the invariant of `parseEntityList`
  (what is listed so far has different keys and covers every place so far), and
  `KeysNear` says that places with one key are less than a millionth of a degree
  apart. `Firsts` is that of the specs (each ID once, where it came first),
  `Named` that of their names (the first one given); `FirstsKept` and
  `OneEnumeration` make the specs of links those of the same links pasted. From
  them `MapsAlwaysParsed`, for all that satisfies `ParsersAssumption` (answers are
  sequences of values of the depth allowed, a string is empty when its length is
  0, a link has a target).
- `ListDiscoveryProofs`: `PageFollows` says that neither a location nor a click
  outlives its document, and that while the loop waits for a location it is that
  of the list it clicked, under the name it is at; `EndsDone`, that nothing
  happens after the return. From them `SpecsNameLists`, for any accounts that
  satisfy `AccountsAssumption` (they are sequences). `AllListsFound` needs
  `FoundInv`: while nothing has changed the panel shows the account
  (`PanelIsAccount`), the walk is at a name it has yet to open (`Loop`), and every
  list with places has its spec or its name among those still to open
  (`StillToOpen`). That no entry is skipped when the names are read is
  `NthReachesAll`. From it `EveryListFound`.

An induction over data, where a proof needs one, is `SetInduction`: a set of
natural numbers that contains 0 and the successor of each of its numbers is all of
`Nat`, from the library's theorem that `<` is well-founded there. A recursive
function is unfolded with it one step at a time.

Only model-checked:

- everything under fairness: the provers have no liveness here;
- `ReportsDecrypt`: that a square root modulo a prime is a power, and that points
  form a group, is arithmetic of products modulo a number, of which the provers
  have no facts;
- `TypeOK` and `ExactDomainWins` of `MapsAuth`, under these names; what they say is
  proved, of the instance `M` of the module, as `AuthInvariance` and `ExactDomainAlwaysWins`.

## 7. Not modelled

- `proto/`: about 6,950 of the 11,863 lines of Go are descriptors and accessors
  that protoc generates, without control flow of this library. They bound
  the share of the code the map can cover; of the rest, three quarters are
  mapped.
- What requests carry: URLs, headers, fixed form fields and the protobuf messages
  of Nova, Spot, check-in and registration. Whether Google accepts them no model
  of this code can tell.
- AES, SHA-256, HKDF, AES-GCM, ECDH, point addition, JSON, protobuf, base64 and
  HTTP are libraries. The models take them as parameters, as ideal, or by what
  they return. `HMACSHA256` is one call of such a library.
- The wording of errors and logs, but for what they show of bodies (`HttpApi`).
- `Store.Load` outside `Update`, and `Exists`: they change nothing.
- Memory that grows without bound (`receivedPersistentIDs`, contexts of failed
  dials) is listed as a hazard and has no property, and so is the TLS handshake
  without a timeout of its own.
