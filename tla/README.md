# Pier S3 Gateway: a TLA+ model

Pier is a gateway between users with OIDC tokens and one S3 backend that knows only the
gateway's service credentials. It has two doors onto the backend (an S3 proxy and the JSON API
of a web UI), decides rights from the groups in the token, and keeps almost no state: a
statistics cache, a rate limiter and the cookies of a login. The single-page application keeps
its own stores and talks to the JSON API.

The modules here model these parts from the code, TLC checks them on small instances, and TLAPS
proves every safety property that is checked for every value of the constants.

## Inventory

| Component | State | Operations | Interaction |
| --- | --- | --- | --- |
| bucket statistics `internal/webui/stats.go` | `entries`, `pending`, one mutex | lookup, walk, publish, wait | concurrent handlers share the maps and a channel per walk; the backend is listed page by page |
| rate limiter `internal/webui/ratelimit.go` | token buckets per client key, `lastGC` | `allow`, `gcLocked`, `clientIP` | wraps the auth routes; the key comes from the ingress's entry of X-Forwarded-For |
| access control `internal/acl/resolver.go` | none | `CheckAccess`, `EffectiveBuckets`, `IsAdminOperation` | called by both doors |
| S3 proxy `internal/proxy` | none | `ServeHTTP`, `handleListBuckets`, `Forward`, `RewriteHeaders` | verifies, decides, re-signs, forwards |
| web UI API and middleware `internal/webui/api.go`, `auth.go` | none | bucket list, object list, get, put, delete, logout | same decisions by other code, calls through the SDK |
| token verifier, claims `internal/auth` | the key set | `NewJWKSVerifier`, `VerifyToken`, `ExtractGroups` | called by both doors |
| OIDC login `oidc_handlers.go`, `auth/oidc.go` | two transient cookies, two token cookies, all in the browser | login, callback, exchange, logout | browser, tabs and provider interleave |
| process `cmd/server/main.go`, `internal/config` | servers, signal channel, drain deadline | load, resolve, fetch keys, serve, drain | three goroutines, a signal handler, one shared context |
| object browser `web/src/store/browser.ts` and its pages | listing, place, flags | fetch, load more, upload, delete | answers arrive in any order, effects re-fetch |
| bucket cards `web/src/store/buckets.ts` and its page | list, statistics, `statsRequested` | fetch list, statistics workers | several rounds of workers may overlap |
| SPA session `AuthProvider.tsx`, `api/client.ts`, `App.tsx`, `Login.tsx`, `Callback.tsx` | user, token, loading flag, route | mount, renew, expire, `/auth/me`, redirect on 401, login, logout | library events and other calls race an await; a 401 reloads the document |
| preview and metadata `FilePreview.tsx`, `ObjectMeta.tsx`, `csv.ts`, `ObjectBrowser.tsx` | open panels, object URLs | open, close, search, fetch, parse a table | answers arrive after the panel has moved on |
| preferences `theme/`, `i18n/`, `AppShell.tsx`, `siderWidth.ts` | selection, OS scheme, language, width, localStorage | choose, OS change, drag, reload | a second tab and older builds write the same storage |
| content policy, embedded bundle, cards, breadcrumb | presentation | | |

What is hard here: two requests that both miss a cache; a follower waiting for a leader whose
client has gone; time that is only read lazily; rights decided now and used later; answers
applied to a page the user has left; two tabs sharing one pair of cookies; a name or a file shown
by an answer that came late; a redirect that each part justifies and nobody ends; a provider that
is still starting; transfers without an end when the process has to stop. `PROJECT.json` lists each
with its line under `hazards`.

## Modules

* **StatsCache** - each request is a process. The sections under `stats.mu` are one action each
  (`LookupHit`, `LookupJoin`, `LookupLead`, `FollowerAnswer`, `Publish`), as is each page of the
  walk (`ListPage`, `ListFail`), each wake-up and each disconnect. A channel is named by the
  request that made it. `Publish` is the whole last locked section: it removes the pending entry,
  closes the channel and, after a walk that succeeded, stores the result. Sizes and quotas are left
  out of the response.
* **RateLimiter**, and **TokenBucket**, its abstract specification: one ideal bucket per client
  that refills with every tick. The code refills lazily from elapsed time, forgets idle buckets
  and takes its key from a header; the refinement says none of this can be noticed. Tokens are
  scaled so that one tick refills one unit and a request costs `Cost`.
* **Acl** - pure operators: names as sequences of words and hyphens (so that cutting at the last
  hyphen is done, not assumed), grants, wildcard union, administrative sub-resources. A query is a
  set of pairs, of which those that are not well formed are silently left out, as `u.Query()` does;
  a path is a sequence of segments, empty where two slashes meet or one is last.
* **Gateway** (extends Acl) - requests through both doors: received by the mux (`NotClean` is its
  redirect), decided, prepared, signed, sent, carried out by the backend (external), answered; each
  later step may fail, the token may expire in between. A request's `url` is what net/http parsed;
  `RequestURI` is what `url.Parse` makes of the raw string that `IsAdminOperation` is given, which
  takes what follows two leading slashes for a host; the backend reads the path as sent, with its own
  notion of a missing key (`NoKey`) and its own list of sub-resources that configure
  (`ConfigSubResources`), and carries out whatever is signed. At the UI's door every request of a
  routed pattern reaches the handler, the empty key among them (`NamesMissing` answers it 400); the
  object, listing and bucket list routes are modelled, and the metadata and statistics routes ask
  for the same right as the listing (the statistics themselves are StatsCache). Taken from outside
  the repository: a request target has no fragment, ReverseProxy cleans the query before `Rewrite`,
  the backend decodes the path before it looks for slashes. Segments `.` and `..` are not modelled.
  What the backend makes of headers a client sends along is not either.
* **OidcLogin** - cookies per browser, logins, callback visits and reloads, the provider's
  one-time codes (external), exchanges lost after the code was redeemed, logout. `disturbed` is a
  history: the logins whose own cookies a browser held when another login's, a sign-in or their
  expiry took them away (`Holder`).
* **BrowserStore** - the listing store with its page, upload zone with progress bars and delete
  button: every call in flight remembers what its closure captured, and its answer is applied as the
  code does.
* **BucketsStore** - rounds of `fetchBucketStats` with their workers, list reloads, pages.
* **AuthSession** - the session of the SPA. `handleUser` is split at its await: it sets the token
  (`HandleUser`), and a slot of `me` holds the call until `/auth/me` answers (`MeSucceeds`), fails
  (`MeFails`) or is refused (`MeRefused`, which also runs the interceptor). Documents open, routes
  redirect (`LeaveLogin`, `LeaveCallback`, `TurnAway`), the library renews, tokens expire. The OIDC
  library, the provider and the gateway are external; whether the gateway accepts a token is
  `Accepts`, governed by the constant `Refusing`. `overtaken` is a history: the calls that awaited when
  a sign-out came; `late` says that the user shown was set by one of those.
* **ObjectView** (extends Csv) - the preview and metadata panels over the rows of the browser: each
  effect run of `FilePreview` is a call with its own cancel flag, `ObjectMeta`'s calls have none; the
  skeleton that replaces the table while it loads unmounts both. When the browser's history moves to
  another bucket, the page is first committed with the old rows, for which the panels' effects run
  (`MoveBucket`), and only then fetches (`Fetch`). A commit and its effects are one step, and so are
  the two commits of a history move as far as answers go: React flushes them together. `renderCsv` is
  the table on screen, with a column for each field of the header. **Csv** is `parseCsv` as a recursion
  over characters, with a writer to compare it with (`Write`), which knows nothing of the parser, the
  rows the parser gives back of it (`Rows`: all but a last one the code drops) and their preview
  (`Shown`).
* **Preferences** - theme, language and sidebar of one tab, with a second one writing localStorage.
  A colour is modelled by where it comes from (scheme, preset or brand), so that a variable left over
  from another theme shows; widths are counted in half pixels, so that rounding is done and not assumed.
* **Lifecycle** - main: configuration as operators over an environment whose URLs are a scheme and
  an author, the retried key fetch on a clock, goroutines of the servers, signals, drain. Client
  id, audience and claim names play no part in the decisions and are left out.
* **MC...** give the constants values; **...Proofs** hold the theorems.

`map` in `PROJECT.json` names the lines of every definition. A definition whose name contains
`Mut` is a plausible bug in the definition that follows it; replacing the one by the other must
break the property it is listed with.

## Runs

| Run | Shows |
| --- | --- |
| `stats` | at most one walk per bucket, no waiter without a live leader or a closed channel, followers get their leader's result, an expired result only after a failed walk, counts exact up to the cap, entries only replaced by later walks, and every accepted request is answered |
| `rate_limiter` | admitted requests in any window are bounded, idle buckets are evicted in time, and TokenBucket is implemented |
| `gateway` | however its path and query are written, no request administers a bucket as the backend reads it; both doors and the list agree on rights; an object changes only by a request whose genuine token said so, had not expired on arrival and was not ridden on by another site |
| `oidc_login` | a code is only exchanged with its own verifier, transient cookies are used once, a callback is refused only if its own login's cookies were taken |
| `browser_store` | no duplicate row, no orphaned spinner, foreign rows only through a stray answer |
| `browser_stale` (violation) | a late answer puts the previous bucket's objects on screen |
| `buckets_store` | no lookup twice per list, no card forgotten |
| `lifecycle` | a trust anchor the operator wrote, a bounded key window that outlasts a slow provider, requests cut only by the grace period, and an end |
| `auth_session` | the bearer is the library's token or none, a user without a token was shown by a call that awaited at the sign-out, the spinner ends, redirects settle |
| `auth_loop` (violation) | with a gateway that refuses what the browser holds for valid, `/buckets` and `/login` alternate for ever |
| `object_view` | object URLs are revoked exactly once, panels show their own object, also when the bucket moves under them; tables are on screen as written, up to the caps and the columns of the header |
| `preferences` | what is painted follows selection and OS, a choice survives reloads and other tabs, the sidebar follows the pointer within its range |

The two violations are the `findings` of `PROJECT.json`, each with the sentence it contradicts.

Four properties of the passing runs say *when* something unwanted happens and not that it never does.
`CleanWithoutStrays` exempts rows that came with the answer of a fetch for a place the URL no longer
names (`browser_stale` shows one); `SignedOutUnlessLate` exempts a user set by a call that awaited at
the sign-out; `NoDoubleLookup` speaks of the rounds of the list of now, next to which those of an
older list may go on; `StaleOnlyAfterFailedWalk` lets a follower of a failed walk have an old result.

### Bounds

* StatsCache: three requests that may read, so that a leader, a follower and a second leader meet,
  and one without rights, on one bucket; a cap of two pages and up to three objects, one per page, so
  that empty, exactly full and overfull walks occur; a clock of one TTL, at which entries expire. One
  configuration checks safety and liveness, without symmetry.
* RateLimiter: two clients and the ingress, with and without a forged header entry, a bucket of two
  requests, a clock of two idle periods, so that eviction and full refill occur.
* Gateway: two requests from a list of inputs that contains all seven methods (GET, HEAD, OPTIONS,
  PUT, POST, DELETE, PATCH), every configuring sub-resource in both letter cases, one that is none and
  a malformed pair, a slash too many in each place of a path, seen or hidden from the mux, empty keys,
  and the cookie with each pair of Sec-Fetch-Site and Origin; three tokens (mixed grants, wildcard
  united with a name, wrong issuer), of which one expires within the clock. Two requests suffice since
  decisions share no state; the second exists for the races on the store.
* OidcLogin: two browsers, three logins (two in one browser), two visits, each of which may be a
  reload or a callback URL opened in the other browser.
* BrowserStore: four places with read, write and both rights, two calls in flight, up to two keys
  per place with one row per page, so that the bucket that may be changed starts with two pages.
* BucketsStore: four names, three rounds, two workers each, two list loads.
* Lifecycle: two servers, which stand for the three since nothing distinguishes them in main; one
  request each; a sound environment and those that differ from it in one variable or a chosen
  pair; a key window of five ticks with pauses and fetches of two, so that up to three attempts
  are made; provider start times just inside and just outside the bound.
* AuthSession: three tokens and three overlapping `handleUser` calls, seven events of the environment
  (logins, reloads, renewals, expiries, failures). The loop needs one token and two events.
* ObjectView: two buckets, one media file, one table, one file without preview, three calls in flight,
  listed sizes unknown, at and above the larger cap, which are above the smaller one. Tables
  of up to three rows and columns against caps of two, with every kind of field that has to be quoted,
  each line break, quoted or not, ended or not.
* Preferences: a mode, the system's mode, presets with and without a palette; stored values that are
  missing, damaged, out of range or of a preset that is gone; pointer positions below, inside and
  beyond the range of widths.

`MaxNow`, `MaxObjects`, `MaxKey`, `MaxFetches`, `MaxInFlight`, `MaxToken`, `MaxEvents` and the sizes
of `Calls`, `Slots` and `Runs` are bounds of the models, named
as such; all other constants are constants of the code.

### Fairness

StatsCache assumes weak fairness of each request's own steps: the Go scheduler runs a runnable
goroutine, and a call to the backend returns or fails. Disconnects and time are not fair.
Lifecycle assumes weak fairness of main, of each server's goroutines and of the clock. No request
is assumed to end, since the servers set no write timeout, and no signal to arrive. AuthSession
assumes weak fairness of what a browser runs by itself: promises of the library that are settled,
answers to requests, effects and redirects; nothing the user, the provider or the clock does is fair.
Its runs do not check for deadlock, since a page at rest simply waits for the user. All other
specifications state only safety.

## Proofs

The eight proof modules use the assumptions named in the component's modules and nothing else. Together
they state every invariant and every action property of the passing runs, and the refinement. One
theorem has a premise of its own, `SubResourcesListed`.

* **StatsCacheProofs**, for any requests, buckets, TTL and caps: `TypeOK`, `SingleFlight`,
  `NoLostWakeup`, `FollowerSeesLeader`, `StaleOnlyAfterFailedWalk`, `EntriesAdvance`. The inductive
  invariant `IInv` ties the pending map to the leaders: a pending channel belongs to a request that
  is walking that bucket (`PendingLeads`), each walking request is pending (`LeaderPending`), a
  closed channel's maker has answered (`ClosedAnswered`), and times are ordered (`TimeOrder`).
  `SingleFlight` alone is not inductive: without `LeaderPending` a second lookup could lead too.
  `CountsExactUpToCap` needs a second invariant, `CInv`, since a counter that is right when published
  was right page by page: a walk has read full pages only, so its count is a multiple of the page size
  below the cap (`WalksExact`), and what was stored (`EntriesExact`) and answered (`AnswersExact`) is
  the end of such a walk. `PageArithmetic` is why the last page cannot overshoot.
* **ServerProofs** extends RateLimiter and Lifecycle, the state of the gateway's process.
  * RateLimiter, for any clients, headers, capacity and cost: `TypeOK`, `WindowBound`,
    `EvictionKeepsUp`, `QuietClientAdmitted` and the refinement of TokenBucket. The mapping sends a
    stored bucket to its tokens plus the refill since, and an absent one to a full bucket. That
    eviction is invisible rests on `IdleForOutlastsRefill`: an idle period is at least as long as a
    full refill, which is true of the durations in the code. `LInv` adds that the sweep covers what
    the bound says and that the admitted cost of a window is paid for by tokens gone.
  * Lifecycle, for any servers, durations, environments and discovery documents: `ProcessTypeOK`,
    `TrustAnchorIsConfigured`, `JwksWindowBounded`, `SlowProviderSurvived`, `CutOnlyAfterGrace`. `PInv`
    adds the clock of an attempt to that of the window (a pause starts inside the window, an attempt
    within one pause of it), places each way to end at its point of main, and says that a `Shutdown`
    that is done has no request or an expired deadline. `EnvsWritten` assumes that the URLs of an
    environment are written by the operator, which is what an environment variable is.
* **GatewayProofs**, for any tokens, groups, URLs, inputs and backend content: the UI's bucket list is
  exactly `CheckAccess` (`ListingIsAccess`, `ListingTellsRights`), no bucket is administered, both doors
  agree. `BucketsNeverAdministeredAlways` has the premise `SubResourcesListed`, that the sub-resources by
  which the backend configures are in the gateway's table: what a backend knows is not the gateway's to
  decide; the run checks the property with those of the S3 API. `GInv` follows a request through its
  stages: what is waiting to be executed is harmless as the backend reads it (`Harmless`, `Unlisted`), and keeps its
  door. That the check of the raw URI carries over to the parsed path is `AdminCheckCarriesOver`, and
  that a path without a key is one the check takes for a whole bucket is `NoKeyIsWhole`. `DInv` ties the
  wire and the answer to the decision: what was sent was granted (`SentIsGranted`), what was refused
  without a call lacked the right, was administrative or came from another site (`RefusedForCause`), and
  the UI's own calls are signed, so that a 403 of a sent call cannot come from the backend
  (`UiCallsSigned`).
  `AccessIsEntitlement` ties the parser of group names to a definition that cuts nothing: `Says` holds
  of a name that *is* some slashes, the bucket, a hyphen and a policy. Cutting at the last hyphen finds
  this reading because no valid policy contains one, and it is unique (`ParsedIsSaid`, `SaidIsParsed`).
  With `OnBehalf`, which keeps the request's token and its arrival with what was decided from them,
  and `DInv`, `ObjectChangesAreEntitled` follows: the wire's object is changed only for a genuine token
  that says so, had not expired on arrival and was not ridden on from another site.
* **OidcLoginProofs**, for any browsers, tabs and logins: `VerifierMatchesCode`, `TransientsOneTime`,
  `RetryPossible`. `LInv` says that state and verifier of a jar are of one login of that browser
  (`Jars`), that a redirected login's cookies are in its browser unless something took them (`Held`),
  and what a request to the callback carries and how far its login is (`Flights`); without the last,
  nothing would tie the verifier an exchange sends to the code it redeems.
* **StoresProofs** extends both stores of the single-page application.
  * BrowserStore, for any places, contents and calls: all three properties of the run. `BInv`
    says that the snapshot of each call and the listing are ascending and end before their token
    (`CallsOK`, `ListingOK`), that nothing is listed before the store has a place (`PlaceOK`), and that
    the spinner and every bar belong to a call (`SpinOK`, `BarsOK`). `NoRowTwice` alone is not
    inductive: a load extends the rows of its snapshot, so those have to be ordered too.
  * BucketsStore, for any buckets, workers and overlapping rounds: `NoDoubleLookup`, `NoCardForgotten`.
    Neither is inductive without what joins them, `statsRequested`: what the rounds of the list of now
    have still to look up was requested (`Apart`), and what was requested is answered or still theirs
    (`Kept`); a round with names left has a worker at work (`CallWorks`); and on the page every card
    without a size was requested. The effect starts a round with what was *not* requested, so it
    is apart from all others. That the effect keeps all this (`EffectKeeps`) serves three actions.
* **ViewProofs** extends Preferences and ObjectView, what is on screen.
  * Preferences, for any choices, stored values, languages, positions and bounds of the width:
    `SiderHolds`, `ThemeFollows`, `ChoiceKept`, one inductive invariant each. That the first
    supported language is found in a stored list rests on the well-founded order of its positions.
  * ObjectView, for any objects, sizes and answers of any lateness: `UrlsAccounted`,
    `PanelsShowTheirObject`. `PanelOK`: at most one run of FilePreview is not cancelled, it is of the
    object the panel is open for, and until its answer the panel shows nothing and owns no URL. `MetaOK`
    has no such flag to rely on: requests of a mounted ObjectMeta are of its object because that
    object never changes without an unmounting in between (`MetaStays`, `MetaOpens`), which is where the
    skeleton and the modal over the page are used. The one exception is a move of the history: until the
    fetch that follows unmounts it the panel is loading for the new object with requests for the old one
    (`moving` in `MetaOK`, `MetaSettled` of each commit). `TablesShownAsWritten` is `TableParses` below, at
    the delimiter of each file name, through the columns of the header (`ScreenOfShown`).
* **CsvProofs**, for any characters that contain the quote and the two line breaks, any delimiter but
  these, any caps, and tables whose rows have at least one field: `TableParses`, `parseCsv` of what
  `Write` made of a table is what the preview should show of it. A text is read in parts (`FeedConcat`):
  the state after the first, given the first character of the second, is where the second begins. Then,
  each from the one before: a doubled character (`EscapedFeeds`), a field with or without quotes
  (`FieldFeeds`), a row up to its last field (`RowFeeds`), a row and its break (`LineFeeds`), a table
  whose rows are all ended (`TableFeeds`, whose hypothesis `ReadSoFar` plays the part of an invariant of
  the loop), and the flush of a last row (`FlushesRow`). The carriage return needs one fact about what
  follows it: no written row starts with a line feed (`RowStarts`), or the two would be one break.
* **AuthSessionProofs**, for any number of tokens and overlapping calls: `TypeOK`, `BearerNewest`,
  `SignedOutUnlessLate`, with the facts that the document's token is only ever set from storage and
  that, once it is gone, every call that still awaits is one the sign-out overtook (`Overtaken`).

Only model-checked: liveness (`EveryRequestAnswered`, `ShutdownCompletes`, `SpinnerEnds`,
`RedirectsEnd`), which is beyond this prover. Inductions over data are made with sets instead of
operators: `Induct` and `InductText` in CsvProofs say that a set that holds 0, or the empty text, and
with each element the next, holds all, from the well-founded order of the natural numbers. The same order
gives the greatest or least positions the other proofs need (the last hyphen of a name, its leading
slashes, a language of a list).

## Observations without a run

Gateway:

* `ResolveOIDC` consults discovery only when issuer or key URL is missing, and `Validate` requires
  the variables from which both are derived. `TrustAnchorIsConfigured` therefore holds for every
  discovery document: `OIDC_DISCOVERY_URL` has no effect in this build, and the cross-check
  described in docs/auth-providers.md does not run.
* A listener that fails to bind leaves the process up and `/_ready` positive; nothing in the
  repository promises otherwise, and the model contains it (`BindFails`).
* A signal between the start of the listeners and `signal.Notify` ends the process at once;
  `CutOnlyAfterGrace` is stated for the time after.
* The comment at stats.go:50-52 says followers of a walk "get 202-style "come back" semantics via the
  cached previous value when one exists, or wait out the walk" when it does not. The code makes every
  follower wait (stats.go:98-105), whatever is cached: no previous value is served while a walk runs.
  `FollowerSeesLeader` and `StaleOnlyAfterFailedWalk` state what the code does, against this comment.
* docs/api.md:29 says results are cached for five minutes; a follower re-reads the entry without its
  age (stats.go:107), so after a failed walk it is answered 200 with a result of any age while the
  leader is told 502. `StaleOnlyAfterFailedWalk` says that this is the only way.
* The comment at passthrough.go:88-90 says a request whose signing failed is aborted by clearing the
  host; the code logs and sends it, and the backend refuses it (`Forward`, `BackendRefuses`).

* README.md:286 says "the user JWT never reaches storage", and docs/security-audit.md:63-65 that the
  user token never does. `RewriteHeaders` removes Authorization and not Cookie, and the session cookie of
  the web UI is such a token (auth.go:75-98). It is bound to the path `/api/`, so a request to the S3 door
  carries it when both doors share a host and the bucket is named `api`. The model sends it on
  (`HeaderNames`, `Outbound`).
* `ObjectChangesAreEntitled` asks that a token had not expired when its request arrived; the backend may
  act later, since nothing checks again.

Single-page application:

* An answer of `/auth/me` that a sign-out overtook shows the user again, without a token
  (`late` in AuthSession): calls that follow are sent without a bearer.
* A table has as many columns as its header (FilePreview.tsx:164-170): further fields of longer rows are
  not on screen and no notice says so.
* A reload of `/callback` while `/auth/me` is pending tries the used code again, although
  Callback.tsx:14-15 says it does not; the failure only ends the spinner.
* A preview or a download uses `fetch` and not the client with its interceptor: a 401 there is an
  error message and no redirect. The logout endpoint never answers 401.
* `STATS_CONCURRENCY` (buckets.ts:37) caps the workers of one round; `statsRequested.clear()`
  (buckets.ts:53) lets a reloaded list start a second round next to the first.
* The search text survives while the skeleton remounts the search box empty
  (ObjectBrowser.tsx:63, 136, 253-258).
* Two uploads of the same name share a progress entry, so the first to end hides both bars.
* A last CSV row of one empty quoted field is dropped when the file ends right after it (csv.ts:84),
  although the comment at csv.ts:83 says a final row is flushed "unless the file ended exactly on a row
  break". `Rows` leaves it out of what `TablesShownAsWritten` asks for.
* A file named `tsv` without a dot is parsed with commas.
* The OS scheme changing between the provider's first render and its effect is missed until the next
  change (`missed` in Preferences). A drag has no handler for `pointercancel` and stays active.

## Not modelled

Bodies, ranges, content types, upload limits and response headers of the API; the background refresh
of keys (library); configurable claim paths; the arithmetic of quota sizes, which are only displayed;
the classification of media types, a pure string function with table tests; the renderers of the
preview; the drawer, menus, bucket cards and breadcrumb, which are layout; the embedded bundle;
deployment files. `components` in `PROJECT.json` gives the reason for each.

## Plan

Done, in this order: StatsCache, RateLimiter with TokenBucket, Acl and Gateway, BrowserStore,
OidcLogin, BucketsStore, Lifecycle, AuthSession, ObjectView with Csv, Preferences, with proofs for
all of them.

Left:

1. **Gateway**: upload limits and range requests as outcomes; the configurable claim paths of
   `ClaimMapper` in Acl.
2. AuthSession composed with OidcLogin's cookies.
