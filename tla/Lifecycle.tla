----------------------------- MODULE Lifecycle -----------------------------
(***************************************************************************)
(* The life of one gateway process (cmd/server/main.go): the environment   *)
(* is loaded, validated and resolved into the OIDC trust anchor            *)
(* (internal/config), the signing keys are fetched with retries            *)
(* (NewJWKSVerifier), the quotas are parsed, three listeners are started,  *)
(* and a signal drains them under one shared deadline.                     *)
(*                                                                         *)
(* A URL is a record of its scheme and of who wrote it: "" is an unset     *)
(* variable and " " a blank one, which os.Getenv tells apart and           *)
(* strings.TrimSpace does not.  Time is counted from the start of the      *)
(* phase that reads the clock (the key fetch, then the drain) and          *)
(* saturates at Horizon, beyond every deadline.                            *)
(***************************************************************************)
EXTENDS Naturals, Sequences, FiniteSets

CONSTANTS
  Servers,        \* the http.Servers main starts
  Envs,           \* process environments, see Env
  Docs,           \* what a discovery endpoint may answer, see Doc
  BadSize,        \* a size parseByteSize rejects
  IdpTimes,       \* when the identity provider starts to answer, or Never
  MaxWait,        \* jwksInitMaxWait
  RetryDelay,     \* jwksInitRetryDelay
  FetchTimeout,   \* RefreshTimeout of one key fetch
  Grace,          \* the shutdown context's timeout
  MaxInFlight     \* bound: requests open at one server

Horizon == MaxWait + RetryDelay + FetchTimeout + Grace + 1
Never   == Horizon + 1

ASSUME LifecycleAssumption ==
  /\ IsFiniteSet(Servers) /\ Servers # {}
  /\ MaxWait \in Nat /\ RetryDelay \in Nat \ {0} /\ FetchTimeout \in Nat \ {0}
  /\ Grace \in Nat \ {0} /\ MaxInFlight \in Nat \ {0}
  /\ IdpTimes \subseteq 0..Never

VARIABLES
  env,       \* the environment variables the process was started with
  pc,        \* where main is
  exit,      \* "no", or how the process ended
  settings,  \* OIDCSettings and the quotas, once known
  idpUpAt,   \* time, from the first key fetch, at which the provider answers
  elapsed,   \* time since the current phase read the clock
  age,       \* time since the current key fetch, or pause, began
  sig,       \* signals in the channel
  srv,       \* the goroutine of each server
  shut,      \* the call of each server's Shutdown
  inflight   \* requests each server is answering

processVars == <<env, pc, exit, settings, idpUpAt, elapsed, age, sig, srv, shut, inflight>>
main == <<env, idpUpAt, settings>>
net  == <<srv, shut, inflight>>

Alive == exit = "no"

----------------------------------------------------------------------------
(* Configuration: pure functions of the environment. *)

Unset == [scheme |-> "", host |-> ""]
Set(u) == u.scheme \notin {"", " "}

Schemes == {"", " ", "https", "http", "other"}
Hosts   == {"", "operator", "keycloak", "discovered"}
Url     == [scheme : Schemes, host : Hosts]

\* One BUCKET_QUOTAS entry: a name, possibly empty, and a size or BadSize.
QuotaPair == [name : STRING, size : Nat \cup {BadSize}]

\* Load: the variables the start-up decisions read.  secrets stands for the
\* required variables that are opaque strings.
Env == [secrets : BOOLEAN, kcUrl : Url, kcJwks : Url, oidcIssuer : Url, oidcJwks : Url,
        discovery : Url, allowInsecure : BOOLEAN, quotas : Seq(QuotaPair)]

\* A discovery document, or ok = FALSE for a fetch that fails.
Doc == [ok : BOOLEAN, issuer : Url, jwks : Url]

\* The operator wrote every URL of the environment.
ASSUME EnvsWritten ==
  \A e \in Envs : \A u \in {e.kcUrl, e.kcJwks, e.oidcIssuer, e.oidcJwks} :
    u \in Url /\ (Set(u) => u.host \in {"operator", "keycloak"})

NoSettings == [issuer |-> Unset, jwks |-> Unset, quotas |-> <<>>]

ValidateMutNoJwks(c) == c.secrets /\ Set(c.kcUrl)

\* Validate: every required variable is there and is not blank.
Validate(c) == c.secrets /\ Set(c.kcUrl) /\ Set(c.kcJwks)

firstNonEmpty(u, v) == IF Set(u) THEN u ELSE IF Set(v) THEN v ELSE Unset

\* The realm issuer has the scheme and the host of KEYCLOAK_URL.
deriveKeycloakIssuer(u) == IF Set(u) THEN u ELSE Unset

requireSecureURL(u, allowInsecure) ==
  \/ ~Set(u)
  \/ u.scheme = "https"
  \/ u.scheme = "http" /\ allowInsecure

\* discoverOIDC: an unusable document is an error.
discoverOIDC(doc) == doc.ok /\ ~(doc.issuer = Unset /\ doc.jwks = Unset)

\* ResolveOIDC, when the discovery endpoint would answer doc: OIDC_* over
\* KEYCLOAK_*, discovery for what is still missing, TLS on the result.
ResolveOIDC(c, doc) ==
  LET issuer   == firstNonEmpty(c.oidcIssuer, deriveKeycloakIssuer(c.kcUrl))
      jwks     == firstNonEmpty(c.oidcJwks, c.kcJwks)
      discover == c.discovery.scheme # "" /\ (issuer = Unset \/ jwks = Unset)
      agreed   == /\ requireSecureURL(c.discovery, c.allowInsecure)
                  /\ Set(c.discovery) /\ discoverOIDC(doc)
                  /\ issuer = Unset \/ doc.issuer = Unset \/ issuer = doc.issuer
      final    == [issuer |-> IF discover /\ issuer = Unset THEN doc.issuer ELSE issuer,
                   jwks   |-> IF discover /\ jwks = Unset THEN doc.jwks ELSE jwks]
  IN [final |-> final,
      ok    |-> /\ discover => agreed
                /\ requireSecureURL(final.issuer, c.allowInsecure)
                /\ requireSecureURL(final.jwks, c.allowInsecure)]

Malformed(pair) == pair.name = "" \/ pair.size = BadSize
Sizes(pairs) ==
  [n \in {pairs[i].name : i \in DOMAIN pairs} |->
     LET last == CHOOSE i \in DOMAIN pairs :
                   pairs[i].name = n /\ \A j \in DOMAIN pairs : pairs[j].name = n => j <= i
     IN pairs[last].size]

\* ParseBucketQuotas: the first malformed pair is an error, a repeated name
\* takes its last size.  Empty pairs between commas are skipped by the code
\* and do not appear here.
ParseBucketQuotas(pairs) ==
  [ok |-> \A i \in DOMAIN pairs : ~Malformed(pairs[i]), quotas |-> Sizes(pairs)]

----------------------------------------------------------------------------
ProcessInit ==
  /\ env \in Envs
  /\ idpUpAt \in IdpTimes
  /\ pc = "load" /\ exit = "no" /\ settings = NoSettings
  /\ elapsed = 0 /\ age = 0 /\ sig = 0
  /\ srv = [s \in Servers |-> "off"]
  /\ shut = [s \in Servers |-> "no"]
  /\ inflight = [s \in Servers |-> 0]

\* LoadAndValidate, then ResolveOIDC; an error is os.Exit(1).
Configure ==
  /\ Alive /\ pc = "load"
  /\ \E doc \in Docs :
       LET r == ResolveOIDC(env, doc)
       IN IF Validate(env) /\ r.ok
          THEN /\ settings' = [settings EXCEPT !.issuer = r.final.issuer, !.jwks = r.final.jwks]
               /\ pc' = "fetch"
               /\ UNCHANGED exit
          ELSE exit' = "config" /\ UNCHANGED <<settings, pc>>
  /\ UNCHANGED <<env, idpUpAt, elapsed, age, sig, net>>

\* keyfunc.Get answers; a provider that was already up when the fetch began
\* does not fail it.
FetchSucceeds ==
  /\ Alive /\ pc = "fetch" /\ idpUpAt <= elapsed
  /\ pc' = "quotas" /\ elapsed' = 0 /\ age' = 0
  /\ UNCHANGED <<main, exit, sig, net>>

FetchFailsMutPerAttempt ==
  /\ Alive /\ pc = "fetch" /\ idpUpAt > elapsed - age
  /\ IF age > MaxWait THEN exit' = "jwks" /\ UNCHANGED pc ELSE pc' = "pause" /\ UNCHANGED exit
  /\ age' = 0
  /\ UNCHANGED <<main, elapsed, sig, net>>

FetchFailsMutEarly ==
  /\ Alive /\ pc = "fetch" /\ idpUpAt > elapsed - age
  /\ IF elapsed + RetryDelay > MaxWait
     THEN exit' = "jwks" /\ UNCHANGED pc ELSE pc' = "pause" /\ UNCHANGED exit
  /\ age' = 0
  /\ UNCHANGED <<main, elapsed, sig, net>>

\* keyfunc.Get fails: past the deadline the process gives up, else it pauses.
FetchFails ==
  /\ Alive /\ pc = "fetch" /\ idpUpAt > elapsed - age
  /\ IF elapsed > MaxWait
     THEN exit' = "jwks" /\ UNCHANGED pc ELSE pc' = "pause" /\ UNCHANGED exit
  /\ age' = 0
  /\ UNCHANGED <<main, elapsed, sig, net>>

\* time.Sleep(jwksInitRetryDelay) is over.
Retry ==
  /\ Alive /\ pc = "pause" /\ age = RetryDelay
  /\ pc' = "fetch" /\ age' = 0
  /\ UNCHANGED <<main, exit, elapsed, sig, net>>

\* NewS3Client cannot fail on a validated environment; the quotas can.  Then
\* the servers are built and their goroutines started.
StartServers ==
  /\ Alive /\ pc = "quotas"
  /\ LET q == ParseBucketQuotas(env.quotas)
     IN IF q.ok
        THEN /\ settings' = [settings EXCEPT !.quotas = q.quotas]
             /\ pc' = "started"
             /\ srv' = [s \in Servers |-> "starting"]
             /\ UNCHANGED exit
        ELSE exit' = "quotas" /\ UNCHANGED <<settings, pc, srv>>
  /\ UNCHANGED <<env, idpUpAt, elapsed, age, sig, shut, inflight>>

\* signal.Notify: from here on a signal no longer kills the process.
Notify ==
  /\ Alive /\ pc = "started"
  /\ pc' = "waiting"
  /\ UNCHANGED <<main, exit, elapsed, age, sig, net>>

\* ListenAndServe of one server begins: it finds Shutdown already called, or
\* binds its address, or fails to, which is only logged.
Bind(s) ==
  /\ Alive /\ srv[s] = "starting"
  /\ srv' = [srv EXCEPT ![s] = IF shut[s] = "no" THEN "up" ELSE "returned"]
  /\ UNCHANGED <<main, pc, exit, elapsed, age, sig, shut, inflight>>

BindFails(s) ==
  /\ Alive /\ srv[s] = "starting" /\ shut[s] = "no"
  /\ srv' = [srv EXCEPT ![s] = "returned"]
  /\ UNCHANGED <<main, pc, exit, elapsed, age, sig, shut, inflight>>

\* The listener was closed by Shutdown: ListenAndServe returns.
ServeReturns(s) ==
  /\ Alive /\ srv[s] = "up" /\ shut[s] # "no"
  /\ srv' = [srv EXCEPT ![s] = "returned"]
  /\ UNCHANGED <<main, pc, exit, elapsed, age, sig, shut, inflight>>

\* A client's request is accepted, and later answered; a transfer may take
\* for ever, since WriteTimeout is 0.
RequestBegins(s) ==
  /\ Alive /\ srv[s] = "up" /\ shut[s] = "no" /\ inflight[s] < MaxInFlight
  /\ inflight' = [inflight EXCEPT ![s] = @ + 1]
  /\ UNCHANGED <<main, pc, exit, elapsed, age, sig, srv, shut>>

RequestEnds(s) ==
  /\ Alive /\ inflight[s] > 0
  /\ inflight' = [inflight EXCEPT ![s] = @ - 1]
  /\ UNCHANGED <<main, pc, exit, elapsed, age, sig, srv, shut>>

SignalMutStop ==
  /\ Alive
  /\ IF pc = "waiting" THEN sig' = 1 /\ UNCHANGED exit ELSE exit' = "killed" /\ UNCHANGED sig
  /\ UNCHANGED <<main, pc, elapsed, age, net>>

\* SIGINT or SIGTERM: fatal until Notify, then sent to a channel of capacity
\* one without blocking, so that a further signal is dropped.
Signal ==
  /\ Alive
  /\ IF pc \in {"waiting", "draining"}
     THEN sig' = 1 /\ UNCHANGED exit ELSE exit' = "killed" /\ UNCHANGED sig
  /\ UNCHANGED <<main, pc, elapsed, age, net>>

\* waitForShutdownSignal returns and gracefulShutdown starts its clock.
SignalReceived ==
  /\ Alive /\ pc = "waiting" /\ sig > 0
  /\ sig' = sig - 1 /\ pc' = "draining" /\ elapsed' = 0
  /\ UNCHANGED <<main, exit, age, net>>

\* Shutdown closes the server's listener and waits for its requests ...
ShutdownBegins(s) ==
  /\ Alive /\ pc = "draining" /\ shut[s] = "no"
  /\ shut' = [shut EXCEPT ![s] = "waiting"]
  /\ UNCHANGED <<main, pc, exit, elapsed, age, sig, srv, inflight>>

ShutdownEndsMutNoDeadline(s) ==
  /\ Alive /\ shut[s] = "waiting" /\ inflight[s] = 0
  /\ shut' = [shut EXCEPT ![s] = "done"]
  /\ UNCHANGED <<main, pc, exit, elapsed, age, sig, srv, inflight>>

\* ... until none is left or the shared context has expired.
ShutdownEnds(s) ==
  /\ Alive /\ shut[s] = "waiting"
  /\ inflight[s] = 0 \/ elapsed >= Grace
  /\ shut' = [shut EXCEPT ![s] = "done"]
  /\ UNCHANGED <<main, pc, exit, elapsed, age, sig, srv, inflight>>

\* Both wait groups are released and main returns; what is still in flight
\* is cut with the process.
MainReturns ==
  /\ Alive /\ pc = "draining"
  /\ \A s \in Servers : shut[s] = "done" /\ srv[s] = "returned"
  /\ exit' = "clean"
  /\ UNCHANGED <<main, pc, elapsed, age, sig, net>>

\* Time passes in the phases that read the clock: a fetch ends within its
\* timeout and a pause when its delay is over.
TimePasses ==
  /\ Alive /\ elapsed < Horizon
  /\ \/ pc = "fetch" /\ age < FetchTimeout /\ age' = age + 1
     \/ pc = "pause" /\ age < RetryDelay /\ age' = age + 1
     \/ pc = "draining" /\ UNCHANGED age
  /\ elapsed' = elapsed + 1
  /\ UNCHANGED <<main, pc, exit, sig, net>>

\* The process is gone.
Gone == ~Alive /\ UNCHANGED processVars

Startup == Configure \/ FetchSucceeds \/ FetchFails \/ Retry \/ StartServers \/ Notify
Server(s) == Bind(s) \/ BindFails(s) \/ ServeReturns(s) \/ ShutdownBegins(s) \/ ShutdownEnds(s)

ProcessNext ==
  \/ Startup
  \/ \E s \in Servers : Server(s) \/ RequestBegins(s) \/ RequestEnds(s)
  \/ Signal \/ SignalReceived \/ MainReturns \/ TimePasses \/ Gone

\* Goroutines run and clocks advance; no request is assumed to end and no
\* signal to arrive.
Fairness ==
  /\ WF_processVars(Startup) /\ WF_processVars(SignalReceived)
  /\ WF_processVars(MainReturns) /\ WF_processVars(TimePasses)
  /\ \A s \in Servers : WF_processVars(Server(s))

ProcessSpec == ProcessInit /\ [][ProcessNext]_processVars /\ Fairness

----------------------------------------------------------------------------
(* Properties. *)

Serving == \E s \in Servers : srv[s] # "off"

\* The channel of waitForShutdownSignal never holds more than one signal, and
\* every variable stays in its range.
ProcessTypeOK ==
  /\ env \in Envs /\ idpUpAt \in IdpTimes
  /\ pc \in {"load", "fetch", "pause", "quotas", "started", "waiting", "draining"}
  /\ exit \in {"no", "config", "jwks", "quotas", "killed", "clean"}
  /\ settings.issuer \in Url /\ settings.jwks \in Url
  /\ elapsed \in 0..Horizon /\ age \in 0..Horizon /\ sig \in 0..1
  /\ srv \in [Servers -> {"off", "starting", "up", "returned"}]
  /\ shut \in [Servers -> {"no", "waiting", "done"}]
  /\ inflight \in [Servers -> 0..MaxInFlight]

\* Whatever the environment and the discovery endpoint say, no listener is
\* ever started unless tokens are bound to an issuer and a key URL that the
\* operator wrote, neither taken from a discovery document, and both https
\* unless OIDC_ALLOW_INSECURE was set (LoadAndValidate, ResolveOIDC, main).
TrustAnchorIsConfigured ==
  Serving =>
    \A u \in {settings.issuer, settings.jwks} :
      /\ u.host \in {"operator", "keycloak"}
      /\ u.scheme = "https" \/ (u.scheme = "http" /\ env.allowInsecure)

\* The initial key fetch ends, one way or the other, no later than one pause
\* and one fetch after its window (NewJWKSVerifier compares the deadline only
\* after an attempt).
JwksWindowBounded ==
  pc \in {"fetch", "pause"} => elapsed <= MaxWait + RetryDelay + FetchTimeout

\* The gateway survives a provider that is still starting: it gives up on the
\* keys only if the provider came up less than one fetch before the window
\* closed, or not at all (NewJWKSVerifier).
SlowProviderSurvived ==
  exit = "jwks" => idpUpAt + FetchTimeout > MaxWait

\* Once signals are handled, a request is cut by the end of the process only
\* after the whole grace period, however many signals arrive and whichever
\* servers failed to bind (waitForShutdownSignal, gracefulShutdown).
CutOnlyAfterGrace ==
  (~Alive /\ pc \in {"waiting", "draining"} /\ \E s \in Servers : inflight[s] > 0)
    => pc = "draining" /\ elapsed >= Grace

\* A received signal ends the process, although a transfer may never end and
\* although Shutdown may overtake ListenAndServe (serve, gracefulShutdown).
ShutdownCompletes == (pc = "draining") ~> ~Alive
=============================================================================
