------------------------------ MODULE Gateway ------------------------------
(***************************************************************************)
(* The two doors of the gateway onto one storage backend: the S3 proxy     *)
(* (internal/proxy: ServeHTTP, handleListBuckets, Forward, RewriteHeaders) *)
(* and the JSON API of the web UI (internal/webui: AuthMiddleware and the  *)
(* bucket and object handlers).  Each request is a process: it is decided  *)
(* in one step, since neither handler shares state before it calls the     *)
(* backend, then prepared, sent, carried out by the backend and answered,  *)
(* each of which may fail.                                                 *)
(*                                                                         *)
(* The backend (external) carries out whatever is signed with the service  *)
(* credentials, on objects, buckets and bucket configuration alike; only   *)
(* the gateway stands between a user and those.                            *)
(***************************************************************************)
EXTENDS Acl

CONSTANTS
    Requests,     \* the requests
    Tokens,       \* bearer tokens
    NoToken,      \* no token sent
    TokenOf,      \* TokenOf[t]: what a token says and whether it is genuine
    Inputs,       \* the requests a client may send (see InputType)
    InitBuckets,  \* the buckets of the backend
    InitStore,    \* the objects of the backend at the start
    ConfigSubResources, \* backend: the sub-resources that configure a bucket or object
    MaxNow        \* bound on the clock

ASSUME GatewayAssumption ==
    /\ NoToken \notin Tokens
    /\ \A t \in Tokens :
        /\ TokenOf[t].exp \in Nat
        /\ TokenOf[t].claims.groups \cup TokenOf[t].claims.roles \subseteq Seq(STRING)
    /\ WildcardBucket \notin InitBuckets
    /\ \A i \in Inputs : i.door \in {"s3", "ui"}
    /\ \A obj \in InitStore : obj[1] \in InitBuckets

VARIABLES
    now,      \* the clock, for token expiry
    backend,  \* a storage client was configured at startup
    store,    \* backend: the objects, as <<bucket, key>>
    buckets,  \* backend: the buckets
    config,   \* backend: the buckets whose configuration was changed
    pc,       \* where each request stands
    in,       \* what each request asks
    arrived,  \* history: when each request arrived
    wire,     \* the request as sent to the backend
    out       \* the answer

asked == <<in, arrived>>
vars == <<now, backend, store, buckets, config, pc, asked, wire, out>>

(* door: "s3" or "ui".  header, cookie: the bearer token and the          *)
(* access_token cookie (an empty bearer token is one that does not        *)
(* verify).  site: what Sec-Fetch-Site says: "cross-site" (or same-site), *)
(* "none" (or same-origin), or "" for no such header.  origin: the host   *)
(* of the Origin header is the request's ("same"), another or unreadable  *)
(* ("other"), or there is no such header ("").  url: see below.           *)
(* headers: the other request headers.                                    *)
(*                                                                        *)
(* url is r.URL, as net/http parsed it from the request line: the decoded *)
(* path, the pairs of the query, whether the slashes next to its empty    *)
(* segments are written as such (or as %2F), and whether its second       *)
(* segment could be a host name.  A request target has no fragment.       *)
NoUrl == [path |-> <<>>, pairs |-> {}, literal |-> TRUE, hostlike |-> TRUE]

NoInput == [door |-> "s3", header |-> NoToken, cookie |-> NoToken, method |-> "GET",
            url |-> NoUrl, site |-> "", origin |-> "", headers |-> {}]

NoWire == [method |-> "", path |-> <<>>, params |-> {}, headers |-> {}]

Answered(status) == [status |-> status, listing |-> <<>>]

Listed(listing) == [status |-> 200, listing |-> listing]

----------------------------------------------------------------------------
(* Authentication.                                                        *)

SigningMethods == {"RS256", "RS384", "RS512"}

VerifyTokenMutAnyIssuer(t) ==
    /\ t \in Tokens
    /\ TokenOf[t].alg \in SigningMethods
    /\ TokenOf[t].signed
    /\ now < TokenOf[t].exp
    /\ TokenOf[t].audience = "expected"

(* VerifyToken: signed by a key of the JWKS with an allowed algorithm,    *)
(* not expired, issued by and for the configured parties.                 *)
VerifyToken(t) ==
    /\ t \in Tokens
    /\ TokenOf[t].alg \in SigningMethods
    /\ TokenOf[t].signed
    /\ now < TokenOf[t].exp
    /\ TokenOf[t].issuer = "expected"
    /\ TokenOf[t].audience = "expected"

Groups(t) == ExtractGroups(TokenOf[t].claims)

(* extractToken of the UI: the header wins, the cookie is the fallback.   *)
UiToken(i) == IF i.header # NoToken THEN i.header ELSE i.cookie
FromCookie(i) == i.header = NoToken

isCrossSiteStateChange(i) ==
    /\ i.method \notin {"GET", "HEAD", "OPTIONS"}
    /\ \/ i.site = "cross-site"
       \/ i.site = "" /\ i.origin = "other"

----------------------------------------------------------------------------
(* What is sent to the backend.                                           *)

hopByHopHeaders ==
    {"Connection", "Keep-Alive", "Proxy-Authenticate", "Proxy-Authorization",
     "Te", "Trailers", "Transfer-Encoding", "Upgrade"}

sigV4Headers ==
    {"Authorization", "X-Amz-Date", "X-Amz-Content-Sha256", "X-Amz-Security-Token",
     "X-Amz-Credential", "X-Amz-Signature", "X-Amz-Signedheaders", "X-Amz-Algorithm"}

(* A header on the wire: its name and who set it.                         *)
Client(names) == {[name |-> n, by |-> "client"] : n \in names}
Signature == {[name |-> n, by |-> "gateway"] : n \in {"Authorization", "X-Amz-Date"}}

(* The names of the headers of a request.                                 *)
HeaderNames(i) ==
    i.headers \cup (IF i.header # NoToken THEN {"Authorization"} ELSE {})
              \cup (IF i.cookie # NoToken THEN {"Cookie"} ELSE {})

(* The user's token leaves with Authorization; a Cookie is passed on.     *)
RewriteHeaders(names) == names \ (sigV4Headers \cup hopByHopHeaders)

Signed(w) == Signature \subseteq w.headers

(* The outbound request of Forward: method and path preserved, and of the *)
(* query the pairs that parse (httputil.ReverseProxy cleans the query     *)
(* before it calls Rewrite, and the signer writes it anew).               *)
Outbound(i, signature) ==
    [method |-> i.method, path |-> i.url.path, params |-> Query(i.url.pairs),
     headers |-> Client(RewriteHeaders(HeaderNames(i))) \cup signature]

(* A HEAD request is routed to the GET handlers.                          *)
UiMethod(i) == IF i.method = "HEAD" THEN "GET" ELSE i.method

(* A call of the AWS SDK client: always signed, no client header on it.   *)
SdkCall(i) ==
    [method |-> UiMethod(i), path |-> i.url.path, params |-> {}, headers |-> Signature]

----------------------------------------------------------------------------

Init ==
    /\ now = 0
    /\ backend \in BOOLEAN
    /\ store = InitStore
    /\ buckets = InitBuckets
    /\ config = {}
    /\ pc = [r \in Requests |-> "idle"]
    /\ in = [r \in Requests |-> NoInput]
    /\ arrived = [r \in Requests |-> 0]
    /\ wire = [r \in Requests |-> NoWire]
    /\ out = [r \in Requests |-> Answered(0)]

Goto(r, l) == pc' = [pc EXCEPT ![r] = l]

Reply(r, a) ==
    /\ Goto(r, "done")
    /\ out' = [out EXCEPT ![r] = a]
    /\ UNCHANGED wire

external == <<now, backend, store, buckets, config>>

(* ServeMux redirects a path with an empty segment to the path without,   *)
(* when it can see the slashes; only the last segment may be empty.       *)
NotClean(url) ==
    url.literal /\ \E n \in 1..(Len(url.path) - 1) : url.path[n] = <<>>

(* A request arrives at the mux of its door.                              *)
Receive(r) ==
    /\ pc[r] = "idle"
    /\ \E i \in Inputs :
        /\ in' = [in EXCEPT ![r] = i]
        /\ \/ NotClean(i.url) /\ Reply(r, Answered(301))
           \/ ~NotClean(i.url) /\ Goto(r, i.door) /\ UNCHANGED <<wire, out>>
    /\ arrived' = [arrived EXCEPT ![r] = now]
    /\ UNCHANGED external

(* pathBucket: the first segment.                                         *)
pathBucket(path) == IF path = <<>> THEN <<>> ELSE path[1]

(* r.URL.RequestURI() as url.Parse reads it back: the same, except that   *)
(* it takes what follows two leading slashes for a host, or fails.        *)
RequestURI(url) ==
    IF url.literal /\ Len(url.path) > 1 /\ url.path[1] = <<>>
    THEN [parses |-> url.hostlike, path |-> SubSeq(url.path, 3, Len(url.path)),
          pairs |-> url.pairs]
    ELSE [parses |-> TRUE, path |-> url.path, pairs |-> url.pairs]

(* ServeHTTP of the S3 proxy up to the call of the backend; each conjunct *)
(* of a disjunct after the first is an early return the others passed.    *)
S3Decide(r) ==
    /\ pc[r] = "s3"
    /\ LET i == in[r]
           t == i.header
           bucket == pathBucket(i.url.path)
           admin == IsAdminOperation(i.method, RequestURI(i.url))
           granted == CheckAccess(Groups(t), bucket, i.method)
       IN \/ /\ ~VerifyToken(t)
             /\ Reply(r, Answered(401))
          \/ /\ VerifyToken(t) /\ bucket = <<>> /\ i.method # "GET"
             /\ Reply(r, Answered(400))
          \/ /\ VerifyToken(t) /\ bucket = <<>> /\ i.method = "GET"
             /\ Goto(r, "s3list")
             /\ UNCHANGED <<wire, out>>
          \/ /\ VerifyToken(t) /\ bucket # <<>> /\ (admin \/ ~granted)
             /\ Reply(r, Answered(403))
          \/ /\ VerifyToken(t) /\ bucket # <<>> /\ ~admin /\ granted
             /\ Goto(r, "forward")
             /\ UNCHANGED <<wire, out>>
    /\ UNCHANGED <<external, asked>>

(* handleListBuckets: the backend's buckets, filtered.                    *)
S3ListBuckets(r) ==
    /\ pc[r] = "s3list"
    /\ \/ Reply(r, Answered(502))   \* no backend configured, or ListBuckets fails
       \/ /\ backend
          /\ LET g == Groups(in[r].header)
                 seen == {b \in buckets :
                            HasWildcard(g) \/ b \in DOMAIN EffectiveBuckets(g)}
             IN Reply(r, Listed([b \in seen |-> NoGrant]))
    /\ UNCHANGED <<external, asked>>

(* Forward up to the round trip.  The credentials may be unavailable; the *)
(* signer may fail, which is logged and nothing else.                     *)
Forward(r) ==
    /\ pc[r] = "forward"
    /\ \/ Reply(r, Answered(502))   \* no backend, bad endpoint or no credentials
       \/ /\ backend
          /\ \E signature \in {Signature, {}} :
                wire' = [wire EXCEPT ![r] = Outbound(in[r], signature)]
          /\ Goto(r, "sent")
          /\ UNCHANGED out
    /\ UNCHANGED <<external, asked>>

(* HandleListBuckets of the UI: named buckets, united with the wildcard   *)
(* grant on every bucket the backend has.                                 *)
UiListing(groups, present) ==
    LET eff == EffectiveBuckets(groups)
        wild == IF HasWildcard(groups) THEN present ELSE {}
    IN [b \in DOMAIN eff \cup wild |->
          Or(IF b \in DOMAIN eff THEN eff[b] ELSE NoGrant,
             IF b \in wild THEN WildcardGrant(groups) ELSE NoGrant)]

UiGrantedMutWriteDeletes(i) ==
    CheckAccess(Groups(UiToken(i)), pathBucket(i.url.path),
                IF i.method = "DELETE" THEN "PUT" ELSE UiMethod(i))

(* The ACL check of the UI's listing and object handlers.                 *)
UiGranted(i) == CheckAccess(Groups(UiToken(i)), pathBucket(i.url.path), UiMethod(i))

(* What RegisterRoutes lets through to the UI's handlers, a GET pattern   *)
(* matching HEAD too: the bucket list (no segment), the listing of a      *)
(* bucket (one) and the object routes (two or more).                      *)
UiRouted(i) ==
    \/ i.method \in {"GET", "HEAD"}
    \/ i.method \in {"PUT", "DELETE"} /\ Len(i.url.path) > 1

(* A bucket or key that is "": {key...} matches the empty rest.           *)
NamesMissing(path) ==
    /\ path # <<>>
    /\ path[1] = <<>> \/ (Len(path) = 2 /\ path[2] = <<>>)

(* AuthMiddleware and the checks of the handler, in their order.          *)
UiDecide(r) ==
    /\ pc[r] = "ui"
    /\ LET i == in[r]
           t == UiToken(i)
           path == i.url.path
           csrf == FromCookie(i) /\ isCrossSiteStateChange(i)
           admitted == UiRouted(i) /\ t # NoToken /\ ~csrf /\ VerifyToken(t)
           called == admitted /\ path # <<>> /\ ~NamesMissing(path)
           granted == UiGranted(i)
       IN \/ /\ ~UiRouted(i)
             /\ Reply(r, Answered(404))
          \/ /\ UiRouted(i) /\ t = NoToken
             /\ Reply(r, Answered(401))
          \/ /\ UiRouted(i) /\ t # NoToken /\ csrf
             /\ Reply(r, Answered(403))
          \/ /\ UiRouted(i) /\ t # NoToken /\ ~csrf /\ ~VerifyToken(t)
             /\ Reply(r, Answered(401))
          \/ /\ admitted /\ path = <<>>
             /\ Goto(r, "uilist")
             /\ UNCHANGED <<wire, out>>
          \/ /\ admitted /\ NamesMissing(path)
             /\ Reply(r, Answered(400))
          \/ /\ called /\ ~granted
             /\ Reply(r, Answered(403))
          \/ /\ called /\ granted /\ ~backend
             /\ Reply(r, Answered(503))
          \/ /\ called /\ granted /\ backend
             /\ wire' = [wire EXCEPT ![r] = SdkCall(i)]
             /\ Goto(r, "sent")
             /\ UNCHANGED out
    /\ UNCHANGED <<external, asked>>

UiListBuckets(r) ==
    /\ pc[r] = "uilist"
    /\ LET g == Groups(UiToken(in[r])) IN
       \/ HasWildcard(g) /\ backend /\ Reply(r, Answered(502))   \* ListBuckets fails
       \/ Reply(r, Listed(UiListing(g, IF backend THEN buckets ELSE {})))
    /\ UNCHANGED <<external, asked>>

----------------------------------------------------------------------------
(* The backend and the network (external).                                *)

(* The backend addresses an object by the bucket before the first slash   *)
(* and the key after it; without a key a request is for the bucket.       *)
NoKey(path) == Len(path) = 1 \/ (Len(path) = 2 /\ path[2] = <<>>)

(* The backend carries out a signed request: a write with a configuring   *)
(* sub-resource, in any letter case, changes the configuration of the     *)
(* bucket; another write of a bucket creates or removes it or (POST)      *)
(* deletes objects of it in bulk; one of an object writes or deletes it.  *)
Execute(w) ==
    LET b == w.path[1]
        obj == <<b, SubSeq(w.path, 2, Len(w.path))>>
        configures == /\ w.method \in {"PUT", "POST", "DELETE"}
                      /\ \E p \in w.params : p.word \in ConfigSubResources
        does(method, whole) == ~configures /\ w.method = method /\ whole = NoKey(w.path)
    IN /\ config' = IF configures THEN config \cup {b} ELSE config
       /\ buckets' = IF does("PUT", TRUE) THEN buckets \cup {b}
                     ELSE IF does("DELETE", TRUE) THEN buckets \ {b}
                     ELSE buckets
       /\ store' = IF does("PUT", FALSE) /\ b \in buckets THEN store \cup {obj}
                   ELSE IF does("DELETE", FALSE) THEN store \ {obj}
                   ELSE IF does("POST", TRUE) THEN {o \in store : o[1] # b}
                   ELSE store

BackendExecutes(r) ==
    /\ pc[r] = "sent"
    /\ Signed(wire[r])
    /\ Execute(wire[r])
    /\ Goto(r, "answered")
    /\ UNCHANGED <<now, backend, asked, wire, out>>

BackendRefuses(r) ==
    /\ pc[r] = "sent"
    /\ ~Signed(wire[r])
    /\ Reply(r, Answered(403))
    /\ UNCHANGED <<external, asked>>

(* The answer comes back ...                                              *)
Deliver(r) ==
    /\ pc[r] = "answered"
    /\ Reply(r, Answered(200))
    /\ UNCHANGED <<external, asked>>

(* ... or the round trip fails, before or after the backend acted.        *)
RoundTripFails(r) ==
    /\ pc[r] \in {"sent", "answered"}
    /\ Reply(r, Answered(502))
    /\ UNCHANGED <<external, asked>>

Tick ==
    /\ now < MaxNow
    /\ now' = now + 1
    /\ UNCHANGED <<backend, store, buckets, config, pc, asked, wire, out>>

Terminated ==
    /\ \A r \in Requests : pc[r] = "done"
    /\ UNCHANGED vars

Next ==
    \/ \E r \in Requests :
        \/ Receive(r) \/ S3Decide(r) \/ S3ListBuckets(r) \/ Forward(r)
        \/ UiDecide(r) \/ UiListBuckets(r)
        \/ BackendExecutes(r) \/ BackendRefuses(r) \/ Deliver(r) \/ RoundTripFails(r)
    \/ Tick
    \/ Terminated

Spec == Init /\ [][Next]_vars

----------------------------------------------------------------------------

Genuine(t) ==
    /\ t \in Tokens /\ TokenOf[t].signed /\ TokenOf[t].alg \in SigningMethods
    /\ TokenOf[t].issuer = "expected" /\ TokenOf[t].audience = "expected"

TokenUsed(r) == IF in[r].door = "s3" THEN in[r].header ELSE UiToken(in[r])

(* The name n is <bucket>-<pol>, after any number of slashes.             *)
Says(n, bucket, pol) ==
    \E k \in 0..Len(n) : n = [j \in 1..k |-> "/"] \o bucket \o <<"-", pol>>

(* Some group of the token's claims grants the method's kind of access on *)
(* the bucket, said without the code's operators: a group named           *)
(* <bucket>-<policy> or *-<policy>.                                       *)
Entitled(t, bucket, method) ==
    \E n \in TokenOf[t].claims.groups \cup TokenOf[t].claims.roles, pol \in Policies :
        /\ Says(n, bucket, pol) \/ Says(n, WildcardBucket, pol)
        /\ \/ method \in {"GET", "HEAD", "OPTIONS"} /\ pol \in {"ro", "rw"}
           \/ method \in {"PUT", "POST"} /\ pol \in {"rw", "wo"}
           \/ method = "DELETE" /\ pol = "rw"

(* The request rides on the cookie and comes from another site.           *)
Forged(r) ==
    /\ in[r].door = "ui" /\ in[r].header = NoToken
    /\ in[r].site = "cross-site" \/ (in[r].site = "" /\ in[r].origin = "other")

(* An object of the backend changes only on behalf of a genuine token     *)
(* whose group names entitle it to that change of that bucket, whichever  *)
(* door the request came through; the token had not expired when the      *)
(* request arrived (it may have when the backend acts), and the request   *)
(* was not another site's riding on the cookie (auth.go:45-58).           *)
ObjectChangesAreEntitled ==
    [][\A obj \in (store \ store') \cup (store' \ store) :
        \E r \in Requests :
            /\ pc[r] = "sent" /\ pc'[r] = "answered"
            /\ pathBucket(in[r].url.path) = obj[1]
            /\ in[r].method = IF obj \in store' THEN "PUT" ELSE "DELETE"
            /\ Genuine(TokenUsed(r))
            /\ arrived[r] < TokenOf[TokenUsed(r)].exp
            /\ Entitled(TokenUsed(r), obj[1], in[r].method)
            /\ ~Forged(r)]_vars

(* No request through either door creates, removes or reconfigures a      *)
(* bucket, whatever its groups (resolver.go:134-142, 179-188), as the     *)
(* backend reads the request.                                             *)
BucketsNeverAdministered == buckets = InitBuckets /\ config = {}

(* Both doors grant the same: of two requests with the same token for the *)
(* same object and method, one is not passed to the backend where the     *)
(* other is refused for lack of rights.                                   *)
PlainObjectRequest(r) ==
    /\ Len(in[r].url.path) = 2 /\ in[r].url.pairs = {}
    /\ Segments(in[r].url.path) = {1, 2}
    /\ in[r].method \in {"GET", "PUT", "DELETE"}
    /\ in[r].site # "cross-site" /\ in[r].origin # "other"

DoorsAgree ==
    \A r, s \in Requests :
        /\ in[r].door = "s3" /\ in[s].door = "ui"
        /\ PlainObjectRequest(r) /\ PlainObjectRequest(s)
        /\ TokenUsed(r) = TokenUsed(s)
        /\ in[r].method = in[s].method /\ in[r].url.path = in[s].url.path
        => /\ ~(wire[r] # NoWire /\ out[s].status = 403)
           /\ ~(wire[s] # NoWire /\ wire[r] = NoWire /\ out[r].status = 403)

(* The UI's bucket list tells the truth: for a bucket of the backend each *)
(* flag says what the object handlers will grant, and a bucket that is    *)
(* not listed is one the user has no right on.                            *)
ListingTellsRights ==
    \A r \in Requests :
        /\ in[r].door = "ui" /\ pc[r] = "done" /\ out[r].status = 200
        /\ pathBucket(in[r].url.path) = <<>> /\ backend
        => \A b \in buckets, m \in {"GET", "PUT", "DELETE"} :
              CheckAccess(Groups(TokenUsed(r)), b, m) <=>
                 /\ b \in DOMAIN out[r].listing
                 /\ methodGranted(out[r].listing[b], m)

============================================================================
