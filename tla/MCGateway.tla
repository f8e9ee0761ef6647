----------------------------- MODULE MCGateway -----------------------------
(***************************************************************************)
(* Gateway for TLC: three buckets, one a hyphen-prefix of another; a user  *)
(* with two named grants and leading slashes, one whose grants unite a     *)
(* wildcard and a name, and a token of another issuer.                     *)
(***************************************************************************)
EXTENDS Gateway, TLC

CONSTANTS r1, r2, tMix, tWild, tBad

MCRequests == {r1, r2}
RequestSymmetry == Permutations(MCRequests)
MCTokens == {tMix, tWild, tBad}

Reports == <<"reports">>
Raw == <<"raw">>
RawEvents == <<"raw", "-", "events">>
MCBuckets == {Reports, Raw, RawEvents}

MCStore == {<<Raw, <<<<"k">>>>>>, <<RawEvents, <<<<"k">>>>>>}

Tok(groups, roles, issuer, exp) ==
    [alg |-> "RS256", signed |-> TRUE, issuer |-> issuer, audience |-> "expected",
     exp |-> exp, claims |-> [groups |-> groups, roles |-> roles]]

MCTokenOf ==
    (tMix :> Tok({<<"/", "raw", "-", "events", "-", "rw">>, <<"/", "/", "reports", "-", "ro">>},
                 {<<"offline", "-", "access">>}, "expected", 1))
    @@ (tWild :> Tok({<<"*", "-", "wo">>}, {<<"reports", "-", "ro">>}, "expected", 2))
    @@ (tBad :> Tok({<<"*", "-", "rw">>}, {}, "other", 2))

(* The sub-resources by which the S3 API writes the configuration of a    *)
(* bucket or an object (PutBucketAcl ... PutObjectRetention), in one case.*)
MCConfigSubResources ==
    {"accelerate", "acl", "analytics", "cors", "encryption", "intelligent-tiering",
     "inventory", "legal-hold", "lifecycle", "logging", "metrics", "notification",
     "object-lock", "ownershipcontrols", "policy", "publicaccessblock", "replication",
     "requestpayment", "retention", "tagging", "versioning", "website"}

Url(path, pairs) == [NoUrl EXCEPT !.path = path, !.pairs = pairs]

Key == <<"k">>

S3(t, method, url) ==
    [NoInput EXCEPT !.header = t, !.method = method, !.url = url,
                    !.headers = {"X-Amz-Security-Token", "Connection", "Content-Type"}]

Ui(header, cookie, method, path, site, origin) ==
    [NoInput EXCEPT !.door = "ui", !.header = header, !.cookie = cookie, !.method = method,
                    !.url = Url(path, {}), !.site = site, !.origin = origin]

(* Object and bucket requests of each user at the S3 door, with a slash   *)
(* too many in each place, seen or hidden from the mux.                   *)
Slashes == {<<RawEvents, <<>>>>, <<RawEvents, <<>>, <<>>>>, <<RawEvents, <<>>, Key>>,
            <<<<>>, RawEvents>>, <<<<>>, RawEvents, Key>>}

S3Inputs ==
    {S3(t, m, Url(<<b, Key>>, {})) :
        t \in {tMix, tWild}, m \in {"GET", "PUT", "DELETE"}, b \in {Reports, Raw, RawEvents}}
    \cup {S3(tMix, m, Url(<<RawEvents>>, {})) :
             m \in {"GET", "HEAD", "OPTIONS", "PUT", "DELETE", "POST", "PATCH"}}
    \cup {S3(tMix, m, [Url(path, {}) EXCEPT !.literal = seen]) :
             m \in {"PUT", "DELETE"}, path \in Slashes, seen \in BOOLEAN}
    \cup {S3(t, m, Url(<<>>, {})) : t \in {tWild}, m \in {"GET", "PUT"}}
    \cup {S3(NoToken, "GET", Url(<<>>, {})), S3(tBad, "PUT", Url(<<Reports, Key>>, {}))}

(* Each configuring sub-resource in both cases, one that is none, and one *)
(* the server cannot parse.                                               *)
QueryInputs ==
    {S3(tMix, "PUT", Url(<<RawEvents, Key>>, {Pair(Param(w, l), TRUE)})) :
        w \in MCConfigSubResources \cup {"x-id"}, l \in BOOLEAN}
    \cup {S3(tMix, "PUT", Url(<<RawEvents, Key>>, {Pair(Param("acl", TRUE), FALSE)}))}

(* The same objects at the UI's door, with an empty key, a method no      *)
(* route has, and the cookie from each kind of site.                      *)
UiInputs ==
    {Ui(t, NoToken, m, <<b, Key>>, "", "") :
        t \in {tMix, tWild}, m \in {"GET", "PUT", "DELETE"}, b \in {Reports, RawEvents}}
    \cup {Ui(tMix, NoToken, m, <<RawEvents, <<>>>>, "", "") :
             m \in {"HEAD", "PUT", "DELETE", "POST"}}
    \cup {Ui(tMix, NoToken, "PUT", <<RawEvents>>, "", "")}
    \cup {Ui(NoToken, tMix, "PUT", <<RawEvents, <<"k2">>>>, site, origin) :
             site \in {"", "none", "cross-site"}, origin \in {"", "same", "other"}}
    \cup {Ui(t, NoToken, "GET", <<>>, "", "") : t \in {tMix, tWild}}
    \cup {Ui(NoToken, NoToken, "GET", <<>>, "", ""), Ui(tBad, tMix, "GET", <<Raw>>, "", ""),
          Ui(tMix, NoToken, "HEAD", <<Reports>>, "", "")}

MCInputs == S3Inputs \cup QueryInputs \cup UiInputs

============================================================================
