---------------------------- MODULE MCLifecycle ----------------------------
(***************************************************************************)
(* Instances of Lifecycle for TLC: a sound environment and every           *)
(* environment that differs from it in one variable or in a chosen pair.   *)
(***************************************************************************)
EXTENDS Lifecycle

U(scheme, host) == [scheme |-> scheme, host |-> host]
Blank == U(" ", "operator")

Sound ==
  [secrets |-> TRUE, kcUrl |-> U("https", "keycloak"), kcJwks |-> U("https", "keycloak"),
   oidcIssuer |-> Unset, oidcJwks |-> Unset, discovery |-> Unset,
   allowInsecure |-> FALSE, quotas |-> <<>>]

Quota(n, s) == [name |-> n, size |-> s]
Choices ==
  [secrets : {FALSE}] \cup
  [kcUrl : {Unset, Blank, U("http", "keycloak")}] \cup
  [kcJwks : {Unset, U("http", "keycloak")}] \cup
  [oidcIssuer : {Blank, U("https", "operator"), U("http", "operator")}] \cup
  [oidcJwks : {U("https", "operator"), U("other", "operator")}] \cup
  [discovery : {Blank, U("https", "operator"), U("http", "operator")}] \cup
  [allowInsecure : {TRUE}] \cup
  [quotas : {<<Quota("a", 1), Quota("a", 2)>>, <<Quota("a", 1), Quota("", 2)>>, <<Quota("*", BadSize)>>}]

Insecure == [allowInsecure |-> TRUE]

\* Pairs that only matter together: plaintext with and without the opt-in,
\* and a missing key URL that a discovery document could fill in.
Pairs ==
  {Insecure} \X [kcUrl : {U("http", "keycloak")}] \cup
  {Insecure} \X [oidcJwks : {U("other", "operator")}] \cup
  [kcJwks : {Unset}] \X [discovery : {Blank, U("https", "operator"), U("http", "operator")}] \cup
  [oidcIssuer : {U("https", "operator")}] \X [discovery : {U("https", "operator")}]

Change(e, c) == [v \in DOMAIN e |-> IF v \in DOMAIN c THEN c[v] ELSE e[v]]
MCEnvs ==
  {Change(Sound, c) : c \in Choices} \cup {Change(Change(Sound, p[1]), p[2]) : p \in Pairs}

MCDocs ==
  {[ok |-> FALSE, issuer |-> Unset, jwks |-> Unset],
   [ok |-> TRUE, issuer |-> U("https", "keycloak"), jwks |-> U("https", "discovered")],
   [ok |-> TRUE, issuer |-> U("https", "discovered"), jwks |-> U("https", "discovered")]}

MCIdpTimes == {0, 3, 4, Never}
=============================================================================
