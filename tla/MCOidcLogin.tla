---------------------------- MODULE MCOidcLogin ----------------------------
(***************************************************************************)
(* OidcLogin for TLC: two tabs of one browser and a second browser.        *)
(***************************************************************************)
EXTENDS OidcLogin, TLC

CONSTANTS b1, b2, l1, l2, l3

MCBrowsers == {b1, b2}
MCLogins == {l1, l2, l3}
MCOwnerOf == (l1 :> b1) @@ (l2 :> b1) @@ (l3 :> b2)

(* Visits, and the two logins of one browser, are interchangeable.        *)
LoginSymmetry == Permutations(Visits) \cup Permutations({l1, l2})

============================================================================
