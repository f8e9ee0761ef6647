-------------------------------- MODULE Acl --------------------------------
(***************************************************************************)
(* Access decisions from group names (internal/acl/resolver.go) and the    *)
(* group names of a token (internal/auth/claims.go), as operators.         *)
(*                                                                         *)
(* A name is a sequence of tokens: "/" and "-" are tokens of their own and *)
(* any other token is a word, so "/raw-events-rw" is                       *)
(* <<"/", "raw", "-", "events", "-", "rw">> and its bucket is              *)
(* <<"raw", "-", "events">>.  The groups of a user are a set: every        *)
(* operator here only asks whether some group grants something.            *)
(***************************************************************************)
EXTENDS Integers, Sequences, FiniteSets

WildcardBucket == <<"*">>

validPolicies ==
    [ro |-> [read |-> TRUE, write |-> FALSE, delete |-> FALSE],
     rw |-> [read |-> TRUE, write |-> TRUE, delete |-> TRUE],
     wo |-> [read |-> FALSE, write |-> TRUE, delete |-> FALSE]]

Policies == {"ro", "rw", "wo"}

Grants == [read : BOOLEAN, write : BOOLEAN, delete : BOOLEAN]

NoGrant == [read |-> FALSE, write |-> FALSE, delete |-> FALSE]

(* strings.TrimLeft(name, "/").                                           *)
TrimLeft(name) ==
    LET lead == {n \in 0..Len(name) : \A i \in 1..n : name[i] = "/"}
        k == CHOOSE n \in lead : \A m \in lead : m <= n
    IN SubSeq(name, k + 1, Len(name))

(* strings.LastIndex(name, "-"), 0 when there is none.                    *)
LastHyphen(name) ==
    LET at == {i \in 1..Len(name) : name[i] = "-"} \cup {0}
    IN CHOOSE i \in at : \A j \in at : j <= i

(* A name cut at its last hyphen.                                         *)
Parsed(group) ==
    LET g == TrimLeft(group)
        h == LastHyphen(g)
    IN [h |-> h, bucket |-> SubSeq(g, 1, h - 1), suffix |-> SubSeq(g, h + 1, Len(g))]

(* parseGroup: which names are <bucket>-<policy>, and their two parts.    *)
parseGroup(group) ==
    LET p == Parsed(group)
        ok == /\ p.h # 0
              /\ \E pol \in Policies : p.suffix = <<pol>>
              /\ p.bucket # <<>>
    IN [ok |-> ok,
        bucket |-> IF ok THEN p.bucket ELSE <<>>,
        policy |-> IF ok THEN p.suffix[1] ELSE "ro"]

Methods == {"GET", "HEAD", "OPTIONS", "PUT", "POST", "DELETE", "PATCH"}

methodGranted(g, method) ==
    \/ method \in {"GET", "HEAD", "OPTIONS"} /\ g.read
    \/ method \in {"PUT", "POST"} /\ g.write
    \/ method = "DELETE" /\ g.delete

CheckAccessMutNamedOnly(groups, bucket, method) ==
    \E group \in groups :
        LET p == parseGroup(group) IN
        /\ p.ok
        /\ p.bucket = bucket
        /\ methodGranted(validPolicies[p.policy], method)

CheckAccess(groups, bucket, method) ==
    \E group \in groups :
        LET p == parseGroup(group) IN
        /\ p.ok
        /\ p.bucket = bucket \/ p.bucket = WildcardBucket
        /\ methodGranted(validPolicies[p.policy], method)

(* BucketPermission.apply over all groups that parse to the bucket: the   *)
(* union of what their policies grant.                                    *)
Union(groups, bucket) ==
    LET policies == {parseGroup(g).policy :
                        g \in {h \in groups : parseGroup(h).ok /\ parseGroup(h).bucket = bucket}}
    IN [read |-> \E p \in policies : validPolicies[p].read,
        write |-> \E p \in policies : validPolicies[p].write,
        delete |-> \E p \in policies : validPolicies[p].delete]

(* The buckets some group names.                                          *)
Named(groups) ==
    {parseGroup(g).bucket : g \in {h \in groups : parseGroup(h).ok}}

(* WildcardGrant: the grant on every bucket, and whether there is one.    *)
HasWildcard(groups) == WildcardBucket \in Named(groups)
WildcardGrant(groups) == Union(groups, WildcardBucket)

(* EffectiveBuckets: the buckets named explicitly, with their grants.     *)
EffectiveBuckets(groups) ==
    [b \in Named(groups) \ {WildcardBucket} |-> Union(groups, b)]

Or(g, h) ==
    [read |-> g.read \/ h.read, write |-> g.write \/ h.write,
     delete |-> g.delete \/ h.delete]

----------------------------------------------------------------------------

(* A query parameter is a word and whether it is written in lower case;   *)
(* strings.ToLower forgets the second.                                    *)
Param(word, lower) == [word |-> word, lower |-> lower]
ToLower(param) == Param(param.word, TRUE)

adminSubResources ==
    {Param(w, TRUE) : w \in
      {"acl", "policy", "versioning", "tagging", "lifecycle", "cors", "website",
       "notification", "encryption", "replication", "logging", "requestpayment",
       "accelerate", "object-lock", "lock", "retention", "legal-hold", "inventory",
       "analytics", "metrics", "select", "restore", "torrent", "publicaccessblock",
       "ownershipcontrols", "intelligent-tiering", "uploads", "uploadid", "partnumber"}}

(* A query is a set of pairs; u.Query() silently leaves out those that    *)
(* are not well formed (resolver.go:201).                                 *)
Pair(param, wellFormed) == [param |-> param, wellFormed |-> wellFormed]
Query(pairs) == {p.param : p \in {q \in pairs : q.wellFormed}}

(* A path is the sequence of its segments after the first slash; a        *)
(* segment is a name, <<>> where two slashes meet or a slash is last.     *)
Segments(path) == {i \in 1..Len(path) : path[i] # <<>>}

(* At most one part is left when the slashes at both ends are trimmed.    *)
WholeBucket(path) == Cardinality(Segments(path)) <= 1

IsAdminOperationMutCase(method, uri) ==
    \/ ~uri.parses
    \/ \E param \in Query(uri.pairs) : param \in adminSubResources
    \/ WholeBucket(uri.path) /\ method \in {"PUT", "DELETE", "POST"}

(* uri is what url.Parse makes of the string the caller hands over:       *)
(* whether it parses, and its path and pairs.  Unparseable URIs,          *)
(* administrative sub-resources in any case, and state changes of a whole *)
(* bucket.                                                                *)
IsAdminOperation(method, uri) ==
    \/ ~uri.parses
    \/ \E param \in Query(uri.pairs) : ToLower(param) \in adminSubResources
    \/ WholeBucket(uri.path) /\ method \in {"PUT", "DELETE", "POST"}

----------------------------------------------------------------------------

(* stripLeadingSlash: one slash, not all.                                 *)
stripLeadingSlash(name) ==
    IF name # <<>> /\ name[1] = "/" THEN Tail(name) ELSE name

(* ExtractGroups, the default mapping: the groups claim merged with       *)
(* realm_access.roles.                                                    *)
ExtractGroups(claims) ==
    {stripLeadingSlash(n) : n \in claims.groups \cup claims.roles}

============================================================================
