--------------------------- MODULE GatewayProofs ---------------------------
(***************************************************************************)
(* Proofs about Acl and Gateway for any tokens, groups, buckets and        *)
(* requests.                                                               *)
(***************************************************************************)
EXTENDS Gateway, FiniteSetTheorems, SequenceTheorems, TLAPS

(* parseGroup yields a policy of the table.                               *)
LEMMA ParsedPolicy ==
    ASSUME NEW g
    PROVE  parseGroup(g).policy \in Policies
  BY DEF parseGroup, Policies

(* What the union of a bucket's groups grants.                            *)
LEMMA UnionGrants ==
    ASSUME NEW groups, NEW b, NEW m
    PROVE  methodGranted(Union(groups, b), m) <=>
              \E g \in groups : /\ parseGroup(g).ok
                                /\ parseGroup(g).bucket = b
                                /\ methodGranted(validPolicies[parseGroup(g).policy], m)
  BY DEF Union, methodGranted

(* CheckAccess asks the bucket's own groups and the wildcard groups.      *)
LEMMA AccessIsUnion ==
    ASSUME NEW groups, NEW b, NEW m
    PROVE  CheckAccess(groups, b, m) <=>
              \/ methodGranted(Union(groups, b), m)
              \/ methodGranted(Union(groups, WildcardBucket), m)
  BY UnionGrants DEF CheckAccess

(* A bucket no group names is granted nothing of its own.                 *)
LEMMA UnnamedGrantsNothing ==
    ASSUME NEW groups, NEW b, NEW m, b \notin Named(groups)
    PROVE  ~methodGranted(Union(groups, b), m)
  BY UnionGrants DEF Named

(* The UI's bucket list agrees with the access check of the object        *)
(* handlers on every bucket the backend has.                              *)
THEOREM ListingIsAccess ==
    ASSUME NEW groups, NEW present, NEW b \in present, NEW m, b # WildcardBucket
    PROVE  CheckAccess(groups, b, m) <=>
              /\ b \in DOMAIN UiListing(groups, present)
              /\ methodGranted(UiListing(groups, present)[b], m)
<1> DEFINE eff == EffectiveBuckets(groups)
           wild == IF HasWildcard(groups) THEN present ELSE {}
           own == IF b \in DOMAIN eff THEN eff[b] ELSE NoGrant
           every == IF b \in wild THEN WildcardGrant(groups) ELSE NoGrant
<1>1. methodGranted(own, m) <=> methodGranted(Union(groups, b), m)
  <2>1. ~methodGranted(NoGrant, m)
    BY DEF methodGranted, NoGrant
  <2>2. DOMAIN eff = Named(groups) \ {WildcardBucket}
    BY DEF EffectiveBuckets
  <2>3. CASE b \in Named(groups)
    BY <2>2, <2>3 DEF EffectiveBuckets
  <2>4. CASE b \notin Named(groups)
    BY <2>1, <2>2, <2>4, UnnamedGrantsNothing
  <2> QED
    BY <2>3, <2>4
<1>2. methodGranted(every, m) <=> methodGranted(Union(groups, WildcardBucket), m)
  <2>1. ~methodGranted(NoGrant, m)
    BY DEF methodGranted, NoGrant
  <2>2. CASE HasWildcard(groups)
    BY <2>2 DEF WildcardGrant
  <2>3. CASE ~HasWildcard(groups)
    BY <2>1, <2>3, UnnamedGrantsNothing DEF HasWildcard
  <2> QED
    BY <2>2, <2>3
<1>3. methodGranted(Or(own, every), m) <=> methodGranted(own, m) \/ methodGranted(every, m)
  BY DEF methodGranted, Or
<1>4. b \in DOMAIN UiListing(groups, present) <=> b \in DOMAIN eff \cup wild
  BY DEF UiListing
<1>5. b \in DOMAIN eff \cup wild => UiListing(groups, present)[b] = Or(own, every)
  BY DEF UiListing
<1>6. b \notin DOMAIN eff \cup wild => ~methodGranted(own, m) /\ ~methodGranted(every, m)
  BY DEF methodGranted, NoGrant
<1> QED
  BY <1>1, <1>2, <1>3, <1>4, <1>5, <1>6, AccessIsUnion

----------------------------------------------------------------------------

(* A nonempty set of naturals has a least element.                        *)
LEMMA LeastNatural ==
    ASSUME NEW T \in SUBSET Nat, T # {}
    PROVE  \E x \in T : \A y \in T : x <= y
<1> DEFINE R == OpToRel(<, Nat)
<1>1. PICK x \in T : \A y \in T : ~(<<y, x>> \in R)
  <2>1. IsWellFoundedOn(R, Nat)
    BY NatLessThanWellFounded
  <2> HIDE DEF R
  <2> QED
    BY <2>1, WFMin
<1>2. \A y \in T : <<y, x>> \in Nat \X Nat
  OBVIOUS
<1>3. \A y \in T : ~(y < x)
  BY <1>1, <1>2 DEF OpToRel
<1> QED
  BY <1>3

(* A nonempty set of naturals with a bound has a greatest element.        *)
LEMMA GreatestBelow ==
    ASSUME NEW n \in Nat, NEW T \in SUBSET (0..n), T # {}
    PROVE  \E x \in T : \A y \in T : y <= x
<1> DEFINE U == {n - y : y \in T}
<1>1. U \in SUBSET Nat /\ U # {}
  <2>1. \A y \in T : y \in 0..n
    OBVIOUS
  <2>2. \A y \in T : n - y \in Nat
    BY <2>1
  <2>3. PICK y \in T : TRUE
    OBVIOUS
  <2>4. n - y \in U
    OBVIOUS
  <2> QED
    BY <2>2, <2>4
<1>2. PICK u \in U : \A v \in U : u <= v
  BY <1>1, LeastNatural
<1>3. PICK x \in T : u = n - x
  BY <1>2
<1>4. \A y \in T : n - y \in U
  OBVIOUS
<1>5. \A y \in T : n - x <= n - y
  BY <1>2, <1>3, <1>4
<1>6. x \in 0..n /\ \A y \in T : y \in 0..n
  OBVIOUS
<1> QED
  BY <1>5, <1>6

(* Names are sequences of strings; the provers are told that the literals *)
(* of the model are strings.                                              *)
Word == STRING \cup {"/", "-", "*"} \cup Policies
Name == Seq(Word)

(* TrimLeft takes all leading slashes and nothing else.                   *)
LEMMA TrimLeftTakesSlashes ==
    ASSUME NEW name \in Name
    PROVE  \E k \in 0..Len(name) :
              /\ TrimLeft(name) = SubSeq(name, k + 1, Len(name))
              /\ \A i \in 1..k : name[i] = "/"
              /\ k < Len(name) => name[k + 1] # "/"
<1> DEFINE lead == {n \in 0..Len(name) : \A i \in 1..n : name[i] = "/"}
           k == CHOOSE n \in lead : \A m \in lead : m <= n
<1>1. Len(name) \in Nat
  BY DEF Name
<1>2. 0 \in lead
  BY <1>1
<1>3. k \in lead /\ \A m \in lead : m <= k
  <2>1. \E n \in lead : \A m \in lead : m <= n
    <3>1. lead \in SUBSET (0..Len(name))
      OBVIOUS
    <3> HIDE DEF lead
    <3> QED
      BY <1>1, <1>2, <3>1, GreatestBelow
  <2> HIDE DEF lead
  <2> QED
    BY <2>1
<1>4. k < Len(name) => name[k + 1] # "/"
  <2> SUFFICES ASSUME k < Len(name), name[k + 1] = "/" PROVE FALSE
    OBVIOUS
  <2>1. k \in 0..Len(name) /\ \A i \in 1..k : name[i] = "/"
    BY <1>3
  <2> HIDE DEF k
  <2>2. k + 1 \in 0..Len(name) /\ \A i \in 1..(k + 1) : name[i] = "/"
    BY <1>1, <2>1
  <2>3. k + 1 \in lead
    BY <2>2
  <2> QED
    BY <1>3, <2>1, <2>3
<1>5. TrimLeft(name) = SubSeq(name, k + 1, Len(name))
  BY DEF TrimLeft
<1> HIDE DEF k
<1> QED
  BY <1>3, <1>4, <1>5

(* LastHyphen is the place of the last hyphen, 0 when there is none.      *)
LEMMA LastHyphenIsLast ==
    ASSUME NEW name \in Name
    PROVE  /\ LastHyphen(name) \in 0..Len(name)
           /\ LastHyphen(name) # 0 => name[LastHyphen(name)] = "-"
           /\ \A i \in 1..Len(name) : name[i] = "-" => i <= LastHyphen(name)
<1> DEFINE at == {i \in 1..Len(name) : name[i] = "-"} \cup {0}
           h == CHOOSE i \in at : \A j \in at : j <= i
<1>1. Len(name) \in Nat
  BY DEF Name
<1>2. at \in SUBSET (0..Len(name)) /\ 0 \in at
  BY <1>1
<1>3. \E i \in at : \A j \in at : j <= i
  <2> HIDE DEF at
  <2> QED
    BY <1>1, <1>2, GreatestBelow
<1>4. h \in at /\ \A j \in at : j <= h
  <2> HIDE DEF at
  <2> QED
    BY <1>3
<1>5. LastHyphen(name) = h
  BY DEF LastHyphen
<1> HIDE DEF h
<1> QED
  BY <1>1, <1>4, <1>5

(* What a name says, position by position.                                *)
Positions(n, b, pol, k) ==
    /\ Len(n) = k + Len(b) + 2
    /\ \A i \in 1..k : n[i] = "/"
    /\ \A i \in 1..Len(b) : n[k + i] = b[i]
    /\ n[k + Len(b) + 1] = "-"
    /\ n[k + Len(b) + 2] = pol

LEMMA SaysByPosition ==
    ASSUME NEW n \in Name, NEW b \in Name, NEW pol \in Policies, NEW k \in Nat
    PROVE  n = [j \in 1..k |-> "/"] \o b \o <<"-", pol>> <=> Positions(n, b, pol, k)
<1> DEFINE sl == [j \in 1..k |-> "/"]
           tl == <<"-", pol>>
           sb == sl \o b
           s == sb \o tl
<1>1. sl \in Name /\ Len(sl) = k /\ \A i \in 1..k : sl[i] = "/"
  <2>1. sl \in [1..k -> Word] /\ DOMAIN sl = 1..k
    BY DEF Word
  <2>2. sl \in Name
    BY <2>1, SeqDef DEF Name
  <2>3. Len(sl) \in Nat /\ DOMAIN sl = 1..Len(sl)
    BY <2>2, LenProperties DEF Name
  <2> QED
    BY <2>1, <2>2, <2>3
<1>2. tl \in Name /\ Len(tl) = 2 /\ tl[1] = "-" /\ tl[2] = pol
  <2>1. pol \in Word /\ "-" \in Word
    BY DEF Word
  <2> QED
    BY <2>1 DEF Name
<1>3. Len(b) \in Nat /\ Len(n) \in Nat
  BY DEF Name
<1> HIDE DEF sl, tl
<1>4. /\ sb \in Name /\ Len(sb) = k + Len(b)
      /\ \A i \in 1..(k + Len(b)) :
            sb[i] = IF i <= k THEN sl[i] ELSE b[i - k]
  <2>1. /\ sb \in Name /\ Len(sb) = Len(sl) + Len(b)
        /\ \A i \in 1..(Len(sl) + Len(b)) :
              sb[i] = IF i <= Len(sl) THEN sl[i] ELSE b[i - Len(sl)]
    BY <1>1, ConcatProperties, Zenon DEF Name, sb
  <2> QED
    BY <1>1, <2>1
<1> HIDE DEF sb
<1>5. /\ s \in Name /\ Len(s) = k + Len(b) + 2
      /\ \A i \in 1..(k + Len(b) + 2) :
            s[i] = IF i <= k + Len(b) THEN sb[i] ELSE tl[i - (k + Len(b))]
  <2>1. /\ s \in Name /\ Len(s) = Len(sb) + Len(tl)
        /\ \A i \in 1..(Len(sb) + Len(tl)) :
              s[i] = IF i <= Len(sb) THEN sb[i] ELSE tl[i - Len(sb)]
    BY <1>2, <1>4, ConcatProperties, Zenon DEF Name, s
  <2> QED
    BY <1>2, <1>4, <2>1
<1>6. /\ \A i \in 1..k : s[i] = "/"
      /\ \A i \in 1..Len(b) : s[k + i] = b[i]
      /\ s[k + Len(b) + 1] = "-"
      /\ s[k + Len(b) + 2] = pol
  <2>1. \A i \in 1..k : s[i] = "/"
    BY <1>1, <1>3, <1>4, <1>5
  <2>2. ASSUME NEW i \in 1..Len(b) PROVE s[k + i] = b[i]
    <3>1. k + i \in 1..(k + Len(b)) /\ ~(k + i <= k) /\ (k + i) - k = i
      BY <1>3
    <3>2. k + i \in 1..(k + Len(b) + 2) /\ k + i <= k + Len(b)
      BY <1>3
    <3> QED
      BY <1>4, <1>5, <3>1, <3>2
  <2>3. /\ k + Len(b) + 1 \in 1..(k + Len(b) + 2) /\ ~(k + Len(b) + 1 <= k + Len(b))
        /\ k + Len(b) + 1 - (k + Len(b)) = 1
        /\ k + Len(b) + 2 \in 1..(k + Len(b) + 2) /\ ~(k + Len(b) + 2 <= k + Len(b))
        /\ k + Len(b) + 2 - (k + Len(b)) = 2
    BY <1>3
  <2>4. s[k + Len(b) + 1] = tl[1] /\ s[k + Len(b) + 2] = tl[2]
    BY <1>5, <2>3
  <2> QED
    BY <1>2, <2>1, <2>2, <2>4
<1> HIDE DEF s
<1>7. ASSUME Len(n) = k + Len(b) + 2, \A i \in 1..k : n[i] = "/",
             \A i \in 1..Len(b) : n[k + i] = b[i],
             n[k + Len(b) + 1] = "-", n[k + Len(b) + 2] = pol
      PROVE  n = s
  <2>1. ASSUME NEW i \in 1..Len(n) PROVE n[i] = s[i]
    <3>1. CASE i \in 1..k
      BY <1>6, <1>7, <3>1
    <3>2. CASE i > k /\ i <= k + Len(b)
      <4>1. i - k \in 1..Len(b) /\ k + (i - k) = i
        BY <1>3, <3>2
      <4>2. n[k + (i - k)] = b[i - k] /\ s[k + (i - k)] = b[i - k]
        BY <1>6, <1>7, <4>1, Zenon
      <4> QED
        BY <4>1, <4>2, Zenon
    <3>3. CASE i > k + Len(b)
      <4>1. i = k + Len(b) + 1 \/ i = k + Len(b) + 2
        BY <1>3, <1>7, <3>3
      <4> QED
        BY <1>6, <1>7, <4>1
    <3> QED
      BY <1>3, <3>1, <3>2, <3>3
  <2> QED
    BY <1>5, <1>7, <2>1, SeqEqual DEF Name
<1>8. n = s => Len(n) = k + Len(b) + 2
  BY <1>5
<1> QED
  BY <1>6, <1>7, <1>8 DEF Positions, s, sb, sl, tl

(* A part of a name is a name.                                            *)
LEMMA PartOfName ==
    ASSUME NEW name \in Name, NEW m \in Nat \ {0}, NEW n \in Nat,
           n <= Len(name), m <= n + 1
    PROVE  /\ SubSeq(name, m, n) \in Name
           /\ Len(SubSeq(name, m, n)) = n - m + 1
           /\ \A i \in 1..(n - m + 1) : SubSeq(name, m, n)[i] = name[m + i - 1]
<1>1. \A i \in m..n : name[i] \in Word
  <2>1. \A i \in m..n : i \in 1..Len(name)
    BY DEF Name
  <2> QED
    BY <2>1, ElementOfSeq DEF Name
<1>2. /\ SubSeq(name, m, n) \in Seq(Word)
      /\ Len(SubSeq(name, m, n)) = IF m <= n THEN n - m + 1 ELSE 0
      /\ \A i \in 1..(n - m + 1) : SubSeq(name, m, n)[i] = name[m + i - 1]
  BY <1>1, SubSeqProperties
<1> QED
  BY <1>2 DEF Name

(* A name cut at its last hyphen says its two parts.                      *)
LEMMA CutIsSaid ==
    ASSUME NEW name \in Name, NEW pol \in Policies
    PROVE  Parsed(name).h # 0 /\ Parsed(name).suffix = <<pol>>
              => Parsed(name).bucket \in Name /\ Says(name, Parsed(name).bucket, pol)
<1> DEFINE L == Len(name)
           g == TrimLeft(name)
           h == LastHyphen(g)
           b == SubSeq(g, 1, h - 1)
           suffix == SubSeq(g, h + 1, Len(g))
<1>1. Parsed(name).h = h /\ Parsed(name).bucket = b /\ Parsed(name).suffix = suffix
  BY DEF Parsed
<1>2. ASSUME Parsed(name).h # 0 /\ Parsed(name).suffix = <<pol>>
      PROVE  b \in Name /\ Says(name, b, pol)
  <2>1. L \in Nat
    BY DEF Name
  <2>2. PICK k \in 0..L : g = SubSeq(name, k + 1, L) /\ \A i \in 1..k : name[i] = "/"
    BY TrimLeftTakesSlashes
  <2>3. h # 0 /\ suffix = <<pol>>
    BY <1>1, <1>2
  <2> HIDE DEF suffix, b, h, g
  <2>5. g \in Name /\ Len(g) = L - k /\ \A i \in 1..(L - k) : g[i] = name[k + i]
    <3>1. k + 1 \in Nat \ {0} /\ k + 1 <= L + 1 /\ L - (k + 1) + 1 = L - k
      BY <2>1
    <3>2. /\ g \in Name /\ Len(g) = L - k
          /\ \A i \in 1..(L - k) : g[i] = name[(k + 1) + i - 1]
      <4>1. g = SubSeq(name, k + 1, L) /\ L <= Len(name)
        BY <2>1, <2>2
      <4> QED
        BY <2>1, <3>1, <4>1, PartOfName
    <3>3. \A i \in 1..(L - k) : (k + 1) + i - 1 = k + i
      BY <2>1
    <3> QED
      BY <3>2, <3>3
  <2>6. h \in 1..Len(g) /\ g[h] = "-" /\ Len(g) \in Nat
    BY <2>1, <2>3, <2>5, LastHyphenIsLast DEF h
  <2>7. Len(g) = h + 1 /\ g[h + 1] = pol
    <3>1. h + 1 \in Nat \ {0} /\ h + 1 <= Len(g) + 1
      BY <2>6
    <3>2. /\ Len(suffix) = Len(g) - (h + 1) + 1
          /\ \A i \in 1..(Len(g) - (h + 1) + 1) : suffix[i] = g[(h + 1) + i - 1]
      <4>1. g \in Name /\ Len(g) \in Nat /\ Len(g) <= Len(g)
        BY <2>5, <2>6
      <4> QED
        BY <3>1, <4>1, PartOfName DEF suffix
    <3>3. Len(suffix) = 1 /\ suffix[1] = pol
      BY <2>3
    <3>4. Len(g) = h + 1
      <4>1. Len(g) - (h + 1) + 1 = 1
        BY <3>2, <3>3, Zenon
      <4>2. h \in Nat /\ Len(g) \in Nat
        BY <2>6
      <4> QED
        BY <4>1, <4>2
    <3>5. 1 \in 1..(Len(g) - (h + 1) + 1) /\ (h + 1) + 1 - 1 = h + 1
      BY <2>6, <3>4
    <3> QED
      BY <3>2, <3>3, <3>4, <3>5
  <2>8. b \in Name /\ Len(b) = h - 1 /\ \A i \in 1..(h - 1) : b[i] = g[i]
    <3>1. h - 1 \in Nat /\ h - 1 <= Len(g) /\ 1 <= (h - 1) + 1 /\ (h - 1) - 1 + 1 = h - 1
      BY <2>6
    <3>2. /\ b \in Name /\ Len(b) = h - 1
          /\ \A i \in 1..(h - 1) : b[i] = g[1 + i - 1]
      BY <2>5, <3>1, PartOfName DEF b
    <3>3. \A i \in 1..(h - 1) : 1 + i - 1 = i
      BY <3>1
    <3> QED
      BY <3>2, <3>3
  <2>9. name = [j \in 1..k |-> "/"] \o b \o <<"-", pol>>
    <3>1. L = k + Len(b) + 2
      <4>1. L - k = h + 1 /\ Len(b) = h - 1
        BY <2>5, <2>7, <2>8, Zenon
      <4>2. h \in Nat /\ k \in Nat
        BY <2>1, <2>6
      <4> QED
        BY <2>1, <4>1, <4>2
    <3>2. ASSUME NEW i \in 1..Len(b) PROVE name[k + i] = b[i]
      <4>1. i \in 1..(h - 1) /\ i \in 1..(L - k)
        BY <2>1, <2>5, <2>6, <2>7, <2>8
      <4> QED
        BY <2>5, <2>8, <4>1
    <3>3. name[k + Len(b) + 1] = "-"
      <4>1. h \in 1..(L - k) /\ k + h = k + Len(b) + 1
        BY <2>5, <2>6, <2>8
      <4> QED
        BY <2>5, <2>6, <4>1
    <3>4. name[k + Len(b) + 2] = pol
      <4>1. h + 1 \in 1..(L - k) /\ k + (h + 1) = k + Len(b) + 2
        BY <2>5, <2>6, <2>7, <2>8
      <4> QED
        BY <2>5, <2>7, <4>1
    <3> QED
      <4>1. k \in Nat /\ b \in Name /\ \A i \in 1..k : name[i] = "/"
        BY <2>1, <2>2, <2>8
      <4>2. Positions(name, b, pol, k)
        BY <3>1, <3>2, <3>3, <3>4, <4>1, Zenon DEF Positions
      <4> QED
        BY <4>1, <4>2, SaysByPosition
  <2> QED
    BY <2>8, <2>9 DEF Says
<1> QED
  BY <1>1, <1>2

(* parseGroup accepts nothing but <bucket>-<policy> ...                   *)
LEMMA ParsedIsSaid ==
    ASSUME NEW name \in Name, parseGroup(name).ok
    PROVE  /\ parseGroup(name).bucket \in Name
           /\ Says(name, parseGroup(name).bucket, parseGroup(name).policy)
<1>1. PICK pol \in Policies : Parsed(name).h # 0 /\ Parsed(name).suffix = <<pol>>
  BY DEF parseGroup
<1>2. parseGroup(name).bucket = Parsed(name).bucket /\ parseGroup(name).policy = pol
  BY <1>1 DEF parseGroup
<1> QED
  BY <1>1, <1>2, CutIsSaid

(* ... and everything that is, for a bucket that is not empty and does    *)
(* not begin with a slash (no segment of a path contains one).            *)
LEMMA SaidIsParsed ==
    ASSUME NEW name \in Name, NEW b \in Name, b # <<>>, b[1] # "/",
           NEW pol \in Policies, Says(name, b, pol)
    PROVE  /\ parseGroup(name).ok
           /\ parseGroup(name).bucket = b
           /\ parseGroup(name).policy = pol
<1> DEFINE L == Len(name)
           g == TrimLeft(name)
           h == LastHyphen(g)
           bucket == SubSeq(g, 1, h - 1)
           suffix == SubSeq(g, h + 1, Len(g))
<1>1. L \in Nat /\ Len(b) \in Nat \ {0}
  BY EmptySeq DEF Name
<1>2. PICK k \in 0..L : name = [j \in 1..k |-> "/"] \o b \o <<"-", pol>>
  BY DEF Says
<1>3. /\ L = k + Len(b) + 2
      /\ \A i \in 1..k : name[i] = "/"
      /\ \A i \in 1..Len(b) : name[k + i] = b[i]
      /\ name[k + Len(b) + 1] = "-"
      /\ name[k + Len(b) + 2] = pol
  BY <1>1, <1>2, SaysByPosition DEF Positions
<1>4. g = SubSeq(name, k + 1, L)
  <2>1. PICK q \in 0..L : /\ g = SubSeq(name, q + 1, L)
                          /\ \A i \in 1..q : name[i] = "/"
                          /\ q < L => name[q + 1] # "/"
    BY TrimLeftTakesSlashes
  <2>2. name[k + 1] # "/"
    BY <1>1, <1>3
  <2>3. ~(q < k)
    <3>1. q < k => q + 1 \in 1..k /\ q < L
      BY <1>1
    <3> QED
      BY <1>3, <2>1, <3>1
  <2>4. ~(k < q)
    <3>1. k < q => k + 1 \in 1..q
      BY <1>1
    <3> QED
      BY <2>1, <2>2, <3>1
  <2>5. q = k
    BY <1>1, <2>3, <2>4
  <2> QED
    BY <2>1, <2>5
<1> HIDE DEF g
<1>5. g \in Name /\ Len(g) = Len(b) + 2 /\ \A i \in 1..(Len(b) + 2) : g[i] = name[k + i]
  <2>1. k + 1 \in Nat \ {0} /\ k + 1 <= L + 1 /\ L - (k + 1) + 1 = Len(b) + 2
    BY <1>1, <1>3
  <2>2. /\ g \in Name /\ Len(g) = Len(b) + 2
        /\ \A i \in 1..(Len(b) + 2) : g[i] = name[(k + 1) + i - 1]
    BY <1>1, <1>4, <2>1, PartOfName
  <2>3. \A i \in 1..(Len(b) + 2) : (k + 1) + i - 1 = k + i
    BY <1>1
  <2> QED
    BY <2>2, <2>3
<1>6. g[Len(b) + 1] = "-" /\ g[Len(b) + 2] = pol
  <2>1. /\ Len(b) + 1 \in 1..(Len(b) + 2) /\ k + (Len(b) + 1) = k + Len(b) + 1
        /\ Len(b) + 2 \in 1..(Len(b) + 2) /\ k + (Len(b) + 2) = k + Len(b) + 2
    BY <1>1
  <2> QED
    BY <1>3, <1>5, <2>1
<1>7. h = Len(b) + 1
  <2>1. /\ h \in 0..Len(g)
        /\ h # 0 => g[h] = "-"
        /\ \A i \in 1..Len(g) : g[i] = "-" => i <= h
    BY <1>5, LastHyphenIsLast
  <2> HIDE DEF h
  <2>2. Len(b) + 1 <= h
    <3>1. Len(b) + 1 \in 1..Len(g)
      BY <1>1, <1>5
    <3> QED
      BY <1>6, <2>1, <3>1
  <2>3. h # Len(b) + 2
    <3>1. pol # "-"
      BY DEF Policies
    <3> QED
      BY <1>1, <1>6, <2>1, <3>1
  <2> QED
    BY <1>1, <1>5, <2>1, <2>2, <2>3
<1> HIDE DEF h
<1>8. bucket = b
  <2>1. h - 1 = Len(b) /\ Len(b) <= Len(g) /\ 1 <= Len(b) + 1 /\ Len(b) - 1 + 1 = Len(b)
    BY <1>1, <1>5, <1>7
  <2>2. /\ SubSeq(g, 1, Len(b)) \in Name /\ Len(SubSeq(g, 1, Len(b))) = Len(b)
        /\ \A i \in 1..Len(b) : SubSeq(g, 1, Len(b))[i] = g[1 + i - 1]
    BY <1>1, <1>5, <2>1, PartOfName
  <2>3. \A i \in 1..Len(b) : SubSeq(g, 1, Len(b))[i] = b[i]
    <3>1. \A i \in 1..Len(b) : 1 + i - 1 = i /\ i \in 1..(Len(b) + 2)
      BY <1>1
    <3> QED
      BY <1>3, <1>5, <2>2, <3>1
  <2>4. SubSeq(g, 1, Len(b)) = b
    BY <2>2, <2>3, SeqEqual DEF Name
  <2> QED
    BY <2>1, <2>4
<1>9. suffix = <<pol>>
  <2>1. /\ h + 1 = Len(b) + 2 /\ Len(g) = Len(b) + 2
        /\ Len(b) + 2 \in Nat \ {0} /\ Len(b) + 2 <= Len(b) + 2 + 1
        /\ Len(b) + 2 - (Len(b) + 2) + 1 = 1 /\ Len(b) + 2 + 1 - 1 = Len(b) + 2
    BY <1>1, <1>5, <1>7
  <2>2. /\ suffix \in Name /\ Len(suffix) = 1
        /\ \A i \in 1..1 : suffix[i] = g[Len(b) + 2 + i - 1]
    BY <1>5, <2>1, PartOfName
  <2>3. suffix[1] = pol
    BY <1>6, <2>1, <2>2
  <2>4. <<pol>> \in Name /\ Len(<<pol>>) = 1
    <3>1. pol \in Word
      BY DEF Word
    <3> QED
      BY <3>1 DEF Name
  <2> HIDE DEF suffix
  <2> QED
    BY <2>2, <2>3, <2>4, SeqEqual DEF Name
<1>10. Parsed(name) = [h |-> h, bucket |-> b, suffix |-> <<pol>>]
  BY <1>8, <1>9 DEF Parsed, g, h
<1>11. h # 0
  BY <1>1, <1>7
<1> QED
  BY <1>10, <1>11 DEF parseGroup

(* How many slashes a name begins with is bounded by its length.          *)
LEMMA SaysSomewhere ==
    ASSUME NEW n \in Name, NEW b \in Name, NEW pol \in Policies
    PROVE  Says(n, b, pol) <=> \E k \in Nat : Positions(n, b, pol, k)
<1>1. Len(n) \in Nat /\ Len(b) \in Nat
  BY DEF Name
<1>2. ASSUME NEW k \in Nat, Positions(n, b, pol, k) PROVE k \in 0..Len(n)
  BY <1>1, <1>2 DEF Positions
<1>3. ASSUME Says(n, b, pol) PROVE \E k \in Nat : Positions(n, b, pol, k)
  <2>1. PICK k \in 0..Len(n) : n = [j \in 1..k |-> "/"] \o b \o <<"-", pol>>
    BY <1>3 DEF Says
  <2>2. k \in Nat
    BY <1>1
  <2> QED
    BY <2>1, <2>2, SaysByPosition
<1>4. ASSUME NEW k \in Nat, Positions(n, b, pol, k) PROVE Says(n, b, pol)
  <2>1. n = [j \in 1..k |-> "/"] \o b \o <<"-", pol>>
    BY <1>4, SaysByPosition
  <2> QED
    BY <1>2, <1>4, <2>1, Zenon DEF Says
<1> QED
  BY <1>3, <1>4

(* One leading slash more or less says nothing else.                      *)
LEMMA StrippedSaysTheSame ==
    ASSUME NEW n \in Name, NEW b \in Name, NEW pol \in Policies
    PROVE  /\ stripLeadingSlash(n) \in Name
           /\ Says(stripLeadingSlash(n), b, pol) => Says(n, b, pol)
           /\ Says(n, b, pol) /\ b # <<>> /\ b[1] # "/"
                 => Says(stripLeadingSlash(n), b, pol)
<1>0. Len(n) \in Nat /\ Len(b) \in Nat
  BY DEF Name
<1>1. CASE ~(n # <<>> /\ n[1] = "/")
  BY <1>1 DEF stripLeadingSlash
<1>2. CASE n # <<>> /\ n[1] = "/"
  <2> DEFINE u == Tail(n)
  <2>1. stripLeadingSlash(n) = u
    BY <1>2 DEF stripLeadingSlash
  <2>2. u \in Name /\ Len(u) = Len(n) - 1 /\ \A i \in 1..Len(u) : u[i] = n[i + 1]
    BY <1>2, HeadTailProperties DEF Name
  <2>3. Len(n) >= 1
    BY <1>0, <1>2, EmptySeq DEF Name
  <2> HIDE DEF u
  <2>4. ASSUME NEW k \in Nat, Positions(u, b, pol, k) PROVE Positions(n, b, pol, k + 1)
    <3>1. Len(n) = (k + 1) + Len(b) + 2 /\ Len(u) = k + Len(b) + 2
      <4>1. Len(u) = Len(n) - 1 /\ Len(u) = k + Len(b) + 2
        BY <2>2, <2>4 DEF Positions
      <4>2. Len(n) - 1 = k + Len(b) + 2
        BY <4>1, Zenon
      <4> QED
        BY <1>0, <4>1, <4>2
    <3>2. ASSUME NEW i \in 1..(k + 1) PROVE n[i] = "/"
      <4>1. CASE i = 1
        BY <1>2, <4>1
      <4>2. CASE i > 1
        <5>1. i - 1 \in 1..k /\ i - 1 \in 1..Len(u) /\ (i - 1) + 1 = i
          BY <1>0, <3>1, <4>2
        <5> QED
          BY <2>2, <2>4, <5>1 DEF Positions
      <4> QED
        BY <4>1, <4>2
    <3>3. ASSUME NEW i \in 1..Len(b) PROVE n[(k + 1) + i] = b[i]
      <4>1. k + i \in 1..Len(u) /\ (k + i) + 1 = (k + 1) + i
        BY <1>0, <3>1
      <4> QED
        BY <2>2, <2>4, <4>1 DEF Positions
    <3>4. n[(k + 1) + Len(b) + 1] = "-" /\ n[(k + 1) + Len(b) + 2] = pol
      <4>1. /\ k + Len(b) + 1 \in 1..Len(u)
            /\ (k + Len(b) + 1) + 1 = (k + 1) + Len(b) + 1
            /\ k + Len(b) + 2 \in 1..Len(u)
            /\ (k + Len(b) + 2) + 1 = (k + 1) + Len(b) + 2
        BY <1>0, <3>1
      <4> QED
        BY <2>2, <2>4, <4>1 DEF Positions
    <3> QED
      BY <3>1, <3>2, <3>3, <3>4 DEF Positions
  <2>5. ASSUME NEW k \in Nat, Positions(n, b, pol, k), b # <<>>, b[1] # "/"
        PROVE  k - 1 \in Nat /\ Positions(u, b, pol, k - 1)
    <3>1. Len(b) >= 1
      BY <1>0, <2>5, EmptySeq DEF Name
    <3>2. k # 0
      BY <1>2, <2>5, <3>1 DEF Positions
    <3>3. Len(n) = k + Len(b) + 2 /\ Len(u) = (k - 1) + Len(b) + 2
      BY <1>0, <2>2, <2>5 DEF Positions
    <3>4. ASSUME NEW i \in 1..(k - 1) PROVE u[i] = "/"
      <4>1. i \in 1..Len(u) /\ i + 1 \in 1..k
        BY <1>0, <3>2, <3>3
      <4> QED
        BY <2>2, <2>5, <4>1 DEF Positions
    <3>5. ASSUME NEW i \in 1..Len(b) PROVE u[(k - 1) + i] = b[i]
      <4>1. (k - 1) + i \in 1..Len(u) /\ ((k - 1) + i) + 1 = k + i
        BY <1>0, <3>2, <3>3
      <4> QED
        BY <2>2, <2>5, <4>1 DEF Positions
    <3>6. u[(k - 1) + Len(b) + 1] = "-" /\ u[(k - 1) + Len(b) + 2] = pol
      <4>1. /\ (k - 1) + Len(b) + 1 \in 1..Len(u)
            /\ ((k - 1) + Len(b) + 1) + 1 = k + Len(b) + 1
            /\ (k - 1) + Len(b) + 2 \in 1..Len(u)
            /\ ((k - 1) + Len(b) + 2) + 1 = k + Len(b) + 2
        BY <1>0, <3>2, <3>3
      <4> QED
        BY <2>2, <2>5, <4>1 DEF Positions
    <3> QED
      BY <3>2, <3>3, <3>4, <3>5, <3>6 DEF Positions
  <2> QED
    BY <2>1, <2>2, <2>4, <2>5, SaysSomewhere
<1> QED
  BY <1>1, <1>2

(* What a policy of the table grants.                                     *)
LEMMA PolicyGrants ==
    ASSUME NEW pol \in Policies, NEW m
    PROVE  methodGranted(validPolicies[pol], m) <=>
              \/ m \in {"GET", "HEAD", "OPTIONS"} /\ pol \in {"ro", "rw"}
              \/ m \in {"PUT", "POST"} /\ pol \in {"rw", "wo"}
              \/ m = "DELETE" /\ pol = "rw"
  BY DEF methodGranted, validPolicies, Policies

(* The claims of a token are names.                                       *)
LEMMA ClaimsAreNames ==
    ASSUME NEW t \in Tokens
    PROVE  TokenOf[t].claims.groups \cup TokenOf[t].claims.roles \subseteq Name
<1>1. STRING \subseteq Word
  BY DEF Word
<1> QED
  BY <1>1, GatewayAssumption, SeqMonotonic DEF Name

(* CheckAccess grants nothing the names of the groups do not say          *)
(* (ExtractGroups, parseGroup and the policy table taken together) ...    *)
LEMMA GrantedIsEntitled ==
    ASSUME NEW t \in Tokens, NEW b, NEW m, CheckAccess(Groups(t), b, m)
    PROVE  Entitled(t, b, m)
<1>1. PICK g \in Groups(t) :
         /\ parseGroup(g).ok
         /\ parseGroup(g).bucket = b \/ parseGroup(g).bucket = WildcardBucket
         /\ methodGranted(validPolicies[parseGroup(g).policy], m)
  BY DEF CheckAccess
<1>2. PICK n \in TokenOf[t].claims.groups \cup TokenOf[t].claims.roles :
         g = stripLeadingSlash(n)
  BY DEF Groups, ExtractGroups
<1> DEFINE pol == parseGroup(g).policy
           bucket == parseGroup(g).bucket
<1>3. n \in Name
  BY ClaimsAreNames
<1>4. g \in Name
  <2>1. \E p \in Policies : TRUE
    BY DEF Policies
  <2> QED
    BY <1>2, <1>3, <2>1, StrippedSaysTheSame
<1>5. pol \in Policies /\ bucket \in Name /\ Says(g, bucket, pol)
  BY <1>1, <1>4, ParsedIsSaid, ParsedPolicy
<1> HIDE DEF pol, bucket
<1>6. Says(n, bucket, pol)
  BY <1>2, <1>3, <1>5, StrippedSaysTheSame
<1>7. bucket = b \/ bucket = WildcardBucket
  BY <1>1 DEF bucket
<1>8. methodGranted(validPolicies[pol], m)
  BY <1>1 DEF pol
<1> QED
  BY <1>5, <1>6, <1>7, <1>8, PolicyGrants DEF Entitled

(* ... and everything they say, for any bucket name a path can hold.      *)
LEMMA EntitledIsGranted ==
    ASSUME NEW t \in Tokens, NEW b \in Name, b # <<>>, b[1] # "/", NEW m,
           Entitled(t, b, m)
    PROVE  CheckAccess(Groups(t), b, m)
<1>1. PICK n \in TokenOf[t].claims.groups \cup TokenOf[t].claims.roles, pol \in Policies :
         /\ Says(n, b, pol) \/ Says(n, WildcardBucket, pol)
         /\ methodGranted(validPolicies[pol], m)
  BY PolicyGrants DEF Entitled
<1>2. n \in Name
  BY ClaimsAreNames
<1>3. WildcardBucket \in Name /\ WildcardBucket # <<>> /\ WildcardBucket[1] # "/"
  BY DEF WildcardBucket, Name, Word
<1>4. PICK c \in {b, WildcardBucket} : Says(n, c, pol)
  BY <1>1
<1>5. c \in Name /\ c # <<>> /\ c[1] # "/"
  BY <1>3
<1> DEFINE g == stripLeadingSlash(n)
<1>6. g \in Groups(t)
  BY DEF Groups, ExtractGroups
<1>7. g \in Name /\ Says(g, c, pol)
  BY <1>2, <1>4, <1>5, StrippedSaysTheSame
<1> HIDE DEF g
<1>8. parseGroup(g).ok /\ parseGroup(g).bucket = c /\ parseGroup(g).policy = pol
  BY <1>5, <1>7, SaidIsParsed
<1> QED
  BY <1>1, <1>4, <1>6, <1>8 DEF CheckAccess

(* The access check grants what the names of a token's groups say, and    *)
(* nothing else: parseGroup, ExtractGroups and the policy table agree     *)
(* with the convention <bucket>-<policy> for names of any length.         *)
THEOREM AccessIsEntitlement ==
    ASSUME NEW t \in Tokens, NEW b \in Name, b # <<>>, b[1] # "/", NEW m
    PROVE  CheckAccess(Groups(t), b, m) <=> Entitled(t, b, m)
  BY GrantedIsEntitled, EntitledIsGranted

----------------------------------------------------------------------------

(* A path without a key, as the backend reads it, is a whole bucket as    *)
(* the gateway reads it; the converse does not hold.                      *)
LEMMA NoKeyIsWhole ==
    ASSUME NEW path, NoKey(path)
    PROVE  WholeBucket(path)
<1>1. Segments(path) \subseteq {1}
  BY DEF Segments, NoKey
<1>2. IsFiniteSet({1}) /\ Cardinality({1}) = 1
  BY FS_Singleton
<1>3. Cardinality(Segments(path)) \in Nat /\ Cardinality(Segments(path)) <= 1
  BY <1>1, <1>2, FS_Subset, FS_CardinalityType
<1> QED
  BY <1>3 DEF WholeBucket

(* A request for an object as the backend reads it, or one that only      *)
(* reads; and parameters that are not on the gateway's list.              *)
Harmless(method, path) ==
    path # <<>> /\ ~(NoKey(path) /\ method \in {"PUT", "DELETE", "POST"})

Unlisted(params) == \A p \in params : ToLower(p) \notin adminSubResources

(* What IsAdminOperation lets pass, on the URI written from the URL, is   *)
(* harmless on the URL itself: once the bucket is known not to be empty   *)
(* the two readings are one.                                              *)
LEMMA AdminCheckCarriesOver ==
    ASSUME NEW i, pathBucket(i.url.path) # <<>>,
           ~IsAdminOperation(i.method, RequestURI(i.url))
    PROVE  Harmless(i.method, i.url.path) /\ Unlisted(Query(i.url.pairs))
<1>1. i.url.path # <<>> /\ i.url.path[1] # <<>>
  BY DEF pathBucket
<1>2. RequestURI(i.url).path = i.url.path /\ RequestURI(i.url).pairs = i.url.pairs
  BY <1>1 DEF RequestURI
<1> QED
  BY <1>1, <1>2, NoKeyIsWhole DEF IsAdminOperation, Harmless, Unlisted

(* So is what the UI's handlers call, by their routes and checks.         *)
LEMMA UiCallHarmless ==
    ASSUME NEW i, UiRouted(i), i.url.path # <<>>, ~NamesMissing(i.url.path)
    PROVE  /\ Harmless(SdkCall(i).method, SdkCall(i).path)
           /\ Unlisted(SdkCall(i).params)
           /\ pathBucket(i.url.path) # <<>>
  BY DEF UiRouted, NamesMissing, SdkCall, UiMethod, Harmless, Unlisted, NoKey, pathBucket

PcType ==
    /\ pc \in [Requests -> {"idle", "s3", "ui", "s3list", "uilist", "forward",
                            "sent", "answered", "done"}]
    /\ DOMAIN in = Requests /\ DOMAIN wire = Requests /\ DOMAIN out = Requests
    /\ DOMAIN arrived = Requests

(* A request keeps to the door it came through, and the UI's bucket list  *)
(* is never turned into a call on a bucket.                               *)
KeepsDoor ==
    \A r \in Requests :
        /\ pc[r] = "idle" => in[r] = NoInput /\ out[r].status = 0
        /\ pc[r] \in {"ui", "uilist"} => in[r] \in Inputs /\ in[r].door = "ui"
        /\ pc[r] \in {"s3", "s3list", "forward"} => in[r].door = "s3"
        /\ pc[r] = "uilist" => pathBucket(in[r].url.path) = <<>>
        /\ pc[r] \in {"sent", "answered"} /\ in[r].door = "ui"
              => pathBucket(in[r].url.path) # <<>>

(* What is about to be sent, or is on the wire, administers no bucket.    *)
NothingAdministers ==
    \A r \in Requests :
        /\ pc[r] = "forward" => /\ Harmless(in[r].method, in[r].url.path)
                                /\ Unlisted(Query(in[r].url.pairs))
        /\ pc[r] = "sent" => /\ Harmless(wire[r].method, wire[r].path)
                             /\ Unlisted(wire[r].params)

BucketsKept == buckets = InitBuckets

(* A delivered bucket list is the one computed from the token's groups.   *)
ListingComputed ==
    \A r \in Requests :
        /\ in[r].door = "ui" /\ pc[r] = "done" /\ out[r].status = 200
        /\ pathBucket(in[r].url.path) = <<>> /\ backend
        => out[r].listing = UiListing(Groups(TokenUsed(r)), buckets)

(* The inductive invariant.                                               *)
GInv ==
    /\ PcType
    /\ KeepsDoor
    /\ NothingAdministers
    /\ BucketsKept
    /\ ListingComputed

(* The inductive invariant holds in every reachable state.                *)
THEOREM Inductive == Spec => []GInv
<1>1. Init => GInv
  <2> SUFFICES ASSUME Init PROVE GInv
    OBVIOUS
  <2>1. \A r \in Requests : pc[r] = "idle" /\ in[r] = NoInput /\ wire[r] = NoWire
                             /\ out[r] = Answered(0)
    BY DEF Init
  <2>2. PcType
    BY DEF Init, PcType
  <2>3. KeepsDoor
    BY <2>1 DEF KeepsDoor, Answered
  <2>4. NothingAdministers
    BY <2>1 DEF NothingAdministers
  <2>5. BucketsKept
    BY DEF Init, BucketsKept
  <2>7. ListingComputed
    BY <2>1 DEF ListingComputed
  <2> QED
    BY <2>2, <2>3, <2>4, <2>5, <2>7 DEF GInv
<1>2. GInv /\ [Next]_vars => GInv'
  <2> SUFFICES ASSUME GInv, [Next]_vars PROVE GInv'
    OBVIOUS
  <2> USE GatewayAssumption DEF GInv
  <2>1. ASSUME NEW r \in Requests, Receive(r) PROVE GInv'
    <3>1. PcType'
      BY <2>1 DEF Receive, Goto, Reply, external, asked, Answered, PcType
    <3>2. KeepsDoor'
      BY <2>1 DEF Receive, Goto, Reply, external, asked, Answered, KeepsDoor, PcType
    <3>3. NothingAdministers'
      BY <2>1 DEF Receive, Goto, Reply, external, asked, Answered, NothingAdministers, PcType, KeepsDoor
    <3>4. BucketsKept'
      BY <2>1 DEF Receive, Goto, Reply, external, asked, Answered, BucketsKept, PcType
    <3>6. ListingComputed'
      BY <2>1 DEF Receive, Goto, Reply, external, asked, Answered, ListingComputed, PcType, KeepsDoor, TokenUsed
    <3> QED
      BY <3>1, <3>2, <3>3, <3>4, <3>6
  <2>2. ASSUME NEW r \in Requests, S3Decide(r) PROVE GInv'
    <3>1. PcType'
      BY <2>2 DEF S3Decide, Goto, Reply, external, asked, Answered, PcType
    <3>2. KeepsDoor'
      BY <2>2 DEF S3Decide, Goto, Reply, external, asked, Answered, KeepsDoor, PcType
    <3>3. NothingAdministers'
      <4>1. in' = in /\ \A s \in Requests \ {r} : pc'[s] = pc[s] /\ wire'[s] = wire[s]
        BY <2>2 DEF asked, S3Decide, Goto, Reply, PcType
      <4>2. pc'[r] # "sent"
        BY <2>2 DEF S3Decide, Goto, Reply, PcType
      <4>3. pc'[r] = "forward" =>
               /\ pathBucket(in[r].url.path) # <<>>
               /\ ~IsAdminOperation(in[r].method, RequestURI(in[r].url))
        BY <2>2 DEF S3Decide, Goto, Reply, PcType
      <4> QED
        BY <4>1, <4>2, <4>3, AdminCheckCarriesOver DEF NothingAdministers
    <3>4. BucketsKept'
      BY <2>2 DEF S3Decide, Goto, Reply, external, asked, Answered, BucketsKept, PcType
    <3>6. ListingComputed'
      BY <2>2 DEF S3Decide, Goto, Reply, external, asked, Answered, ListingComputed, PcType, KeepsDoor, TokenUsed
    <3> QED
      BY <3>1, <3>2, <3>3, <3>4, <3>6
  <2>3. ASSUME NEW r \in Requests, S3ListBuckets(r) PROVE GInv'
    <3>1. PcType'
      BY <2>3 DEF S3ListBuckets, Goto, Reply, external, asked, Answered, PcType
    <3>2. KeepsDoor'
      BY <2>3 DEF S3ListBuckets, Goto, Reply, external, asked, Answered, KeepsDoor, PcType
    <3>3. NothingAdministers'
      BY <2>3 DEF S3ListBuckets, Goto, Reply, external, asked, Answered, NothingAdministers, PcType, KeepsDoor
    <3>4. BucketsKept'
      BY <2>3 DEF S3ListBuckets, Goto, Reply, external, asked, Answered, BucketsKept, PcType
    <3>6. ListingComputed'
      BY <2>3 DEF S3ListBuckets, Goto, Reply, external, asked, Answered, ListingComputed, PcType, KeepsDoor, TokenUsed
    <3> QED
      BY <3>1, <3>2, <3>3, <3>4, <3>6
  <2>4. ASSUME NEW r \in Requests, Forward(r) PROVE GInv'
    <3>1. PcType'
      BY <2>4 DEF Forward, Goto, Reply, external, asked, Answered, PcType
    <3>2. KeepsDoor'
      BY <2>4 DEF Forward, Goto, Reply, external, asked, Answered, KeepsDoor, PcType
    <3>3. NothingAdministers'
      BY <2>4 DEF Forward, Goto, Reply, external, asked, Answered, NothingAdministers, PcType, KeepsDoor, Outbound
    <3>4. BucketsKept'
      BY <2>4 DEF Forward, Goto, Reply, external, asked, Answered, BucketsKept, PcType
    <3>6. ListingComputed'
      BY <2>4 DEF Forward, Goto, Reply, external, asked, Answered, ListingComputed, PcType, KeepsDoor, TokenUsed
    <3> QED
      BY <3>1, <3>2, <3>3, <3>4, <3>6
  <2>5. ASSUME NEW r \in Requests, UiDecide(r) PROVE GInv'
    <3>1. PcType'
      BY <2>5 DEF UiDecide, Goto, Reply, external, asked, Answered, PcType
    <3>2. KeepsDoor'
      BY <2>5, UiCallHarmless DEF pathBucket, UiDecide, Goto, Reply, external, asked, Answered, KeepsDoor, PcType
    <3>3. NothingAdministers'
      <4>1. pc'[r] = "sent" =>
               /\ UiRouted(in[r]) /\ in[r].url.path # <<>> /\ ~NamesMissing(in[r].url.path)
               /\ wire'[r] = SdkCall(in[r])
        BY <2>5 DEF UiDecide, Goto, Reply, PcType
      <4>2. pc'[r] # "forward"
        BY <2>5 DEF UiDecide, Goto, Reply, PcType
      <4>3. in' = in /\ \A s \in Requests \ {r} : pc'[s] = pc[s] /\ wire'[s] = wire[s]
        BY <2>5 DEF asked, UiDecide, Goto, Reply, PcType
      <4> QED
        BY <4>1, <4>2, <4>3, UiCallHarmless DEF NothingAdministers
    <3>4. BucketsKept'
      BY <2>5 DEF UiDecide, Goto, Reply, external, asked, Answered, BucketsKept, PcType
    <3>6. ListingComputed'
      BY <2>5 DEF UiDecide, Goto, Reply, external, asked, Answered, ListingComputed, PcType, KeepsDoor, TokenUsed
    <3> QED
      BY <3>1, <3>2, <3>3, <3>4, <3>6
  <2>6. ASSUME NEW r \in Requests, UiListBuckets(r) PROVE GInv'
    <3>1. PcType'
      BY <2>6 DEF UiListBuckets, Goto, Reply, external, asked, Answered, PcType
    <3>2. KeepsDoor'
      BY <2>6 DEF UiListBuckets, Goto, Reply, external, asked, Answered, KeepsDoor, PcType
    <3>3. NothingAdministers'
      BY <2>6 DEF UiListBuckets, Goto, Reply, external, asked, Answered, NothingAdministers, PcType, KeepsDoor
    <3>4. BucketsKept'
      BY <2>6 DEF UiListBuckets, Goto, Reply, external, asked, Answered, BucketsKept, PcType
    <3>6. ListingComputed'
      BY <2>6 DEF UiListBuckets, Goto, Reply, external, asked, Answered, ListingComputed, PcType, KeepsDoor, TokenUsed, Listed
    <3> QED
      BY <3>1, <3>2, <3>3, <3>4, <3>6
  <2>7. ASSUME NEW r \in Requests, BackendExecutes(r) PROVE GInv'
    <3>1. PcType'
      BY <2>7 DEF BackendExecutes, Goto, Reply, external, asked, Answered, PcType
    <3>2. KeepsDoor'
      BY <2>7 DEF BackendExecutes, Goto, Reply, external, asked, Answered, KeepsDoor, PcType
    <3>3. NothingAdministers'
      BY <2>7 DEF BackendExecutes, Goto, Reply, external, asked, Answered, NothingAdministers, PcType, KeepsDoor
    <3>4. BucketsKept'
      BY <2>7 DEF BackendExecutes, Goto, Reply, external, asked, Answered, BucketsKept, PcType, Execute, Harmless, NothingAdministers
    <3>6. ListingComputed'
      <4>1. buckets' = buckets
        BY <3>4 DEF BucketsKept
      <4> QED
        BY <2>7, <4>1 DEF asked, BackendExecutes, Goto, ListingComputed, PcType, TokenUsed
    <3> QED
      BY <3>1, <3>2, <3>3, <3>4, <3>6
  <2>8. ASSUME NEW r \in Requests, BackendRefuses(r) PROVE GInv'
    <3>1. PcType'
      BY <2>8 DEF BackendRefuses, Goto, Reply, external, asked, Answered, PcType
    <3>2. KeepsDoor'
      BY <2>8 DEF BackendRefuses, Goto, Reply, external, asked, Answered, KeepsDoor, PcType
    <3>3. NothingAdministers'
      BY <2>8 DEF BackendRefuses, Goto, Reply, external, asked, Answered, NothingAdministers, PcType, KeepsDoor
    <3>4. BucketsKept'
      BY <2>8 DEF BackendRefuses, Goto, Reply, external, asked, Answered, BucketsKept, PcType
    <3>6. ListingComputed'
      BY <2>8 DEF BackendRefuses, Goto, Reply, external, asked, Answered, ListingComputed, PcType, KeepsDoor, TokenUsed
    <3> QED
      BY <3>1, <3>2, <3>3, <3>4, <3>6
  <2>9. ASSUME NEW r \in Requests, Deliver(r) PROVE GInv'
    <3>1. PcType'
      BY <2>9 DEF Deliver, Goto, Reply, external, asked, Answered, PcType
    <3>2. KeepsDoor'
      BY <2>9 DEF Deliver, Goto, Reply, external, asked, Answered, KeepsDoor, PcType
    <3>3. NothingAdministers'
      BY <2>9 DEF Deliver, Goto, Reply, external, asked, Answered, NothingAdministers, PcType, KeepsDoor
    <3>4. BucketsKept'
      BY <2>9 DEF Deliver, Goto, Reply, external, asked, Answered, BucketsKept, PcType
    <3>6. ListingComputed'
      BY <2>9 DEF Deliver, Goto, Reply, external, asked, Answered, ListingComputed, PcType, KeepsDoor, TokenUsed
    <3> QED
      BY <3>1, <3>2, <3>3, <3>4, <3>6
  <2>10. ASSUME NEW r \in Requests, RoundTripFails(r) PROVE GInv'
    <3>1. PcType'
      BY <2>10 DEF RoundTripFails, Goto, Reply, external, asked, Answered, PcType
    <3>2. KeepsDoor'
      BY <2>10 DEF RoundTripFails, Goto, Reply, external, asked, Answered, KeepsDoor, PcType
    <3>3. NothingAdministers'
      BY <2>10 DEF RoundTripFails, Goto, Reply, external, asked, Answered, NothingAdministers, PcType, KeepsDoor
    <3>4. BucketsKept'
      BY <2>10 DEF RoundTripFails, Goto, Reply, external, asked, Answered, BucketsKept, PcType
    <3>6. ListingComputed'
      BY <2>10 DEF RoundTripFails, Goto, Reply, external, asked, Answered, ListingComputed, PcType, KeepsDoor, TokenUsed
    <3> QED
      BY <3>1, <3>2, <3>3, <3>4, <3>6
  <2>11. CASE Tick
    BY <2>11 DEF asked, Tick, TokenUsed, PcType, KeepsDoor, NothingAdministers, BucketsKept, ListingComputed
  <2>12. CASE UNCHANGED vars
    BY <2>12 DEF asked, vars, TokenUsed, PcType, KeepsDoor, NothingAdministers, BucketsKept, ListingComputed
  <2> QED
    BY <2>1, <2>2, <2>3, <2>4, <2>5, <2>6, <2>7, <2>8, <2>9, <2>10, <2>11, <2>12 DEF Next, Terminated
<1> QED
  BY <1>1, <1>2, PTL DEF Spec

(* The gateway's list holds every sub-resource by which the backend lets  *)
(* a bucket or an object be configured.                                   *)
SubResourcesListed == \A w \in ConfigSubResources : Param(w, TRUE) \in adminSubResources

(* No request administers a bucket, whatever the groups of its token and  *)
(* however its path and query are written, for a backend whose configuring*)
(* sub-resources are on the gateway's list.                               *)
THEOREM BucketsNeverAdministeredAlways ==
    ASSUME SubResourcesListed
    PROVE  Spec => []BucketsNeverAdministered
<1>1. Init => config = {}
  BY DEF Init
<1>2. GInv /\ config = {} /\ [Next]_vars => (config = {})'
  <2> SUFFICES ASSUME GInv, config = {}, [Next]_vars PROVE config' = {}
    OBVIOUS
  <2>1. ASSUME NEW r \in Requests, BackendExecutes(r) PROVE config' = {}
    <3>1. Unlisted(wire[r].params) /\ Execute(wire[r])
      BY <2>1 DEF BackendExecutes, GInv, NothingAdministers
    <3>2. \A p \in wire[r].params : p.word \notin ConfigSubResources
      BY <3>1, SubResourcesListed DEF SubResourcesListed, Unlisted, ToLower
    <3> QED
      BY <3>1, <3>2 DEF Execute
  <2>2. ASSUME NEW r \in Requests,
               Receive(r) \/ S3Decide(r) \/ S3ListBuckets(r) \/ Forward(r)
        PROVE  config' = config
    BY <2>2 DEF Receive, S3Decide, S3ListBuckets, Forward, external
  <2>3. ASSUME NEW r \in Requests, UiDecide(r) \/ UiListBuckets(r)
        PROVE  config' = config
    BY <2>3 DEF UiDecide, UiListBuckets, external
  <2>4. ASSUME NEW r \in Requests, BackendRefuses(r) \/ Deliver(r) \/ RoundTripFails(r)
        PROVE  config' = config
    BY <2>4 DEF BackendRefuses, Deliver, RoundTripFails, external
  <2>5. CASE Tick \/ UNCHANGED vars
    BY <2>5 DEF Tick, vars
  <2> QED
    BY <2>1, <2>2, <2>3, <2>4, <2>5 DEF Next, Terminated
<1>3. GInv /\ config = {} => BucketsNeverAdministered
  BY DEF GInv, BucketsKept, BucketsNeverAdministered
<1> QED
  BY <1>1, <1>2, <1>3, Inductive, PTL DEF Spec

(* The bucket list of the UI tells the user's rights.                     *)
THEOREM ListingTellsRightsAlways == Spec => []ListingTellsRights
<1>1. GInv => ListingTellsRights
  <2> SUFFICES ASSUME GInv, NEW r \in Requests,
                      in[r].door = "ui", pc[r] = "done", out[r].status = 200,
                      pathBucket(in[r].url.path) = <<>>, backend,
                      NEW b \in buckets, NEW m \in {"GET", "PUT", "DELETE"}
               PROVE  CheckAccess(Groups(TokenUsed(r)), b, m) <=>
                         /\ b \in DOMAIN out[r].listing
                         /\ methodGranted(out[r].listing[b], m)
    BY DEF ListingTellsRights
  <2>1. out[r].listing = UiListing(Groups(TokenUsed(r)), buckets)
    BY DEF GInv, ListingComputed
  <2>2. b # WildcardBucket
    BY GatewayAssumption DEF GInv, BucketsKept
  <2> QED
    BY <2>1, <2>2, ListingIsAccess
<1> QED
  BY <1>1, Inductive, PTL

----------------------------------------------------------------------------

CrossSite(i) == FromCookie(i) /\ isCrossSiteStateChange(i)

MayCall(r) ==
    /\ pathBucket(in[r].url.path) # <<>>
    /\ CheckAccess(Groups(TokenUsed(r)), pathBucket(in[r].url.path), in[r].method)

Undecided(r) == pc[r] \in {"idle", "s3", "ui", "s3list", "uilist", "forward"}

(* Nothing is on the wire or refused before the decision.                 *)
NothingBefore ==
    \A r \in Requests : Undecided(r) => wire[r] = NoWire /\ out[r].status # 403

(* What is sent was granted, and not by a cookie from another site.       *)
SentIsGranted ==
    \A r \in Requests :
        /\ pc[r] = "forward" \/ wire[r] # NoWire => MayCall(r)
        /\ wire[r] # NoWire /\ in[r].door = "ui" => ~CrossSite(in[r])

(* What is on its way has been written, the UI's calls are signed and     *)
(* therefore not refused by the backend.                                  *)
UiCallsSigned ==
    \A r \in Requests :
        /\ pc[r] \in {"sent", "answered"} => wire[r] # NoWire
        /\ pc[r] = "sent" /\ in[r].door = "ui" => Signed(wire[r])
        /\ pc[r] \in {"sent", "answered"} => out[r].status # 403
        /\ wire[r] # NoWire /\ in[r].door = "ui" => out[r].status # 403

(* A request refused without a call had no right, was administrative or   *)
(* came from another site.                                                *)
RefusedForCause ==
    \A r \in Requests :
        out[r].status = 403 /\ wire[r] = NoWire =>
            \/ ~MayCall(r)
            \/ in[r].door = "s3" /\ IsAdminOperation(in[r].method, RequestURI(in[r].url))
            \/ in[r].door = "ui" /\ CrossSite(in[r])

DInv == NothingBefore /\ SentIsGranted /\ UiCallsSigned /\ RefusedForCause

(* A right to HEAD is a right to GET.                                     *)
LEMMA HeadIsGet ==
    ASSUME NEW groups, NEW b, NEW i
    PROVE  CheckAccess(groups, b, UiMethod(i)) <=> CheckAccess(groups, b, i.method)
  BY DEF CheckAccess, methodGranted, UiMethod

(* A call on a bucket is not the empty request.                           *)
LEMMA CallIsSomething ==
    ASSUME NEW i, NEW sig, pathBucket(i.url.path) # <<>>
    PROVE  Outbound(i, sig) # NoWire /\ SdkCall(i) # NoWire
<1>1. i.url.path # <<>>
  BY DEF pathBucket
<1>2. Outbound(i, sig).path = i.url.path /\ SdkCall(i).path = i.url.path
  BY DEF Outbound, SdkCall
<1>3. NoWire.path = <<>>
  BY DEF NoWire
<1> QED
  BY <1>1, <1>2, <1>3

(* Decisions are kept: what is sent was granted, what is refused was not. *)
THEOREM DecisionsKept == Spec => []DInv
<1>1. Init => DInv
  BY DEF Init, DInv, NothingBefore, SentIsGranted, UiCallsSigned, RefusedForCause, Answered, Undecided
<1>2. GInv /\ DInv /\ [Next]_vars => DInv'
  <2> SUFFICES ASSUME GInv, DInv, [Next]_vars PROVE DInv'
    OBVIOUS
  <2> USE DEF GInv, DInv, PcType, KeepsDoor
  <2>1. ASSUME NEW r \in Requests, Receive(r) PROVE DInv'
    <3>0. /\ \A s \in Requests \ {r} : /\ pc'[s] = pc[s] /\ in'[s] = in[s]
                                         /\ wire'[s] = wire[s] /\ out'[s] = out[s]
      BY <2>1 DEF Receive, Goto, Reply
    <3>1. NothingBefore'
      BY <2>1, <3>0 DEF Receive, Goto, Reply, external, Answered, Listed, MayCall, TokenUsed, Undecided, NothingBefore
    <3>2. SentIsGranted'
      BY <2>1, <3>0, GatewayAssumption DEF Receive, Goto, Reply, Answered, NothingBefore, MayCall, TokenUsed, Undecided, SentIsGranted
    <3>3. UiCallsSigned'
      BY <2>1, <3>0, GatewayAssumption DEF Receive, Goto, Reply, Answered, NothingBefore, MayCall, TokenUsed, Undecided, UiCallsSigned
    <3>4. RefusedForCause'
      BY <2>1, <3>0 DEF Receive, Goto, Reply, external, Answered, Listed, MayCall, TokenUsed, Undecided, RefusedForCause
    <3> QED
      BY <3>1, <3>2, <3>3, <3>4
  <2>2. ASSUME NEW r \in Requests, S3Decide(r) PROVE DInv'
    <3>0. /\ \A s \in Requests \ {r} : /\ pc'[s] = pc[s] /\ in'[s] = in[s]
                                         /\ wire'[s] = wire[s] /\ out'[s] = out[s]
      BY <2>2 DEF asked, S3Decide, Goto, Reply
    <3>1. NothingBefore'
      BY <2>2, <3>0 DEF asked, S3Decide, Goto, Reply, external, Answered, Listed, MayCall, TokenUsed, Undecided, NothingBefore
    <3>2. SentIsGranted'
      BY <2>2, <3>0 DEF asked, S3Decide, Goto, Reply, external, Answered, Listed, MayCall, TokenUsed, Undecided, SentIsGranted
    <3>3. UiCallsSigned'
      BY <2>2, <3>0 DEF asked, S3Decide, Goto, Reply, external, Answered, Listed, MayCall, TokenUsed, Undecided, UiCallsSigned
    <3>4. RefusedForCause'
      BY <2>2, <3>0 DEF asked, S3Decide, Goto, Reply, external, Answered, Listed, MayCall, TokenUsed, Undecided, RefusedForCause
    <3> QED
      BY <3>1, <3>2, <3>3, <3>4
  <2>3. ASSUME NEW r \in Requests, S3ListBuckets(r) PROVE DInv'
    <3>0. /\ \A s \in Requests \ {r} : /\ pc'[s] = pc[s] /\ in'[s] = in[s]
                                         /\ wire'[s] = wire[s] /\ out'[s] = out[s]
      BY <2>3 DEF asked, S3ListBuckets, Goto, Reply
    <3>1. NothingBefore'
      BY <2>3, <3>0 DEF asked, S3ListBuckets, Goto, Reply, external, Answered, Listed, MayCall, TokenUsed, Undecided, NothingBefore
    <3>2. SentIsGranted'
      BY <2>3, <3>0 DEF asked, S3ListBuckets, Goto, Reply, external, Answered, Listed, MayCall, TokenUsed, Undecided, SentIsGranted
    <3>3. UiCallsSigned'
      BY <2>3, <3>0 DEF asked, S3ListBuckets, Goto, Reply, external, Answered, Listed, MayCall, TokenUsed, Undecided, UiCallsSigned
    <3>4. RefusedForCause'
      BY <2>3, <3>0 DEF asked, S3ListBuckets, Goto, Reply, external, Answered, Listed, MayCall, TokenUsed, Undecided, RefusedForCause
    <3> QED
      BY <3>1, <3>2, <3>3, <3>4
  <2>4. ASSUME NEW r \in Requests, Forward(r) PROVE DInv'
    <3>0. /\ \A s \in Requests \ {r} : /\ pc'[s] = pc[s] /\ in'[s] = in[s]
                                         /\ wire'[s] = wire[s] /\ out'[s] = out[s]
      BY <2>4 DEF asked, Forward, Goto, Reply
    <3>1. NothingBefore'
      BY <2>4, <3>0 DEF asked, Forward, Goto, Reply, external, Answered, Listed, MayCall, TokenUsed, Undecided, NothingBefore
    <3>2. SentIsGranted'
      BY <2>4, <3>0 DEF asked, Forward, Goto, Reply, external, Answered, Listed, MayCall, TokenUsed, Undecided, SentIsGranted
    <3>5. /\ in[r].door = "s3" /\ in' = in
          /\ pc'[r] = "sent" => wire'[r] # NoWire
      BY <2>4, CallIsSomething DEF asked, Forward, Goto, Reply, SentIsGranted, MayCall
    <3>3. UiCallsSigned'
      BY <2>4, <3>0, <3>2, <3>5 DEF asked, Forward, Goto, Reply, Answered, UiCallsSigned, NothingBefore, Undecided
    <3>4. RefusedForCause'
      BY <2>4, <3>0, <3>5 DEF asked, Forward, Goto, Reply, external, Answered, Listed, MayCall, TokenUsed, Undecided, RefusedForCause, NothingBefore
    <3> QED
      BY <3>1, <3>2, <3>3, <3>4
  <2>5. ASSUME NEW r \in Requests, UiDecide(r) PROVE DInv'
    <3>0. \A s \in Requests \ {r} : /\ pc'[s] = pc[s] /\ in'[s] = in[s]
                                    /\ wire'[s] = wire[s] /\ out'[s] = out[s]
      BY <2>5 DEF asked, UiDecide, Goto, Reply
    <3>1. /\ in' = in /\ in[r].door = "ui" /\ TokenUsed(r) = UiToken(in[r])
          /\ wire[r] = NoWire /\ out[r].status # 403
      BY <2>5 DEF asked, UiDecide, TokenUsed, NothingBefore, Undecided
    <3>2. /\ MayCall(r) <=> pathBucket(in[r].url.path) # <<>> /\ UiGranted(in[r])
          /\ UiRouted(in[r]) /\ in[r].url.path # <<>> /\ ~NamesMissing(in[r].url.path)
                => pathBucket(in[r].url.path) # <<>>
      BY <3>1, HeadIsGet, UiCallHarmless DEF MayCall, UiGranted
    <3>3. MayCall(r)' <=> MayCall(r)
      BY <3>1 DEF MayCall, TokenUsed
    <3>4. Signed(SdkCall(in[r]))
      BY DEF Signed, SdkCall
    <3>5. CASE pc'[r] = "sent"
      <4>1. /\ wire'[r] = SdkCall(in[r]) /\ out' = out
            /\ MayCall(r) /\ ~CrossSite(in[r])
        BY <2>5, <3>2, <3>5 DEF asked, UiDecide, Goto, Reply, CrossSite
      <4>2. wire'[r] # NoWire
        BY <4>1, CallIsSomething DEF MayCall
      <4>3. NothingBefore'
        BY <3>0, <3>5 DEF NothingBefore, Undecided
      <4>4. SentIsGranted'
        BY <3>0, <3>1, <3>3, <4>1 DEF SentIsGranted, MayCall, TokenUsed
      <4>5. UiCallsSigned'
        BY <3>0, <3>1, <3>4, <4>1, <4>2 DEF UiCallsSigned
      <4>6. RefusedForCause'
        BY <3>0, <3>1, <4>1, <4>2 DEF RefusedForCause, MayCall, TokenUsed
      <4> QED
        BY <4>3, <4>4, <4>5, <4>6
    <3>6. CASE pc'[r] # "sent"
      <4>1. wire'[r] = NoWire /\ pc'[r] \in {"done", "uilist"}
        BY <2>5, <3>1, <3>6 DEF asked, UiDecide, Goto, Reply
      <4>2. pc'[r] = "uilist" => out'[r] = out[r]
        BY <2>5 DEF asked, UiDecide, Goto, Reply
      <4>3. out'[r].status = 403 => CrossSite(in[r]) \/ ~MayCall(r)
        BY <2>5, <3>1, <3>2 DEF asked, UiDecide, Goto, Reply, Answered, CrossSite
      <4>4. NothingBefore'
        BY <3>0, <3>1, <4>1, <4>2 DEF NothingBefore, Undecided
      <4>5. SentIsGranted'
        BY <3>0, <3>1, <4>1 DEF SentIsGranted, MayCall, TokenUsed
      <4>6. UiCallsSigned'
        BY <3>0, <3>1, <4>1 DEF UiCallsSigned
      <4>7. RefusedForCause'
        BY <3>0, <3>1, <3>3, <4>3 DEF RefusedForCause, MayCall, TokenUsed
      <4> QED
        BY <4>4, <4>5, <4>6, <4>7
    <3> QED
      BY <3>5, <3>6
  <2>6. ASSUME NEW r \in Requests, UiListBuckets(r) PROVE DInv'
    <3>0. /\ \A s \in Requests \ {r} : /\ pc'[s] = pc[s] /\ in'[s] = in[s]
                                         /\ wire'[s] = wire[s] /\ out'[s] = out[s]
      BY <2>6 DEF asked, UiListBuckets, Goto, Reply
    <3>1. NothingBefore'
      BY <2>6, <3>0 DEF asked, UiListBuckets, Goto, Reply, external, Answered, Listed, MayCall, TokenUsed, Undecided, NothingBefore
    <3>2. SentIsGranted'
      BY <2>6, <3>0 DEF asked, UiListBuckets, Goto, Reply, external, Answered, Listed, MayCall, TokenUsed, Undecided, SentIsGranted
    <3>3. UiCallsSigned'
      BY <2>6, <3>0 DEF asked, UiListBuckets, Goto, Reply, external, Answered, Listed, MayCall, TokenUsed, Undecided, UiCallsSigned
    <3>4. RefusedForCause'
      BY <2>6, <3>0 DEF asked, UiListBuckets, Goto, Reply, external, Answered, Listed, MayCall, TokenUsed, Undecided, RefusedForCause
    <3> QED
      BY <3>1, <3>2, <3>3, <3>4
  <2>7. ASSUME NEW r \in Requests, BackendExecutes(r) PROVE DInv'
    <3>0. /\ \A s \in Requests \ {r} : /\ pc'[s] = pc[s] /\ in'[s] = in[s]
                                         /\ wire'[s] = wire[s] /\ out'[s] = out[s]
      BY <2>7 DEF asked, BackendExecutes, Goto, Reply
    <3>1. NothingBefore'
      BY <2>7, <3>0 DEF asked, BackendExecutes, Goto, Reply, external, Answered, Listed, MayCall, TokenUsed, Undecided, NothingBefore
    <3>2. SentIsGranted'
      BY <2>7, <3>0 DEF asked, BackendExecutes, Goto, Reply, external, Answered, Listed, MayCall, TokenUsed, Undecided, SentIsGranted
    <3>3. UiCallsSigned'
      BY <2>7, <3>0 DEF asked, BackendExecutes, Goto, Reply, external, Answered, Listed, MayCall, TokenUsed, Undecided, UiCallsSigned
    <3>4. RefusedForCause'
      BY <2>7, <3>0 DEF asked, BackendExecutes, Goto, Reply, external, Answered, Listed, MayCall, TokenUsed, Undecided, RefusedForCause
    <3> QED
      BY <3>1, <3>2, <3>3, <3>4
  <2>8. ASSUME NEW r \in Requests, BackendRefuses(r) PROVE DInv'
    <3>0. /\ \A s \in Requests \ {r} : /\ pc'[s] = pc[s] /\ in'[s] = in[s]
                                         /\ wire'[s] = wire[s] /\ out'[s] = out[s]
      BY <2>8 DEF asked, BackendRefuses, Goto, Reply
    <3>1. NothingBefore'
      BY <2>8, <3>0 DEF asked, BackendRefuses, Goto, Reply, external, Answered, Listed, MayCall, TokenUsed, Undecided, NothingBefore
    <3>2. SentIsGranted'
      BY <2>8, <3>0 DEF asked, BackendRefuses, Goto, Reply, external, Answered, Listed, MayCall, TokenUsed, Undecided, SentIsGranted
    <3>3. UiCallsSigned'
      BY <2>8, <3>0 DEF asked, BackendRefuses, Goto, Reply, external, Answered, Listed, MayCall, TokenUsed, Undecided, UiCallsSigned
    <3>4. RefusedForCause'
      BY <2>8, <3>0 DEF asked, BackendRefuses, Goto, Reply, external, Answered, Listed, MayCall, TokenUsed, Undecided, RefusedForCause, UiCallsSigned
    <3> QED
      BY <3>1, <3>2, <3>3, <3>4
  <2>9. ASSUME NEW r \in Requests, Deliver(r) PROVE DInv'
    <3>0. /\ \A s \in Requests \ {r} : /\ pc'[s] = pc[s] /\ in'[s] = in[s]
                                         /\ wire'[s] = wire[s] /\ out'[s] = out[s]
      BY <2>9 DEF asked, Deliver, Goto, Reply
    <3>1. NothingBefore'
      BY <2>9, <3>0 DEF asked, Deliver, Goto, Reply, external, Answered, Listed, MayCall, TokenUsed, Undecided, NothingBefore
    <3>2. SentIsGranted'
      BY <2>9, <3>0 DEF asked, Deliver, Goto, Reply, external, Answered, Listed, MayCall, TokenUsed, Undecided, SentIsGranted
    <3>3. UiCallsSigned'
      BY <2>9, <3>0 DEF asked, Deliver, Goto, Reply, external, Answered, Listed, MayCall, TokenUsed, Undecided, UiCallsSigned
    <3>4. RefusedForCause'
      BY <2>9, <3>0 DEF asked, Deliver, Goto, Reply, external, Answered, Listed, MayCall, TokenUsed, Undecided, RefusedForCause
    <3> QED
      BY <3>1, <3>2, <3>3, <3>4
  <2>10. ASSUME NEW r \in Requests, RoundTripFails(r) PROVE DInv'
    <3>0. /\ \A s \in Requests \ {r} : /\ pc'[s] = pc[s] /\ in'[s] = in[s]
                                         /\ wire'[s] = wire[s] /\ out'[s] = out[s]
      BY <2>10 DEF asked, RoundTripFails, Goto, Reply
    <3>1. NothingBefore'
      BY <2>10, <3>0 DEF asked, RoundTripFails, Goto, Reply, external, Answered, Listed, MayCall, TokenUsed, Undecided, NothingBefore
    <3>2. SentIsGranted'
      BY <2>10, <3>0 DEF asked, RoundTripFails, Goto, Reply, external, Answered, Listed, MayCall, TokenUsed, Undecided, SentIsGranted
    <3>3. UiCallsSigned'
      BY <2>10, <3>0 DEF asked, RoundTripFails, Goto, Reply, external, Answered, Listed, MayCall, TokenUsed, Undecided, UiCallsSigned
    <3>4. RefusedForCause'
      BY <2>10, <3>0 DEF asked, RoundTripFails, Goto, Reply, external, Answered, Listed, MayCall, TokenUsed, Undecided, RefusedForCause
    <3> QED
      BY <3>1, <3>2, <3>3, <3>4
  <2>11. CASE Tick
    BY <2>11 DEF asked, Tick, TokenUsed, MayCall, Undecided, NothingBefore, SentIsGranted, UiCallsSigned, RefusedForCause
  <2>12. CASE UNCHANGED vars
    BY <2>12 DEF asked, vars, TokenUsed, MayCall, Undecided, NothingBefore, SentIsGranted, UiCallsSigned, RefusedForCause
  <2> QED
    BY <2>1, <2>2, <2>3, <2>4, <2>5, <2>6, <2>7, <2>8, <2>9, <2>10, <2>11, <2>12 DEF Next, Terminated
<1> QED
  BY <1>1, <1>2, Inductive, PTL DEF Spec

(* The two doors decide alike on the same token, object and method.       *)
THEOREM DoorsAgreeAlways == Spec => []DoorsAgree
<1>1. DInv => DoorsAgree
  <2> SUFFICES ASSUME DInv, NEW r \in Requests, NEW s \in Requests,
                      in[r].door = "s3", in[s].door = "ui",
                      PlainObjectRequest(r), PlainObjectRequest(s),
                      TokenUsed(r) = TokenUsed(s),
                      in[r].method = in[s].method, in[r].url.path = in[s].url.path
               PROVE  /\ ~(wire[r] # NoWire /\ out[s].status = 403)
                      /\ ~(wire[s] # NoWire /\ wire[r] = NoWire /\ out[r].status = 403)
    BY DEF DoorsAgree
  <2>1. MayCall(r) <=> MayCall(s)
    BY DEF MayCall
  <2>2. ~IsAdminOperation(in[r].method, RequestURI(in[r].url))
    <3>1. Cardinality({1, 2}) = 2
      <4>1. {1, 2} = 1..2
        OBVIOUS
      <4>2. 1 \in Int /\ 2 \in Int /\ ~(1 > 2) /\ 2 - 1 + 1 = 2
        OBVIOUS
      <4>3. Cardinality(1..2) = IF 1 > 2 THEN 0 ELSE 2 - 1 + 1
        BY <4>2, FS_Interval, Zenon
      <4> QED
        BY <4>1, <4>2, <4>3
    <3>2. RequestURI(in[r].url) = [parses |-> TRUE, path |-> in[r].url.path, pairs |-> {}]
      <4>1. in[r].url.path[1] # <<>> /\ in[r].url.pairs = {}
        BY DEF PlainObjectRequest, Segments
      <4> QED
        BY <4>1 DEF RequestURI
    <3> QED
      BY <3>1, <3>2 DEF PlainObjectRequest, IsAdminOperation, WholeBucket, Query
  <2>3. ~CrossSite(in[s])
    BY DEF PlainObjectRequest, CrossSite, isCrossSiteStateChange
  <2> QED
    BY <2>1, <2>2, <2>3 DEF DInv, SentIsGranted, UiCallsSigned, RefusedForCause
<1> QED
  BY <1>1, DecisionsKept, PTL

----------------------------------------------------------------------------

(* What is forwarded or on the wire was asked for by a genuine token that *)
(* had not expired on arrival, and is the method (a HEAD may become a     *)
(* GET) and the path of the request.                                      *)
InTime(r) == arrived[r] < TokenOf[TokenUsed(r)].exp

OnBehalf ==
    /\ now \in Nat
    /\ \A r \in Requests :
        /\ arrived[r] \in Nat /\ arrived[r] <= now
        /\ pc[r] = "forward" \/ wire[r] # NoWire => Genuine(TokenUsed(r)) /\ InTime(r)
        /\ wire[r] # NoWire =>
              /\ wire[r].path = in[r].url.path
              /\ wire[r].method # "GET" => wire[r].method = in[r].method

(* A verified token is genuine, and has not expired since the request     *)
(* arrived.                                                               *)
LEMMA VerifiedIsGenuine ==
    ASSUME NEW t, VerifyToken(t)
    PROVE  Genuine(t) /\ now < TokenOf[t].exp /\ TokenOf[t].exp \in Nat
  BY GatewayAssumption DEF VerifyToken, Genuine

(* Every call is made on behalf of a genuine token, in time.              *)
THEOREM CallsOnBehalf == Spec => []OnBehalf
<1>1. Init => OnBehalf
  BY DEF Init, OnBehalf
<1>2. GInv /\ DInv /\ OnBehalf /\ [Next]_vars => OnBehalf'
  <2> SUFFICES ASSUME GInv, DInv, OnBehalf, [Next]_vars PROVE OnBehalf'
    OBVIOUS
  <2> USE DEF GInv, PcType
  <2>1. ASSUME NEW r \in Requests, Receive(r) PROVE OnBehalf'
    <3>1. wire[r] = NoWire
      BY <2>1 DEF Receive, DInv, NothingBefore, Undecided
    <3>2. /\ \A s \in Requests \ {r} : /\ pc'[s] = pc[s] /\ in'[s] = in[s]
                                       /\ arrived'[s] = arrived[s]
          /\ wire' = wire /\ pc'[r] # "forward" /\ now' = now /\ arrived'[r] = now
      BY <2>1, GatewayAssumption DEF Receive, Goto, Reply, external
    <3> QED
      BY <3>1, <3>2 DEF OnBehalf, TokenUsed, InTime
  <2>2. ASSUME NEW r \in Requests, S3Decide(r) PROVE OnBehalf'
    <3>1. wire[r] = NoWire /\ in[r].door = "s3"
      BY <2>2 DEF S3Decide, DInv, NothingBefore, Undecided, KeepsDoor
    <3>2. /\ \A s \in Requests \ {r} : pc'[s] = pc[s]
          /\ wire' = wire /\ in' = in /\ arrived' = arrived /\ now' = now
          /\ pc'[r] = "forward" => VerifyToken(in[r].header)
      BY <2>2 DEF S3Decide, Goto, Reply, asked, external
    <3>3. pc'[r] = "forward" => Genuine(TokenUsed(r)) /\ InTime(r)
      BY <3>1, <3>2, VerifiedIsGenuine DEF TokenUsed, OnBehalf, InTime
    <3> QED
      BY <3>1, <3>2, <3>3 DEF OnBehalf, TokenUsed, InTime
  <2>3. ASSUME NEW r \in Requests, Forward(r) PROVE OnBehalf'
    <3>1. /\ \A s \in Requests \ {r} : pc'[s] = pc[s] /\ wire'[s] = wire[s]
          /\ in' = in /\ arrived' = arrived /\ now' = now /\ pc'[r] # "forward"
          /\ wire'[r] # wire[r] => \E sig \in {Signature, {}} : wire'[r] = Outbound(in[r], sig)
      BY <2>3 DEF Forward, Goto, Reply, asked, external
    <3>2. wire'[r] # wire[r] =>
              wire'[r].method = in[r].method /\ wire'[r].path = in[r].url.path
      BY <3>1 DEF Outbound
    <3>3. Genuine(TokenUsed(r)) /\ InTime(r)
      BY <2>3 DEF Forward, OnBehalf
    <3> QED
      BY <3>1, <3>2, <3>3 DEF OnBehalf, TokenUsed, InTime
  <2>4. ASSUME NEW r \in Requests, UiDecide(r) PROVE OnBehalf'
    <3>1. wire[r] = NoWire /\ in[r].door = "ui"
      BY <2>4 DEF UiDecide, DInv, NothingBefore, Undecided, KeepsDoor
    <3>2. /\ \A s \in Requests \ {r} : pc'[s] = pc[s] /\ wire'[s] = wire[s]
          /\ in' = in /\ arrived' = arrived /\ now' = now /\ pc'[r] # "forward"
          /\ wire'[r] # wire[r] => wire'[r] = SdkCall(in[r]) /\ VerifyToken(UiToken(in[r]))
      BY <2>4 DEF UiDecide, Goto, Reply, asked, external
    <3>3. wire'[r] # NoWire => Genuine(TokenUsed(r)) /\ InTime(r)
      BY <3>1, <3>2, VerifiedIsGenuine DEF TokenUsed, OnBehalf, InTime
    <3>4. wire'[r] # NoWire =>
              /\ wire'[r].path = in[r].url.path
              /\ wire'[r].method # "GET" => wire'[r].method = in[r].method
      BY <3>1, <3>2 DEF SdkCall, UiMethod
    <3> QED
      BY <3>2, <3>3, <3>4 DEF OnBehalf, TokenUsed, InTime
  <2>5. ASSUME NEW r \in Requests,
               S3ListBuckets(r) \/ UiListBuckets(r) \/ BackendExecutes(r)
               \/ BackendRefuses(r) \/ Deliver(r) \/ RoundTripFails(r)
        PROVE  OnBehalf'
    <3>1. /\ \A s \in Requests \ {r} : pc'[s] = pc[s]
          /\ in' = in /\ arrived' = arrived /\ now' = now /\ wire' = wire
          /\ pc'[r] # "forward"
      BY <2>5 DEF S3ListBuckets, UiListBuckets, BackendExecutes, BackendRefuses,
         Deliver, RoundTripFails, Goto, Reply, asked, external
    <3> QED
      BY <3>1 DEF OnBehalf, TokenUsed, InTime
  <2>6. CASE Tick
    <3>1. /\ pc' = pc /\ in' = in /\ arrived' = arrived /\ wire' = wire
          /\ now' = now + 1
      BY <2>6 DEF Tick, asked
    <3>2. now' \in Nat /\ \A r \in Requests : arrived[r] <= now'
      BY <3>1 DEF OnBehalf
    <3> QED
      BY <3>1, <3>2 DEF OnBehalf, TokenUsed, InTime
  <2>7. CASE UNCHANGED vars
    BY <2>7 DEF vars, asked, OnBehalf, TokenUsed, InTime
  <2> QED
    BY <2>1, <2>2, <2>3, <2>4, <2>5, <2>6, <2>7 DEF Next, Terminated
<1> QED
  BY <1>1, <1>2, Inductive, DecisionsKept, PTL DEF Spec

(* What the backend does to an object when no bucket is administered.     *)
LEMMA ExecuteChanges ==
    ASSUME NEW w, Execute(w), Harmless(w.method, w.path),
           NEW obj \in (store \ store') \cup (store' \ store)
    PROVE  /\ obj[1] = pathBucket(w.path)
           /\ w.method = IF obj \in store' THEN "PUT" ELSE "DELETE"
<1> DEFINE b == w.path[1]
           key == SubSeq(w.path, 2, Len(w.path))
           o == <<b, key>>
<1>1. /\ b = pathBucket(w.path)
      /\ NoKey(w.path) => w.method \notin {"PUT", "DELETE", "POST"}
  BY DEF Harmless, pathBucket
<1> HIDE DEF key, b
<1>2. \/ w.method = "PUT" /\ store' = store \cup {o}
      \/ w.method = "DELETE" /\ store' = store \ {o}
      \/ store' = store
  BY <1>1 DEF Execute, key, b
<1>3. o[1] = b
  OBVIOUS
<1> QED
  BY <1>1, <1>2, <1>3

(* Objects change only on behalf of a genuine token that is entitled to   *)
(* the change and in time, through either door, with names of any length, *)
(* and never by a cookie another site made the browser send.              *)
THEOREM ObjectChangesAreEntitledAlways == Spec => ObjectChangesAreEntitled
<1> DEFINE A == \A obj \in (store \ store') \cup (store' \ store) :
                  \E r \in Requests :
                    /\ pc[r] = "sent" /\ pc'[r] = "answered"
                    /\ pathBucket(in[r].url.path) = obj[1]
                    /\ in[r].method = IF obj \in store' THEN "PUT" ELSE "DELETE"
                    /\ Genuine(TokenUsed(r))
                    /\ arrived[r] < TokenOf[TokenUsed(r)].exp
                    /\ Entitled(TokenUsed(r), obj[1], in[r].method)
                    /\ ~Forged(r)
<1>1. GInv /\ DInv /\ OnBehalf /\ [Next]_vars => [A]_vars
  <2> SUFFICES ASSUME GInv, DInv, OnBehalf, Next PROVE A
    OBVIOUS
  <2>1. ASSUME NEW r \in Requests, BackendExecutes(r) PROVE A
    <3>1. /\ pc[r] = "sent" /\ pc'[r] = "answered" /\ Execute(wire[r])
      BY <2>1 DEF BackendExecutes, Goto, GInv, PcType
    <3>2. /\ wire[r] # NoWire /\ MayCall(r) /\ Genuine(TokenUsed(r)) /\ InTime(r)
          /\ wire[r].path = in[r].url.path
          /\ wire[r].method # "GET" => wire[r].method = in[r].method
          /\ in[r].door = "ui" => ~CrossSite(in[r])
      BY <3>1 DEF DInv, UiCallsSigned, SentIsGranted, OnBehalf
    <3>3. Harmless(wire[r].method, wire[r].path)
      BY <3>1 DEF GInv, NothingAdministers
    <3>4. Entitled(TokenUsed(r), pathBucket(in[r].url.path), in[r].method)
      BY <3>2, GrantedIsEntitled DEF MayCall, Genuine
    <3> SUFFICES ASSUME NEW obj \in (store \ store') \cup (store' \ store)
                 PROVE  /\ pathBucket(in[r].url.path) = obj[1]
                        /\ in[r].method = IF obj \in store' THEN "PUT" ELSE "DELETE"
                        /\ ~Forged(r)
      BY <3>1, <3>2, <3>4 DEF InTime
    <3>5. /\ obj[1] = pathBucket(wire[r].path)
          /\ wire[r].method = IF obj \in store' THEN "PUT" ELSE "DELETE"
      BY <3>1, <3>3, ExecuteChanges
    <3>6. /\ in[r].method = IF obj \in store' THEN "PUT" ELSE "DELETE"
          /\ in[r].method \notin {"GET", "HEAD", "OPTIONS"}
      BY <3>2, <3>5
    <3>7. ~Forged(r)
      BY <3>2, <3>6 DEF Forged, CrossSite, FromCookie, isCrossSiteStateChange
    <3> QED
      BY <3>2, <3>5, <3>6, <3>7
  <2>2. CASE store' = store
    BY <2>2
  <2>3. ASSUME NEW r \in Requests,
               Receive(r) \/ S3Decide(r) \/ S3ListBuckets(r) \/ Forward(r)
        PROVE  store' = store
    BY <2>3 DEF Receive, S3Decide, S3ListBuckets, Forward, external
  <2>4. ASSUME NEW r \in Requests, UiDecide(r) \/ UiListBuckets(r)
        PROVE  store' = store
    BY <2>4 DEF UiDecide, UiListBuckets, external
  <2>5. ASSUME NEW r \in Requests, BackendRefuses(r) \/ Deliver(r) \/ RoundTripFails(r)
        PROVE  store' = store
    BY <2>5 DEF BackendRefuses, Deliver, RoundTripFails, external
  <2>6. CASE Tick \/ Terminated
    BY <2>6 DEF Tick, Terminated, vars
  <2> HIDE DEF A
  <2> QED
    BY <2>1, <2>2, <2>3, <2>4, <2>5, <2>6, Zenon DEF Next
<1> QED
  BY <1>1, Inductive, DecisionsKept, CallsOnBehalf, PTL DEF Spec, ObjectChangesAreEntitled

============================================================================
