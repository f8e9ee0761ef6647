---------------------------- MODULE StoresProofs ----------------------------
(***************************************************************************)
(* Proofs about the stores of the single-page application: BrowserStore,   *)
(* for any number of places, of keys and of calls in flight, answered in   *)
(* any order, and BucketsStore, for any buckets and workers.               *)
(***************************************************************************)
EXTENDS BrowserStore, BucketsStore, FiniteSetTheorems, TLAPS

----------------------------------------------------------------------------
(* Sequences of rows.                                                      *)

Rows == [place : Places, key : Keys]

\* Every key of s is at most k; every row of s is of place p.
Below(s, k) == \A i \in 1..Len(s) : s[i].key <= k
Pure(s, p) == \A i \in 1..Len(s) : s[i].place = p

LEMMA EmptyRows ==
  /\ <<>> \in Seq(Rows) /\ Ascending(<<>>)
  /\ \A k : Below(<<>>, k) /\ Pure(<<>>, k)
BY DEF Ascending, Below, Pure

\* A listing extended by a row after all of its keys.
LEMMA AppendRow ==
  ASSUME NEW s \in Seq(Rows), NEW r \in Rows, NEW k \in Int,
         Ascending(s), Below(s, k), k < r.key
  PROVE  /\ s \o <<r>> \in Seq(Rows)
         /\ Ascending(s \o <<r>>)
         /\ Below(s \o <<r>>, r.key)
         /\ \A p : Pure(s, p) /\ r.place = p => Pure(s \o <<r>>, p)
<1> DEFINE t == s \o <<r>>
<1>1. /\ t \in Seq(Rows) /\ Len(t) = Len(s) + 1 /\ Len(s) \in Nat
      /\ \A i \in 1..Len(s) : t[i] = s[i]
      /\ t[Len(s) + 1] = r
  OBVIOUS
<1>2. r.key \in Int /\ \A i \in 1..Len(s) : s[i].key \in Int
  <2>1. \A q \in Rows : q.key \in Int
    BY BrowserAssumption DEF Rows, Keys
  <2>2. \A i \in 1..Len(s) : s[i] \in Rows
    OBVIOUS
  <2> QED BY <2>1, <2>2
<1> HIDE DEF t
<1>3. \A i \in 1..Len(s) : s[i].key < r.key
  BY <1>2 DEF Below
<1>4. \A i \in 1..Len(t) : i \in 1..Len(s) \/ i = Len(s) + 1
  BY <1>1
<1>5. Ascending(t)
  <2> SUFFICES ASSUME NEW i \in 1..Len(t), NEW j \in 1..Len(t), i < j
               PROVE  t[i].key < t[j].key
    BY DEF Ascending
  <2>1. i \in 1..Len(s)
    BY <1>1
  <2>2. CASE j \in 1..Len(s)
    BY <1>1, <2>1, <2>2 DEF Ascending
  <2>3. CASE j = Len(s) + 1
    BY <1>1, <1>3, <2>1, <2>3
  <2> QED BY <1>4, <2>2, <2>3
<1>6. Below(t, r.key)
  <2> SUFFICES ASSUME NEW i \in 1..Len(t)
               PROVE  t[i].key <= r.key
    BY DEF Below
  <2>1. CASE i \in 1..Len(s)
    BY <1>1, <1>2, <1>3, <2>1
  <2>2. CASE i = Len(s) + 1
    BY <1>1, <1>2, <2>2
  <2> QED BY <1>4, <2>1, <2>2
<1>7. ASSUME NEW p, Pure(s, p), r.place = p
      PROVE  Pure(t, p)
  BY <1>1, <1>4, <1>7 DEF Pure
<1> QED BY <1>1, <1>5, <1>6, <1>7 DEF t

----------------------------------------------------------------------------
(* The inductive invariant.                                                *)

Targets ==
  Places \cup {Away}
    \cup [bucket : {p.bucket : p \in Places}, prefix : {p.prefix : p \in Places}]

Call0 == [kind : {"free", "fetch", "more", "put", "delete"}, place : Places \cup {Away},
          key : 0..MaxKey, base : Seq(Rows), target : Targets,
          stage : {"sent", "ok", "failed"}, page : Seq(Rows), next : 0..MaxKey,
          stray : BOOLEAN]

\* The answer of a listing: nothing, or one row after the call's key.
PageOK(call) ==
  \/ call.page = <<>> /\ call.next = 0
  \/ \E r \in Rows :
       /\ call.page = <<r>>
       /\ r.place = call.place /\ call.key < r.key /\ call.next \in {0, r.key}

\* What a call in flight carries: a "more" the rows it will extend, which its
\* token follows.
CallOK(call) ==
  /\ call \in Call0
  /\ call.kind # "free" => call.place \in Places
  /\ Lists(call) => PageOK(call)
  /\ call.kind = "more" =>
       /\ Ascending(call.base) /\ Below(call.base, call.key)
       /\ ~call.stray => Pure(call.base, call.place)
  /\ call.kind = "put" => call.key \in Keys

CallsOK ==
  /\ calls \in [Calls -> Call0]
  /\ \A c \in Calls : CallOK(calls[c])

\* The listing on screen: its token follows its rows.
ListingOK ==
  /\ rows \in Seq(Rows) /\ Ascending(rows)
  /\ token \in 0..MaxKey
  /\ token # 0 => Below(rows, token)

\* The store belongs to a place before anything is listed.
PlaceOK ==
  /\ url \in Places \cup {Away} /\ at \in Places \cup {Away}
  /\ at = Away => token = 0 /\ \A c \in Calls : ~Lists(calls[c])

BarsOK ==
  /\ bars \subseteq zoned /\ zoned \subseteq Calls
  /\ \A c \in bars : calls[c].kind = "put"

SpinOK == loading => \E c \in Calls : Lists(calls[c])

ContentOK == content \in [Places -> SUBSET Keys]

BInv ==
  /\ CallsOK /\ ListingOK /\ PlaceOK /\ BarsOK /\ SpinOK /\ ContentOK /\ CleanWithoutStrays
  /\ strayed \in BOOLEAN

LEMMA BInvImplies ==
  ASSUME BInv
  PROVE  NoRowTwice /\ SpinnerHasCause /\ CleanWithoutStrays
<1>1. NoRowTwice
  BY DEF BInv, ListingOK, NoRowTwice
<1>2. SpinnerHasCause
  BY DEF BInv, SpinOK, BarsOK, SpinnerHasCause
<1> QED BY <1>1, <1>2 DEF BInv

----------------------------------------------------------------------------
(* Parts that steps have in common.                                        *)

\* One call changes.
LEMMA CallChanges ==
  ASSUME CallsOK, NEW c \in Calls, NEW new, CallOK(new), calls' = [calls EXCEPT ![c] = new]
  PROVE  /\ CallsOK'
         /\ calls'[c] = new
         /\ \A d \in Calls \ {c} : calls'[d] = calls[d]
<1>1. calls'[c] = new /\ \A d \in Calls \ {c} : calls'[d] = calls[d]
  BY DEF CallsOK
<1>2. new \in Call0
  BY DEF CallOK
<1>3. calls' \in [Calls -> Call0]
  BY <1>2 DEF CallsOK
<1>4. \A d \in Calls : CallOK(calls'[d])
  BY <1>1 DEF CallsOK
<1> QED BY <1>1, <1>3, <1>4 DEF CallsOK, CallOK, Lists, PageOK

LEMMA FreeOK == CallOK(Free) /\ ~Lists(Free)
BY EmptyRows, BrowserAssumption DEF CallOK, Free, Call0, Targets, Lists

LEMMA CallFields ==
  ASSUME NEW k \in {"fetch", "more", "put", "delete"}, NEW p \in Places \cup {Away}
  PROVE  /\ Call(k, p) \in Call0
         /\ Call(k, p).kind = k /\ Call(k, p).place = p /\ Call(k, p).key = 0
         /\ Call(k, p).base = <<>> /\ Call(k, p).target = Away /\ Call(k, p).stage = "sent"
         /\ Call(k, p).page = <<>> /\ Call(k, p).next = 0
<1>1. /\ Free \in Call0 /\ Free.key = 0 /\ Free.base = <<>> /\ Free.page = <<>>
      /\ Free.next = 0 /\ Free.target = Away /\ Free.stage = "sent"
  BY EmptyRows, BrowserAssumption DEF Free, Call0, Targets
<1>2. Call(k, p) = [Free EXCEPT !.kind = k, !.place = p]
  BY DEF Call
<1> QED BY <1>1, <1>2 DEF Call0

LEMMA FetchOK ==
  ASSUME NEW p \in Places
  PROVE  /\ CallOK(Call("fetch", p)) /\ Lists(Call("fetch", p))
         /\ Call("fetch", p).kind = "fetch"
<1> DEFINE new == Call("fetch", p)
<1>1. /\ new \in Call0 /\ new.kind = "fetch" /\ new.place = p
      /\ new.page = <<>> /\ new.next = 0
  BY CallFields
<1> HIDE DEF new
<1>2. CallOK(new) /\ Lists(new)
  BY <1>1 DEF CallOK, Lists, PageOK
<1> QED BY <1>1, <1>2 DEF new

\* fetchObjects: the listing is empty and belongs to the place asked for.
LEMMA FetchStep ==
  ASSUME BInv, NEW c \in Calls, NEW p \in Places, FetchObjects(c, p)
  PROVE  /\ CallsOK' /\ ListingOK' /\ SpinOK'
         /\ at' = p /\ rows' = <<>>
         /\ \A d \in Calls \ {c} : calls'[d] = calls[d]
<1>1. CallsOK' /\ calls'[c] = Call("fetch", p) /\ \A d \in Calls \ {c} : calls'[d] = calls[d]
  BY FetchOK, CallChanges DEF FetchObjects, BInv
<1>2. ListingOK'
  BY EmptyRows, BrowserAssumption DEF FetchObjects, ListingOK
<1>3. SpinOK'
  BY <1>1, FetchOK DEF SpinOK, Lists
<1> QED BY <1>1, <1>2, <1>3 DEF FetchObjects

\* A call that is not an upload in progress may change freely for the bars.
LEMMA BarsKeep ==
  ASSUME BInv, NEW c \in Calls, calls[c].kind # "put", UNCHANGED zone,
         \A d \in Calls \ {c} : calls'[d] = calls[d]
  PROVE  BarsOK'
<1>1. bars' = bars /\ zoned' = zoned
  BY DEF zone
<1>2. c \notin bars
  BY DEF BInv, BarsOK
<1> QED BY <1>1, <1>2 DEF BInv, BarsOK

LEMMA BarsGone ==
  ASSUME BInv, NEW c \in Calls, NEW u \in BOOLEAN, calls[c].kind # "put", ZoneUnless(u),
         \A d \in Calls \ {c} : calls'[d] = calls[d]
  PROVE  BarsOK'
<1>1. CASE u
  BY <1>1 DEF ZoneUnless, BarsOK
<1>2. CASE ~u
  BY <1>2, BarsKeep DEF ZoneUnless, zone
<1> QED BY <1>1, <1>2

\* A call changes without becoming or ceasing to be a listing.
LEMMA SpinKeeps ==
  ASSUME BInv, NEW c \in Calls, \A d \in Calls \ {c} : calls'[d] = calls[d],
         Lists(calls'[c]) <=> Lists(calls[c]), UNCHANGED <<at, token, loading>>,
         url' \in Places \cup {Away}
  PROVE  SpinOK' /\ PlaceOK'
<1>1. \A d \in Calls : Lists(calls'[d]) <=> Lists(calls[d])
  OBVIOUS
<1>2. SpinOK'
  BY <1>1 DEF BInv, SpinOK, Lists
<1>3. PlaceOK'
  BY <1>1 DEF BInv, PlaceOK, Lists
<1> QED BY <1>2, <1>3

----------------------------------------------------------------------------
(* Every step keeps the invariant: what the user does.                     *)

LEMMA NavigateStep ==
  ASSUME BInv, NEW c \in Calls, NEW p \in Places, Navigate(c, p)
  PROVE  BInv'
<1>1. calls[c] = Free /\ calls[c].kind # "put"
  BY DEF Navigate, Free
<1>2. url' = p /\ ZoneUnless(~CanWrite(p)) /\ UNCHANGED content /\ ContentOK'
  BY DEF Navigate, BInv, ContentOK
<1>3. (~CanWrite(p)) \in BOOLEAN
  BY DEF CanWrite
<1>4. CASE FetchObjects(c, p) /\ strayed' = FALSE
  <2>1. /\ CallsOK' /\ ListingOK' /\ SpinOK' /\ at' = p /\ rows' = <<>>
        /\ \A d \in Calls \ {c} : calls'[d] = calls[d]
    BY <1>4, FetchStep
  <2>2. BarsOK'
    BY <1>1, <1>2, <1>3, <2>1, BarsGone
  <2>3. PlaceOK' /\ CleanWithoutStrays'
    BY <1>2, <2>1, BrowserAssumption DEF PlaceOK, CleanWithoutStrays
  <2>4. strayed' \in BOOLEAN
    BY <1>4, Zenon
  <2> QED BY <1>2, <2>1, <2>2, <2>3, <2>4 DEF BInv
<1>5. CASE strayed' = TRUE /\ UNCHANGED <<store, calls>>
  <2>1. UNCHANGED <<at, rows, token, loading, calls>>
    BY <1>5 DEF store
  <2>2. BarsOK'
    BY <1>1, <1>2, <1>3, <2>1, BarsGone
  <2>3. CallsOK' /\ ListingOK' /\ SpinOK'
    BY <2>1 DEF BInv, CallsOK, CallOK, Lists, PageOK, ListingOK, SpinOK
  <2>4. PlaceOK'
    BY <1>2, <2>1 DEF BInv, PlaceOK, Lists
  <2>5. CleanWithoutStrays' /\ strayed' \in BOOLEAN
    BY <1>5, Zenon DEF CleanWithoutStrays
  <2> QED BY <1>2, <2>2, <2>3, <2>4, <2>5 DEF BInv
<1> QED BY <1>4, <1>5 DEF Navigate

\* Nothing but the URL, the zone and the bucket list change.
LEMMA QuietStep ==
  ASSUME BInv, Leave \/ BucketsLoaded \/ UNCHANGED vars
  PROVE  BInv'
<1>1. UNCHANGED <<at, rows, token, loading, calls, content>>
  BY DEF Leave, BucketsLoaded, vars, store
<1>2. CallsOK' /\ ListingOK' /\ SpinOK' /\ ContentOK'
  BY <1>1 DEF BInv, CallsOK, CallOK, Lists, PageOK, ListingOK, SpinOK, ContentOK
<1>3. PlaceOK'
  BY <1>1 DEF BInv, PlaceOK, Lists, Leave, BucketsLoaded, vars
<1>4. CASE Leave
  <2>1. BarsOK'
    BY <1>4 DEF Leave, ZoneUnless, BarsOK
  <2>2. CleanWithoutStrays' /\ strayed' \in BOOLEAN
    BY <1>4, Zenon DEF Leave, CleanWithoutStrays
  <2> QED BY <1>2, <1>3, <2>1, <2>2 DEF BInv
<1>5. CASE BucketsLoaded \/ UNCHANGED vars
  <2>1. UNCHANGED <<url, zoned, bars, strayed>>
    BY <1>5 DEF BucketsLoaded, vars, zone
  <2>2. BarsOK' /\ CleanWithoutStrays' /\ strayed' \in BOOLEAN
    BY <1>1, <2>1 DEF BInv, BarsOK, CleanWithoutStrays
  <2> QED BY <1>2, <1>3, <2>2 DEF BInv
<1> QED BY <1>4, <1>5

LEMMA RetryStep ==
  ASSUME BInv, NEW c \in Calls, Retry(c)
  PROVE  BInv'
<1>1. calls[c].kind # "put" /\ url \in Places /\ UNCHANGED <<zone, url, content>>
  BY DEF Retry, Free, BInv, PlaceOK
<1>2. /\ CallsOK' /\ ListingOK' /\ SpinOK' /\ at' = url /\ rows' = <<>>
      /\ \A d \in Calls \ {c} : calls'[d] = calls[d]
  BY <1>1, FetchStep DEF Retry
<1>3. BarsOK'
  BY <1>1, <1>2, BarsKeep
<1>4. PlaceOK' /\ CleanWithoutStrays'
  BY <1>1, <1>2, BrowserAssumption DEF PlaceOK, CleanWithoutStrays
<1>5. strayed' \in BOOLEAN
  BY Zenon DEF Retry
<1>6. ContentOK'
  BY <1>1 DEF BInv, ContentOK
<1> QED BY <1>2, <1>3, <1>4, <1>5, <1>6 DEF BInv

LEMMA LoadMoreStep ==
  ASSUME BInv, NEW c \in Calls, LoadMore(c)
  PROVE  BInv'
<1> DEFINE old == Call("more", at)
           new == [old EXCEPT !.key = token, !.base = rows, !.stray = strayed]
<1>1. /\ calls[c].kind # "put" /\ token # 0 /\ url # Away
      /\ loading' = TRUE /\ calls' = [calls EXCEPT ![c] = new]
  BY DEF LoadMore, Free
<1>2. UNCHANGED <<zone, url, at, rows, token, content, strayed>>
  BY DEF LoadMore
<1>3. at \in Places /\ url \in Places
  BY <1>1 DEF BInv, PlaceOK
<1>4. ListingOK /\ strayed \in BOOLEAN
  BY DEF BInv
<1>5. old \in Call0 /\ old.kind = "more" /\ old.place = at /\ old.page = <<>> /\ old.next = 0
  BY <1>3, CallFields
<1> HIDE DEF old
<1>6. /\ new \in Call0 /\ new.kind = "more" /\ new.place = at /\ new.page = <<>>
      /\ new.next = 0 /\ new.key = token /\ new.base = rows /\ new.stray = strayed
  BY <1>4, <1>5 DEF Call0, ListingOK
<1>7. ~strayed => Pure(rows, at)
  BY <1>1 DEF BInv, CleanWithoutStrays, Pure
<1> HIDE DEF new
<1>8. CallOK(new) /\ Lists(new)
  BY <1>1, <1>3, <1>4, <1>6, <1>7 DEF CallOK, Lists, PageOK, ListingOK
<1>9. CallsOK' /\ calls'[c] = new /\ \A d \in Calls \ {c} : calls'[d] = calls[d]
  BY <1>1, <1>8, CallChanges DEF BInv
<1>10. SpinOK'
  BY <1>8, <1>9 DEF SpinOK, Lists
<1>11. PlaceOK'
  BY <1>2, <1>3, BrowserAssumption DEF PlaceOK
<1>12. BarsOK'
  BY <1>1, <1>2, <1>9, BarsKeep
<1>13. ListingOK' /\ ContentOK' /\ CleanWithoutStrays' /\ strayed' \in BOOLEAN
  BY <1>2 DEF BInv, ListingOK, ContentOK, CleanWithoutStrays
<1> QED BY <1>9, <1>10, <1>11, <1>12, <1>13 DEF BInv

LEMMA UploadStep ==
  ASSUME BInv, NEW c \in Calls, Upload(c)
  PROVE  BInv'
<1> DEFINE old == Call("put", url)
<1>1. /\ calls[c] = Free /\ url # Away /\ url \in Places
      /\ zoned' = zoned \cup {c} /\ bars' = bars \cup {c}
  BY DEF Upload, BInv, PlaceOK
<1>2. UNCHANGED <<url, at, rows, token, loading, content, strayed>>
  BY DEF Upload, store
<1>3. PICK k \in Keys : calls' = [calls EXCEPT ![c] = [old EXCEPT !.key = k, !.target = url]]
  BY DEF Upload
<1> DEFINE new == [old EXCEPT !.key = k, !.target = url]
<1>4. old \in Call0 /\ old.kind = "put" /\ old.place = url
  BY <1>1, CallFields
<1> HIDE DEF old
<1>5. k \in 0..MaxKey /\ url \in Targets
  BY <1>1, BrowserAssumption DEF Keys, Targets
<1>6. new \in Call0 /\ new.kind = "put" /\ new.key = k /\ new.place = url
  BY <1>4, <1>5 DEF Call0
<1>7. calls' = [calls EXCEPT ![c] = new]
  BY <1>3
<1> HIDE DEF new
<1>8. CallOK(new) /\ ~Lists(new)
  BY <1>1, <1>6 DEF CallOK, Lists
<1>9. CallsOK' /\ calls'[c] = new /\ \A d \in Calls \ {c} : calls'[d] = calls[d]
  BY <1>7, <1>8, CallChanges DEF BInv
<1>10. SpinOK' /\ PlaceOK'
  <2>1. url' \in Places \cup {Away}
    BY <1>1, <1>2
  <2> QED BY <1>1, <1>2, <1>8, <1>9, <2>1, FreeOK, SpinKeeps
<1>11. BarsOK'
  BY <1>1, <1>6, <1>9 DEF BInv, BarsOK
<1>12. ListingOK' /\ ContentOK' /\ CleanWithoutStrays' /\ strayed' \in BOOLEAN
  BY <1>2 DEF BInv, ListingOK, ContentOK, CleanWithoutStrays
<1> QED BY <1>9, <1>10, <1>11, <1>12 DEF BInv

LEMMA DeleteStep ==
  ASSUME BInv, NEW c \in Calls, Delete(c)
  PROVE  BInv'
<1> DEFINE old == Call("delete", url)
<1>1. calls[c] = Free /\ calls[c].kind # "put" /\ url # Away /\ url \in Places
  BY DEF Delete, BInv, PlaceOK, Free
<1>2. UNCHANGED <<zone, url, at, rows, token, loading, content, strayed>>
  BY DEF Delete, store
<1>3. PICK i \in 1..Len(rows) :
        calls' = [calls EXCEPT ![c] =
          [old EXCEPT !.key = rows[i].key,
             !.target = [bucket |-> url.bucket, prefix |-> rows[i].place.prefix]]]
  BY DEF Delete
<1> DEFINE t == [bucket |-> url.bucket, prefix |-> rows[i].place.prefix]
           new == [old EXCEPT !.key = rows[i].key, !.target = t]
<1>4. old \in Call0 /\ old.kind = "delete" /\ old.place = url
  BY <1>1, CallFields
<1>5. rows[i] \in Rows
  BY DEF BInv, ListingOK
<1>6. rows[i].key \in 0..MaxKey /\ rows[i].place \in Places
  BY <1>5, BrowserAssumption DEF Rows, Keys
<1>7. t \in Targets
  <2>1. \A p, q \in Places : [bucket |-> p.bucket, prefix |-> q.prefix] \in Targets
    BY DEF Targets
  <2> QED BY <1>1, <1>6, <2>1
<1>8. calls' = [calls EXCEPT ![c] = new]
  BY <1>3
<1> HIDE DEF old, t
<1>9. new \in Call0 /\ new.kind = "delete" /\ new.place = url
  BY <1>4, <1>6, <1>7 DEF Call0
<1> HIDE DEF new
<1>10. CallOK(new) /\ ~Lists(new)
  BY <1>1, <1>9 DEF CallOK, Lists
<1>11. CallsOK' /\ calls'[c] = new /\ \A d \in Calls \ {c} : calls'[d] = calls[d]
  BY <1>8, <1>10, CallChanges DEF BInv
<1>12. SpinOK' /\ PlaceOK'
  <2>1. url' \in Places \cup {Away}
    BY <1>1, <1>2
  <2> QED BY <1>1, <1>2, <1>10, <1>11, <2>1, FreeOK, SpinKeeps
<1>13. BarsOK'
  BY <1>1, <1>2, <1>11, BarsKeep
<1>14. ListingOK' /\ ContentOK' /\ CleanWithoutStrays' /\ strayed' \in BOOLEAN
  BY <1>2 DEF BInv, ListingOK, ContentOK, CleanWithoutStrays
<1> QED BY <1>11, <1>12, <1>13, <1>14 DEF BInv

----------------------------------------------------------------------------
(* ... what the backend does, and what answers do.                         *)

\* A call in flight is answered: its kind stays.
LEMMA AnswerStep ==
  ASSUME BInv, NEW c \in Calls, NEW new, CallOK(new), new.kind = calls[c].kind,
         calls' = [calls EXCEPT ![c] = new],
         UNCHANGED <<zone, url, store, strayed>>, ContentOK'
  PROVE  BInv'
<1>1. CallsOK' /\ calls'[c] = new /\ \A d \in Calls \ {c} : calls'[d] = calls[d]
  BY CallChanges DEF BInv
<1>2. UNCHANGED <<url, at, rows, token, loading, strayed, zoned, bars>>
  BY DEF store, zone
<1>3. SpinOK' /\ PlaceOK'
  <2>1. url' \in Places \cup {Away}
    BY <1>2 DEF BInv, PlaceOK
  <2>2. Lists(calls'[c]) <=> Lists(calls[c])
    BY <1>1 DEF Lists
  <2> QED BY <1>1, <1>2, <2>1, <2>2, SpinKeeps
<1>4. BarsOK'
  BY <1>1, <1>2 DEF BInv, BarsOK
<1>5. ListingOK' /\ CleanWithoutStrays' /\ strayed' \in BOOLEAN
  BY <1>2 DEF BInv, ListingOK, CleanWithoutStrays
<1> QED BY <1>1, <1>3, <1>4, <1>5 DEF BInv

\* The stage of a call is of no concern to what it carries.
LEMMA Restaged ==
  ASSUME NEW call, CallOK(call), NEW s \in {"sent", "ok", "failed"}
  PROVE  /\ CallOK([call EXCEPT !.stage = s])
         /\ [call EXCEPT !.stage = s].kind = call.kind
<1> DEFINE new == [call EXCEPT !.stage = s]
<1>1. call \in Call0
  BY DEF CallOK
<1>2. /\ new \in Call0 /\ new.kind = call.kind /\ new.place = call.place /\ new.key = call.key
      /\ new.base = call.base /\ new.target = call.target /\ new.page = call.page
      /\ new.next = call.next /\ new.stray = call.stray
  BY <1>1 DEF Call0
<1> HIDE DEF new
<1>3. CallOK(new)
  BY <1>2 DEF CallOK, Lists, PageOK
<1> QED BY <1>2, <1>3 DEF new

LEMMA ServeListStep ==
  ASSUME BInv, NEW c \in Calls, ServeList(c)
  PROVE  BInv'
<1> DEFINE call == calls[c]
           p == call.place
           left == {k \in content[p] : k > call.key}
<1>1. CallOK(call) /\ call \in Call0 /\ Lists(call) /\ p \in Places /\ ContentOK
  BY DEF ServeList, Lists, BInv, CallsOK, CallOK
<1>2. UNCHANGED <<zone, url, store, strayed>> /\ ContentOK'
  BY <1>1 DEF ServeList, ContentOK
<1>3. CASE calls' = [calls EXCEPT ![c].stage = "ok"]
  <2>1. calls' = [calls EXCEPT ![c] = [call EXCEPT !.stage = "ok"]]
    BY <1>3 DEF BInv, CallsOK
  <2> HIDE DEF call
  <2>2. CallOK([call EXCEPT !.stage = "ok"]) /\ [call EXCEPT !.stage = "ok"].kind = call.kind
    BY <1>1, Restaged
  <2> QED BY <1>2, <2>1, <2>2, AnswerStep DEF call
<1>4. ASSUME NEW k \in left,
             calls' = [calls EXCEPT ![c].stage = "ok", ![c].page = <<Row(p, k)>>,
                                    ![c].next = IF left = {k} THEN 0 ELSE k]
      PROVE  BInv'
  <2> DEFINE n == IF left = {k} THEN 0 ELSE k
             r == Row(p, k)
             new == [call EXCEPT !.stage = "ok", !.page = <<r>>, !.next = n]
  <2>1. calls' = [calls EXCEPT ![c] = new]
    BY <1>4 DEF BInv, CallsOK
  <2>2. k \in Keys /\ k > call.key
    BY <1>1, <1>4 DEF ContentOK
  <2>3. r \in Rows /\ r.place = p /\ r.key = k
    BY <1>1, <2>2 DEF Row, Rows
  <2>4. n \in {0, k} /\ n \in 0..MaxKey
    BY <2>2, BrowserAssumption DEF Keys
  <2> HIDE DEF n, r
  <2>5. <<r>> \in Seq(Rows)
    BY <2>3
  <2>6. /\ new \in Call0 /\ new.kind = call.kind /\ new.place = p /\ new.key = call.key
        /\ new.base = call.base /\ new.target = call.target /\ new.page = <<r>>
        /\ new.next = n /\ new.stray = call.stray
    BY <1>1, <2>4, <2>5 DEF Call0
  <2> HIDE DEF new
  <2>7. call.key < r.key
    BY <1>1, <2>2, <2>3, BrowserAssumption DEF Call0, Keys
  <2>8. PageOK(new)
    BY <2>3, <2>4, <2>6, <2>7 DEF PageOK
  <2>9. CallOK(new)
    BY <1>1, <2>6, <2>8 DEF CallOK, Lists
  <2> QED BY <1>2, <2>1, <2>6, <2>9, AnswerStep
<1> QED BY <1>3, <1>4 DEF ServeList

LEMMA ServeChangeStep ==
  ASSUME BInv, NEW c \in Calls, ServeChange(c)
  PROVE  BInv'
<1> DEFINE call == calls[c]
<1>1. CallOK(call) /\ call.kind \in {"put", "delete"}
  BY DEF ServeChange, Waits, Lists, BInv, CallsOK, CallOK, Call0
<1>2. calls' = [calls EXCEPT ![c] = [call EXCEPT !.stage = "ok"]]
  BY DEF ServeChange, BInv, CallsOK
<1>3. ContentOK'
  <2>1. call.kind = "put" => call.key \in Keys
    BY <1>1 DEF CallOK
  <2>2. PICK t \in Places :
          content' = [content EXCEPT ![t] = IF call.kind = "put" THEN @ \cup {call.key}
                                            ELSE @ \ {call.key}]
    BY DEF ServeChange
  <2> HIDE DEF call
  <2> QED BY <2>1, <2>2 DEF BInv, ContentOK
<1>4. UNCHANGED <<zone, url, store, strayed>>
  BY DEF ServeChange
<1> HIDE DEF call
<1>5. CallOK([call EXCEPT !.stage = "ok"]) /\ [call EXCEPT !.stage = "ok"].kind = call.kind
  BY <1>1, Restaged
<1> QED BY <1>2, <1>3, <1>4, <1>5, AnswerStep DEF call

LEMMA CallFailsStep ==
  ASSUME BInv, NEW c \in Calls, CallFails(c)
  PROVE  BInv'
<1> DEFINE call == calls[c]
<1>1. CallOK(call)
  BY DEF BInv, CallsOK
<1>2. calls' = [calls EXCEPT ![c] = [call EXCEPT !.stage = "failed"]]
  BY DEF CallFails, BInv, CallsOK
<1>3. UNCHANGED <<zone, url, store, strayed>> /\ ContentOK'
  BY DEF CallFails, BInv, ContentOK
<1> HIDE DEF call
<1>4. CallOK([call EXCEPT !.stage = "failed"]) /\ [call EXCEPT !.stage = "failed"].kind = call.kind
  BY <1>1, Restaged
<1> QED BY <1>2, <1>3, <1>4, AnswerStep DEF call

LEMMA ListSucceedsStep ==
  ASSUME BInv, NEW c \in Calls, ListSucceeds(c)
  PROVE  BInv'
<1> DEFINE call == calls[c]
<1>1. CallOK(call) /\ call \in Call0 /\ Lists(call) /\ call.kind # "put"
  BY DEF ListSucceeds, Lists, BInv, CallsOK, CallOK
<1>2. /\ rows' = Extended(call) /\ token' = call.next /\ loading' = FALSE
      /\ strayed' = (strayed \/ call.stray \/ call.place # url)
      /\ calls' = [calls EXCEPT ![c] = Free]
      /\ UNCHANGED <<zone, url, at, content>>
  BY DEF ListSucceeds
<1>3. CallsOK' /\ \A d \in Calls \ {c} : calls'[d] = calls[d]
  BY <1>2, FreeOK, CallChanges DEF BInv
<1>4. calls'[c] = Free
  BY <1>2, FreeOK, CallChanges DEF BInv
<1>5. at \in Places
  BY <1>1 DEF BInv, PlaceOK
<1> HIDE DEF call
<1> DEFINE base == IF call.kind = "more" THEN call.base ELSE <<>>
<1>6. /\ base \in Seq(Rows) /\ Ascending(base) /\ Below(base, call.key)
      /\ ~call.stray => Pure(base, call.place)
  BY <1>1, EmptyRows DEF CallOK, Call0
<1>7. Extended(call) = base \o call.page
  <2>1. call.page \in Seq(Rows)
    BY <1>1 DEF Call0
  <2>2. CASE call.kind = "more"
    BY <2>2 DEF Extended
  <2>3. CASE call.kind # "more"
    <3>1. <<>> \o call.page = call.page
      BY <2>1
    <3>2. Extended(call) = call.page /\ base = <<>>
      BY <2>3 DEF Extended
    <3> HIDE DEF base
    <3> QED BY <3>1, <3>2
  <2> QED BY <2>2, <2>3
<1> HIDE DEF base
<1>8. /\ rows' \in Seq(Rows) /\ Ascending(rows') /\ token' \in 0..MaxKey
      /\ token' # 0 => Below(rows', token')
      /\ ~call.stray => Pure(rows', call.place)
  <2>1. call.key \in Int /\ call.next \in 0..MaxKey
    BY <1>1, BrowserAssumption DEF Call0
  <2>2. CASE call.page = <<>> /\ call.next = 0
    <3>1. rows' = base
      BY <1>2, <1>6, <1>7, <2>2
    <3> QED BY <1>2, <1>6, <2>1, <2>2, <3>1
  <2>3. ASSUME NEW r \in Rows, call.page = <<r>>, r.place = call.place, call.key < r.key,
               call.next \in {0, r.key}
        PROVE  /\ rows' \in Seq(Rows) /\ Ascending(rows') /\ token' \in 0..MaxKey
               /\ token' # 0 => Below(rows', token')
               /\ ~call.stray => Pure(rows', call.place)
    <3>1. rows' = base \o <<r>>
      BY <1>2, <1>7, <2>3
    <3>2. /\ base \o <<r>> \in Seq(Rows) /\ Ascending(base \o <<r>>)
          /\ Below(base \o <<r>>, r.key)
          /\ Pure(base, call.place) => Pure(base \o <<r>>, call.place)
      BY <1>6, <2>1, <2>3, AppendRow
    <3> QED BY <1>2, <1>6, <2>1, <2>3, <3>1, <3>2
  <2> QED BY <1>1, <2>2, <2>3 DEF CallOK, PageOK
<1>9. ListingOK'
  BY <1>8 DEF ListingOK, Ascending, Below
<1>10. SpinOK' /\ PlaceOK'
  BY <1>2, <1>5, BrowserAssumption DEF BInv, SpinOK, PlaceOK
<1>11. BarsOK'
  BY <1>1, <1>2, <1>3, BarsKeep DEF call
<1>12. strayed' \in BOOLEAN
  BY <1>1, <1>2 DEF BInv, Call0
<1>13. CleanWithoutStrays'
  <2> SUFFICES ASSUME url # Away, ~strayed, ~call.stray, call.place = url
               PROVE  at = url /\ Pure(rows', url)
    BY <1>2 DEF CleanWithoutStrays, Pure
  <2> QED BY <1>8 DEF BInv, CleanWithoutStrays
<1>14. ContentOK'
  BY <1>2 DEF BInv, ContentOK
<1> QED BY <1>3, <1>9, <1>10, <1>11, <1>12, <1>13, <1>14 DEF BInv

LEMMA ListFailsStep ==
  ASSUME BInv, NEW c \in Calls, ListFails(c)
  PROVE  BInv'
<1>1. calls[c].kind # "put" /\ Lists(calls[c])
  BY DEF ListFails, Lists
<1>2. /\ loading' = FALSE /\ calls' = [calls EXCEPT ![c] = Free]
      /\ UNCHANGED <<zone, url, at, rows, token, content, strayed>>
  BY DEF ListFails
<1>3. CallsOK' /\ \A d \in Calls \ {c} : calls'[d] = calls[d]
  BY <1>2, FreeOK, CallChanges DEF BInv
<1>4. SpinOK' /\ PlaceOK'
  BY <1>1, <1>2 DEF BInv, SpinOK, PlaceOK
<1>5. BarsOK'
  BY <1>1, <1>2, <1>3, BarsKeep
<1>6. ListingOK' /\ ContentOK' /\ CleanWithoutStrays' /\ strayed' \in BOOLEAN
  BY <1>2 DEF BInv, ListingOK, ContentOK, CleanWithoutStrays
<1> QED BY <1>3, <1>4, <1>5, <1>6 DEF BInv

\* A bar ends with its upload, whatever zone that was started in.
LEMMA BarEndsStep ==
  ASSUME BInv, NEW c \in Calls, BarEnds(c), \A d \in Calls \ {c} : calls'[d] = calls[d]
  PROVE  BarsOK'
<1>1. bars \subseteq zoned /\ zoned \subseteq Calls /\ \A d \in bars : calls[d].kind = "put"
  BY DEF BInv, BarsOK
<1>2. c \notin bars' /\ bars' \subseteq bars /\ zoned' = zoned \ {c}
  BY <1>1 DEF BarEnds
<1> QED BY <1>1, <1>2 DEF BarsOK

LEMMA ChangeStep ==
  ASSUME BInv, NEW c \in Calls, ChangeSucceeds(c) \/ ChangeFails(c)
  PROVE  BInv'
<1>1. calls[c].kind \in {"put", "delete"} /\ BarEnds(c) /\ UNCHANGED <<url, content>>
  BY DEF ChangeSucceeds, ChangeFails
<1>2. ContentOK' /\ url \in Places \cup {Away}
  BY <1>1 DEF BInv, ContentOK, PlaceOK
<1>3. CASE ChangeFails(c)
  <2>1. calls' = [calls EXCEPT ![c] = Free] /\ UNCHANGED <<at, rows, token, loading, strayed>>
    BY <1>3 DEF ChangeFails, store
  <2>2. CallsOK' /\ calls'[c] = Free /\ \A d \in Calls \ {c} : calls'[d] = calls[d]
    BY <2>1, FreeOK, CallChanges DEF BInv
  <2>3. Lists(calls'[c]) <=> Lists(calls[c])
    BY <1>1, <2>2, FreeOK DEF Lists
  <2>4. SpinOK' /\ PlaceOK'
    BY <1>1, <1>2, <2>1, <2>2, <2>3, SpinKeeps
  <2>5. BarsOK'
    BY <1>1, <2>2, BarEndsStep
  <2>6. ListingOK' /\ CleanWithoutStrays' /\ strayed' \in BOOLEAN
    BY <1>1, <2>1 DEF BInv, ListingOK, CleanWithoutStrays
  <2> QED BY <1>2, <2>2, <2>4, <2>5, <2>6 DEF BInv
<1>4. CASE ChangeSucceeds(c)
  <2> DEFINE p == calls[c].place
  <2>1. FetchObjects(c, p) /\ strayed' = (p # url)
    BY <1>4 DEF ChangeSucceeds
  <2>2. p \in Places
    BY <1>1 DEF BInv, CallsOK, CallOK
  <2> HIDE DEF p
  <2>3. /\ CallsOK' /\ ListingOK' /\ SpinOK' /\ at' = p /\ rows' = <<>>
        /\ \A d \in Calls \ {c} : calls'[d] = calls[d]
    BY <2>1, <2>2, FetchStep
  <2>4. PlaceOK' /\ CleanWithoutStrays'
    <3>1. PlaceOK'
      BY <1>1, <1>2, <2>2, <2>3, BrowserAssumption DEF PlaceOK
    <3>2. ~strayed' => p = url'
      BY <1>1, <2>1
    <3>3. CleanWithoutStrays'
      BY <2>3, <3>2 DEF CleanWithoutStrays
    <3> QED BY <3>1, <3>3
  <2>5. BarsOK'
    BY <1>1, <2>3, BarEndsStep
  <2>6. strayed' \in BOOLEAN
    BY <2>1
  <2> QED BY <1>2, <2>3, <2>4, <2>5, <2>6 DEF BInv
<1> QED BY <1>3, <1>4

----------------------------------------------------------------------------

LEMMA BInvStep ==
  ASSUME BInv, [Next]_vars
  PROVE  BInv'
BY NavigateStep, QuietStep, RetryStep, LoadMoreStep, UploadStep, DeleteStep, ServeListStep,
   ServeChangeStep, CallFailsStep, ListSucceedsStep, ListFailsStep, ChangeStep DEF Next

LEMMA BInvAlways == Spec => []BInv
<1>1. ASSUME Init PROVE BInv
  <2>1. CallsOK
    <3>1. Free \in Call0
      BY FreeOK DEF CallOK
    <3> QED BY <1>1, <3>1, FreeOK DEF Init, CallsOK
  <2>2. ListingOK /\ ContentOK
    BY <1>1, EmptyRows, BrowserAssumption DEF Init, ListingOK, ContentOK
  <2>3. PlaceOK
    BY <1>1, FreeOK DEF Init, PlaceOK
  <2>4. BarsOK
    BY <1>1 DEF Init, BarsOK
  <2>5. SpinOK /\ CleanWithoutStrays /\ strayed \in BOOLEAN
    BY <1>1, Zenon DEF Init, SpinOK, CleanWithoutStrays
  <2> QED BY <2>1, <2>2, <2>3, <2>4, <2>5 DEF BInv
<1> QED BY <1>1, BInvStep, PTL DEF Spec

\* However refreshes and loads overlap, the rows shown are in listing order and
\* none is there twice (browser.ts:76-90).
THEOREM NoRowTwiceAlways == Spec => []NoRowTwice
BY BInvAlways, BInvImplies, PTL

\* While the store says loading a listing is in flight, and each progress bar
\* is of an upload in flight (browser.ts:48-92, UploadZone.tsx).
THEOREM SpinnerHasCauseAlways == Spec => []SpinnerHasCause
BY BInvAlways, BInvImplies, PTL

\* Unless an answer or a refresh of another place was applied, the rows are of
\* the place in the URL (browser.ts:46-57).
THEOREM CleanWithoutStraysAlways == Spec => []CleanWithoutStrays
BY BInvAlways, BInvImplies, PTL

----------------------------------------------------------------------------
(* The statistics of the bucket list.                                      *)

CallRecords == [queue : SUBSET Names, flying : SUBSET Names, old : BOOLEAN]

\* A call of fetchBucketStats: a name is queued or in flight, and while a
\* name is left some worker is at work.
CallWorks(run) ==
    /\ run.queue \cap run.flying = {}
    /\ run.flying = {} => run = Finished

\* The calls rs made for the list of now look up names that were requested,
\* each name in one call.
Apart(rs, asked) ==
    /\ \A r \in Runs : ~rs[r].old => Pending(rs[r]) \subseteq asked
    /\ \A r, s \in Runs :
          r # s /\ ~rs[r].old /\ ~rs[s].old =>
              Pending(rs[r]) \cap Pending(rs[s]) = {}

\* A name that was requested is answered, or a call for the list of now has
\* it still to look up.
Kept(rs, asked, answered) ==
    \A n \in asked :
        n \in answered \/ \E r \in Runs : ~rs[r].old /\ n \in Pending(rs[r])

RunsOK(rs, asked, answered) ==
    /\ rs \in [Runs -> CallRecords]
    /\ \A r \in Runs : CallWorks(rs[r])
    /\ Apart(rs, asked)
    /\ Kept(rs, asked, answered)

CardsInv ==
    /\ list \subseteq Names
    /\ sized \subseteq Names
    /\ requested \subseteq list
    /\ RunsOK(runs, requested, sized \cup failed)
    /\ page = "buckets" => Undecorated(list, sized) \subseteq requested

LEMMA FinishedOK ==
  /\ Finished \in CallRecords
  /\ CallWorks(Finished)
  /\ Pending(Finished) = {}
  /\ ~Finished.old
BY DEF Finished, CallRecords, CallWorks, Pending

\* A new call: at least one worker takes a name.
LEMMA CallStarts ==
  ASSUME NEW queue \in SUBSET Names, queue # {},
         NEW first \in SUBSET queue,
         Cardinality(first) =
             Smaller(StatsConcurrency, Cardinality(queue)),
         NEW run, run = [queue |-> queue \ first, flying |-> first, old |-> FALSE]
  PROVE  run \in CallRecords /\ CallWorks(run) /\ Pending(run) = queue
<1>1. IsFiniteSet(queue)
  BY FS_Subset, StoreAssumption
<1>2. Cardinality(queue) \in Nat /\ Cardinality(queue) # 0
  BY <1>1, FS_CardinalityType, FS_EmptySet
<1>3. Cardinality(first) # 0
  BY <1>2, StoreAssumption DEF Smaller
<1>4. first # {}
  BY <1>3, FS_EmptySet
<1> QED BY <1>4 DEF CallRecords, CallWorks, Pending

\* The effect of the page, on calls that are as they should be.
LEMMA EffectKeeps ==
  ASSUME NEW names \in SUBSET Names, NEW sizes,
         NEW rs, NEW asked \in SUBSET names, NEW answered,
         RunsOK(rs, asked, answered),
         Effect(names, sizes, rs, asked)
  PROVE  /\ RunsOK(runs', requested', answered)
         /\ requested' \subseteq names
         /\ page' = "buckets" => Undecorated(names, sizes) \subseteq requested'
<1> DEFINE queue == Queue(Undecorated(names, sizes), asked)
<1>1. /\ queue \subseteq names /\ queue \cap asked = {}
      /\ Undecorated(names, sizes) \subseteq asked \cup queue
  BY DEF Queue, Undecorated
<1>2. CASE /\ page' = "browser" \/ queue = {}
           /\ requested' = asked /\ runs' = rs
  BY <1>1, <1>2
<1>3. CASE /\ page' = "buckets" /\ queue # {}
           /\ requested' = asked \cup queue
           /\ \E r \in Runs, first \in SUBSET queue :
               /\ rs[r] = Finished
               /\ Cardinality(first) =
                      Smaller(StatsConcurrency, Cardinality(queue))
               /\ runs' = [rs EXCEPT ![r] = [queue |-> queue \ first, flying |-> first,
                                             old |-> FALSE]]
  <2>1. PICK r \in Runs, first \in SUBSET queue :
               /\ rs[r] = Finished
               /\ Cardinality(first) =
                      Smaller(StatsConcurrency, Cardinality(queue))
               /\ runs' = [rs EXCEPT ![r] = [queue |-> queue \ first, flying |-> first,
                                             old |-> FALSE]]
    BY <1>3
  <2> DEFINE run == [queue |-> queue \ first, flying |-> first, old |-> FALSE]
  <2>2. run \in CallRecords /\ CallWorks(run) /\ Pending(run) = queue /\ ~run.old
    BY <1>1, <1>3, <2>1, CallStarts
  <2> HIDE DEF run, queue
  <2>3. /\ rs \in [Runs -> CallRecords]
        /\ runs' = [rs EXCEPT ![r] = run]
    BY <2>1 DEF RunsOK, run
  <2>4. /\ runs' \in [Runs -> CallRecords]
        /\ runs'[r] = run
        /\ \A s \in Runs \ {r} : runs'[s] = rs[s]
    BY <2>2, <2>3
  <2>5. \A s \in Runs : CallWorks(runs'[s])
    BY <2>2, <2>4 DEF RunsOK
  <2>6. \A s \in Runs \ {r} : ~rs[s].old => Pending(rs[s]) \subseteq asked
    BY DEF RunsOK, Apart
  <2>7. Apart(runs', requested')
    <3>1. \A s \in Runs : ~runs'[s].old => Pending(runs'[s]) \subseteq asked \cup queue
      BY <2>2, <2>4, <2>6
    <3>2. \A s \in Runs \ {r} : ~runs'[s].old => Pending(runs'[s]) \cap queue = {}
      BY <1>1, <2>4, <2>6
    <3>3. \A s, t \in Runs \ {r} :
             s # t /\ ~runs'[s].old /\ ~runs'[t].old =>
                 Pending(runs'[s]) \cap Pending(runs'[t]) = {}
      BY <2>4 DEF RunsOK, Apart
    <3> QED BY <1>3, <2>2, <2>4, <3>1, <3>2, <3>3 DEF Apart
  <2>8. Kept(runs', requested', answered)
    <3> SUFFICES ASSUME NEW n \in requested'
                 PROVE  \/ n \in answered
                        \/ \E s \in Runs : ~runs'[s].old /\ n \in Pending(runs'[s])
      BY DEF Kept
    <3>1. CASE n \in queue
      BY <2>2, <2>4, <3>1
    <3>2. CASE n \in asked
      <4>1. \/ n \in answered
            \/ \E s \in Runs : ~rs[s].old /\ n \in Pending(rs[s])
        BY <3>2 DEF RunsOK, Kept
      <4>2. n \notin Pending(rs[r])
        BY <2>1, FinishedOK
      <4> QED BY <2>4, <4>1, <4>2
    <3> QED BY <1>3, <3>1, <3>2
  <2> QED BY <1>1, <1>3, <2>4, <2>5, <2>7, <2>8 DEF RunsOK
<1> QED BY <1>2, <1>3 DEF Effect

\* A worker of r is done with n, whose lookup is answered, and goes on.
LEMMA AdvanceKeeps ==
  ASSUME NEW asked, NEW answered, RunsOK(runs, asked, answered),
         NEW r \in Runs, NEW n \in runs[r].flying, NEW next \in NextOf(r),
         NEW more, answered \subseteq more, ~runs[r].old => n \in more
  PROVE  RunsOK(Advance(r, n, next), asked, more)
<1> DEFINE run == [runs[r] EXCEPT !.queue = @ \ next, !.flying = (@ \ {n}) \cup next]
           rs == Advance(r, n, next)
<1>1. /\ runs \in [Runs -> CallRecords] /\ runs[r] \in CallRecords
      /\ CallWorks(runs[r])
  BY DEF RunsOK
<1>2. next \subseteq runs[r].queue /\ (runs[r].queue # {} => next # {})
  BY DEF NextOf
<1>3. /\ run \in CallRecords
      /\ run.old = runs[r].old
      /\ run.queue = runs[r].queue \ next
      /\ run.flying = (runs[r].flying \ {n}) \cup next
  BY <1>1, <1>2 DEF CallRecords
<1> HIDE DEF run
<1>4. /\ Pending(run) = Pending(runs[r]) \ {n}
      /\ run.queue \cap run.flying = {}
      /\ run.flying = {} => Pending(run) = {}
  BY <1>1, <1>2, <1>3 DEF Pending, CallWorks
<1>5. rs = [runs EXCEPT ![r] = IF Pending(run) = {} THEN Finished ELSE run]
  BY DEF Advance, run
<1> HIDE DEF rs
<1>6. /\ rs \in [Runs -> CallRecords]
      /\ \A s \in Runs \ {r} : rs[s] = runs[s]
      /\ CallWorks(rs[r])
      /\ Pending(rs[r]) = Pending(runs[r]) \ {n}
      /\ rs[r].old => runs[r].old
      /\ rs[r].old = runs[r].old \/ Pending(rs[r]) = {}
  <2>1. CASE Pending(run) = {}
    BY <1>1, <1>4, <1>5, <2>1, FinishedOK
  <2>2. CASE Pending(run) # {}
    BY <1>1, <1>3, <1>4, <1>5, <2>2 DEF CallWorks
  <2> QED BY <2>1, <2>2
<1>7. \A s \in Runs : CallWorks(rs[s])
  BY <1>6 DEF RunsOK
<1>8. Apart(rs, asked)
  BY <1>6 DEF RunsOK, Apart
<1>9. Kept(rs, asked, more)
  <2> SUFFICES ASSUME NEW m \in asked, m \notin more
               PROVE  \E s \in Runs : ~rs[s].old /\ m \in Pending(rs[s])
    BY DEF Kept
  <2>1. PICK s \in Runs : ~runs[s].old /\ m \in Pending(runs[s])
    BY DEF RunsOK, Kept
  <2>2. CASE s = r
    BY <1>6, <2>1, <2>2
  <2>3. CASE s # r
    BY <1>6, <2>1, <2>3
  <2> QED BY <2>2, <2>3
<1> QED BY <1>6, <1>7, <1>8, <1>9 DEF RunsOK, rs

\* A list is loaded: no call in progress counts for it.
LEMMA AgedKeeps ==
  ASSUME NEW asked, NEW answered, RunsOK(runs, asked, answered)
  PROVE  RunsOK(Aged(runs), {}, {})
<1> DEFINE rs == Aged(runs)
<1>1. runs \in [Runs -> CallRecords] /\ \A r \in Runs : CallWorks(runs[r])
  BY DEF RunsOK
<1>2. ASSUME NEW r \in Runs
      PROVE  /\ rs[r] \in CallRecords /\ CallWorks(rs[r])
             /\ rs[r].old \/ Pending(rs[r]) = {}
  <2>1. CASE runs[r] = Finished
    BY <2>1, FinishedOK DEF Aged
  <2>2. CASE runs[r] # Finished
    <3>1. rs[r] = [runs[r] EXCEPT !.old = TRUE]
      BY <2>2 DEF Aged
    <3>2. /\ rs[r] \in CallRecords /\ rs[r].old
          /\ rs[r].queue = runs[r].queue /\ rs[r].flying = runs[r].flying
      BY <1>1, <3>1 DEF CallRecords
    <3> QED BY <1>1, <2>2, <3>2 DEF CallWorks
  <2> QED BY <2>1, <2>2
<1>3. rs \in [Runs -> CallRecords]
  BY <1>2 DEF Aged
<1>4. Apart(rs, {})
  <2> HIDE DEF rs
  <2> QED BY <1>2 DEF Apart
<1> QED BY <1>2, <1>3, <1>4 DEF RunsOK, Kept

LEMMA CardsInitOK == CardsInit => CardsInv
<1> SUFFICES ASSUME CardsInit
             PROVE  CardsInv
  OBVIOUS
<1>1. runs \in [Runs -> CallRecords] /\ \A r \in Runs : runs[r] = Finished
  BY FinishedOK DEF CardsInit
<1>2. RunsOK(runs, requested, sized \cup failed)
  BY <1>1, FinishedOK DEF CardsInit, RunsOK, Apart, Kept
<1> QED BY <1>2 DEF CardsInit, CardsInv, Undecorated

LEMMA CardsStep ==
  ASSUME CardsInv, [CardsNext]_cardsVars
  PROVE  CardsInv'
<1>1. /\ list \subseteq Names /\ sized \subseteq Names /\ requested \subseteq list
      /\ RunsOK(runs, requested, sized \cup failed)
      /\ page = "buckets" => Undecorated(list, sized) \subseteq requested
  BY DEF CardsInv
<1>2. CASE OpenBuckets
  <2>1. Effect(list, sized, runs, requested)
    BY <1>2 DEF OpenBuckets
  <2>2. /\ RunsOK(runs', requested', sized \cup failed)
        /\ requested' \subseteq list
        /\ page' = "buckets" => Undecorated(list, sized) \subseteq requested'
    BY <1>1, <2>1, EffectKeeps
  <2>3. UNCHANGED <<list, sized, failed>>
    BY <1>2 DEF OpenBuckets
  <2> QED BY <1>1, <2>2, <2>3 DEF CardsInv, RunsOK, Apart, Kept, Undecorated, Pending
<1>3. CASE OpenBrowser
  <2>1. page' = "browser" /\ UNCHANGED <<list, sized, requested, runs, failed>>
    BY <1>3 DEF OpenBrowser
  <2> QED BY <1>1, <2>1 DEF CardsInv, RunsOK
<1>4. CASE ListFailed
  <2>1. UNCHANGED <<page, list, sized, requested, runs, failed>>
    BY <1>4 DEF ListFailed
  <2> QED BY <1>1, <2>1 DEF CardsInv, RunsOK
<1>5. ASSUME NEW names \in SUBSET Names, ListLoaded(names)
      PROVE  CardsInv'
  <2>1. /\ list' = names /\ sized' = {} /\ failed' = {}
        /\ Effect(names, {}, Aged(runs), {})
    BY <1>5 DEF ListLoaded, Cleared
  <2>2. RunsOK(Aged(runs), {}, {})
    BY <1>1, AgedKeeps
  <2>3. /\ RunsOK(runs', requested', {})
        /\ requested' \subseteq names
        /\ page' = "buckets" => Undecorated(names, {}) \subseteq requested'
    BY <2>1, <2>2, EffectKeeps
  <2> QED BY <2>1, <2>3 DEF CardsInv
<1>6. ASSUME NEW r \in Runs, NEW n \in Names, StatsArrive(r, n)
      PROVE  CardsInv'
  <2>1. /\ n \in runs[r].flying
        /\ sized' = sized \cup ({n} \cap list)
        /\ UNCHANGED <<page, list, fetches, failed>>
    BY <1>6 DEF StatsArrive
  <2>2. PICK next \in NextOf(r) :
          Effect(list, sized', Advance(r, n, next), requested)
    BY <1>6 DEF StatsArrive
  <2>3. ~runs[r].old => n \in sized' \cup failed
    BY <1>1, <2>1 DEF RunsOK, Apart, Pending
  <2>4. RunsOK(Advance(r, n, next), requested, sized' \cup failed)
    BY <1>1, <2>1, <2>3, AdvanceKeeps
  <2>5. /\ RunsOK(runs', requested', sized' \cup failed)
        /\ requested' \subseteq list
        /\ page' = "buckets" => Undecorated(list, sized') \subseteq requested'
    BY <1>1, <2>2, <2>4, EffectKeeps
  <2> QED BY <1>1, <2>1, <2>5 DEF CardsInv
<1>7. ASSUME NEW r \in Runs, NEW n \in Names, StatsFail(r, n)
      PROVE  CardsInv'
  <2>1. /\ n \in runs[r].flying
        /\ failed' = failed \cup {n}
        /\ UNCHANGED <<page, list, sized, requested, fetches>>
    BY <1>7 DEF StatsFail
  <2>2. PICK next \in NextOf(r) : runs' = Advance(r, n, next)
    BY <1>7 DEF StatsFail
  <2>3. RunsOK(runs', requested, sized \cup failed')
    BY <1>1, <2>1, <2>2, AdvanceKeeps
  <2> QED BY <1>1, <2>1, <2>3 DEF CardsInv
<1>8. CASE UNCHANGED cardsVars
  BY <1>1, <1>8 DEF CardsInv, RunsOK, cardsVars
<1> QED BY <1>2, <1>3, <1>4, <1>5, <1>6, <1>7, <1>8 DEF CardsNext

LEMMA CardsInvAlways == CardsSpec => []CardsInv
<1>1. CardsInit => CardsInv
  BY CardsInitOK
<1>2. CardsInv /\ [CardsNext]_cardsVars => CardsInv'
  BY CardsStep
<1> QED BY <1>1, <1>2, PTL DEF CardsSpec

\* However merges fire the page's effect again, lists are reloaded and pages
\* left, two calls of fetchBucketStats for one list look up different names.
THEOREM NoDoubleLookupAlways == CardsSpec => []NoDoubleLookup
<1>1. CardsInv => NoDoubleLookup
  BY DEF CardsInv, RunsOK, Apart, NoDoubleLookup
<1> QED BY <1>1, CardsInvAlways, PTL

\* On the Buckets page every readable bucket without a size has been asked
\* for, and its lookup failed or is still some worker's to do.
THEOREM NoCardForgottenAlways == CardsSpec => []NoCardForgotten
<1>1. CardsInv => NoCardForgotten
  <2> SUFFICES ASSUME CardsInv, page = "buckets",
                      NEW n \in Undecorated(list, sized), n \notin failed
               PROVE  \/ \E r \in Runs : n \in runs[r].flying
                      \/ \E r \in Runs : n \in runs[r].queue /\ runs[r].flying # {}
    BY DEF NoCardForgotten
  <2>1. n \in requested /\ n \notin sized
    BY DEF CardsInv, Undecorated
  <2>2. PICK r \in Runs : n \in Pending(runs[r])
    BY <2>1 DEF CardsInv, RunsOK, Kept
  <2>3. CallWorks(runs[r])
    BY DEF CardsInv, RunsOK
  <2> QED BY <2>2, <2>3, FinishedOK DEF CallWorks, Pending
<1> QED BY <1>1, CardsInvAlways, PTL

============================================================================
