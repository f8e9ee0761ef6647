---------------------------- MODULE BrowserStore ----------------------------
(***************************************************************************)
(* The object listing of the single-page application: the store of         *)
(* web/src/store/browser.ts, the page that drives it (pages/Browser.tsx)   *)
(* and the calls of components/ObjectBrowser.tsx and UploadZone.tsx that   *)
(* end in a refresh.  Calls are asynchronous: between a call and its       *)
(* answer the user may go elsewhere, refresh, load more, upload or delete, *)
(* and answers arrive in any order or not as a success.                    *)
(*                                                                         *)
(* A place is a bucket and a prefix.  A page of a listing holds one row    *)
(* (max_keys is 1000 in the API); a row stands for an object or a folder,  *)
(* which the store keeps in two arrays it always writes together.  The     *)
(* continuation token is the key to go on after, 0 when there is none;     *)
(* "truncated" is set exactly with it.                                     *)
(***************************************************************************)
EXTENDS Integers, Sequences

CONSTANTS
    Places,       \* the places, records [bucket, prefix]
    Away,         \* the page on screen is not a bucket's
    Readable,     \* buckets the user may list
    Writable,     \* buckets the user may write
    InitContent,  \* the keys of each place at the start
    Calls,        \* slots for calls in flight; their number is the bound
    MaxKey        \* keys are 1..MaxKey, in listing order

Keys == 1..MaxKey

ASSUME BrowserAssumption ==
    /\ Away \notin Places
    /\ \A p \in Places : p = [bucket |-> p.bucket, prefix |-> p.prefix]
    /\ MaxKey \in Nat
    /\ InitContent \in [Places -> SUBSET Keys]

VARIABLES
    url,      \* the place the URL names, or Away
    known,    \* the bucket list, with its permissions, has been loaded
    at,       \* store: bucket and prefix
    rows,     \* store: objects and prefixes
    token,    \* store: nextPageToken and truncated
    loading,  \* store: loading
    error,    \* store: error is set
    calls,    \* the calls in flight
    zoned,    \* calls of the UploadZone on screen
    bars,     \* those of its uploads whose progress is shown
    content,  \* backend: the keys of each place
    strayed   \* history: rows may have come from a place the URL does not name

store == <<at, rows, token, loading, error>>
zone == <<zoned, bars>>
vars == <<url, known, store, calls, zone, content, strayed>>

Row(p, k) == [place |-> p, key |-> k]

(* kind: "fetch" and "more" list, "put" and "delete" change an object.    *)
(* place: what the call's closure captured.  key: the token of a "more",  *)
(* the object of a change.  base: the rows a "more" will extend.  target: *)
(* the place changed.  stage: "sent", then "ok" or "failed".  page, next: *)
(* the answer of a listing.  stray: history, strayed as it was when a     *)
(* "more" was made.                                                       *)
Free == [kind |-> "free", place |-> Away, key |-> 0, base |-> <<>>, target |-> Away,
         stage |-> "sent", page |-> <<>>, next |-> 0, stray |-> FALSE]

Call(kind, p) == [Free EXCEPT !.kind = kind, !.place = p]

Init ==
    /\ url = Away
    /\ known = FALSE
    /\ at = Away
    /\ rows = <<>>
    /\ token = 0
    /\ loading = FALSE
    /\ error = FALSE
    /\ calls = [c \in Calls |-> Free]
    /\ zoned = {}
    /\ bars = {}
    /\ content = InitContent
    /\ strayed = FALSE

(* Read is assumed until the bucket list is known.                        *)
CanRead(p) == known => p.bucket \in Readable
CanWrite(p) == known /\ p.bucket \in Writable

FetchObjectsMutKeepsRows(c, p) ==
    /\ loading' = TRUE
    /\ error' = FALSE
    /\ at' = p
    /\ rows' = rows
    /\ token' = 0
    /\ calls' = [calls EXCEPT ![c] = Call("fetch", p)]

(* fetchObjects up to its await: the listing is cleared, then asked for.  *)
FetchObjects(c, p) ==
    /\ loading' = TRUE
    /\ error' = FALSE
    /\ at' = p
    /\ rows' = <<>>
    /\ token' = 0
    /\ calls' = [calls EXCEPT ![c] = Call("fetch", p)]

(* The zone keeps its state while it is on screen, from one folder or     *)
(* bucket to the next.                                                    *)
ZoneUnless(unmounted) ==
    /\ zoned' = IF unmounted THEN {} ELSE zoned
    /\ bars' = IF unmounted THEN {} ELSE bars

(* Another bucket or folder is entered; the effect of the page fetches it *)
(* unless it is known to be write-only.                                   *)
Navigate(c, p) ==
    /\ calls[c] = Free
    /\ p # url
    /\ url' = p
    /\ \/ /\ CanRead(p)
          /\ FetchObjects(c, p)
          /\ strayed' = FALSE
       \/ /\ ~CanRead(p)
          /\ strayed' = TRUE
          /\ UNCHANGED <<store, calls>>
    /\ ZoneUnless(~CanWrite(p))
    /\ UNCHANGED <<known, content>>

(* The bucket list is opened; the store keeps what it has.                *)
Leave ==
    /\ url # Away
    /\ url' = Away
    /\ strayed' = TRUE
    /\ ZoneUnless(TRUE)
    /\ UNCHANGED <<known, store, calls, content>>

(* fetchBuckets answers.  canRead can only turn false, which fetches      *)
(* nothing.                                                               *)
BucketsLoaded ==
    /\ ~known
    /\ known' = TRUE
    /\ UNCHANGED <<zone, url, store, calls, content, strayed>>

(* Retry in the error banner, which a listing that may be read shows.     *)
Retry(c) ==
    /\ calls[c] = Free
    /\ url # Away /\ CanRead(url) /\ error
    /\ FetchObjects(c, url)
    /\ strayed' = FALSE
    /\ UNCHANGED <<zone, url, known, content>>

(* loadMore up to its await; the button is shown while there is more and  *)
(* takes no click while loading.                                          *)
LoadMore(c) ==
    /\ calls[c] = Free
    /\ url # Away /\ CanRead(url)
    /\ token # 0 /\ ~loading
    /\ loading' = TRUE
    /\ calls' = [calls EXCEPT ![c] =
                    [Call("more", at) EXCEPT !.key = token, !.base = rows, !.stray = strayed]]
    /\ UNCHANGED <<zone, url, known, at, rows, token, error, content, strayed>>

(* customUpload up to its await.                                          *)
Upload(c) ==
    /\ calls[c] = Free
    /\ url # Away /\ CanWrite(url)
    /\ \E k \in Keys :
          calls' = [calls EXCEPT ![c] =
                      [Call("put", url) EXCEPT !.key = k, !.target = url]]
    /\ zoned' = zoned \cup {c}
    /\ bars' = bars \cup {c}
    /\ UNCHANGED <<url, known, store, content, strayed>>

(* handleDelete of a row on screen, confirmed in its dialog: the bucket   *)
(* is the page's, the key the row's (which includes the row's prefix), as *)
(* they were when the row was rendered; the time to the confirmation is   *)
(* part of the time the call is in flight.                                *)
Delete(c) ==
    /\ calls[c] = Free
    /\ url # Away /\ CanRead(url) /\ CanWrite(url)
    /\ \E i \in 1..Len(rows) :
          calls' = [calls EXCEPT ![c] =
                      [Call("delete", url) EXCEPT
                        !.key = rows[i].key,
                        !.target = [bucket |-> url.bucket, prefix |-> rows[i].place.prefix]]]
    /\ UNCHANGED <<zone, url, known, store, content, strayed>>

----------------------------------------------------------------------------
(* The gateway and its backend (external).                                *)

Lists(call) == call.kind \in {"fetch", "more"}
Waits(c) == calls[c].kind # "free" /\ calls[c].stage = "sent"

ServeList(c) ==
    /\ Waits(c) /\ Lists(calls[c])
    /\ calls[c].place.bucket \in Readable
    /\ LET p == calls[c].place
           left == {k \in content[p] : k > calls[c].key}
       IN \/ /\ left = {}
             /\ calls' = [calls EXCEPT ![c].stage = "ok"]
          \/ \E k \in left :
             /\ \A j \in left : k <= j
             /\ calls' = [calls EXCEPT ![c].stage = "ok", ![c].page = <<Row(p, k)>>,
                                       ![c].next = IF left = {k} THEN 0 ELSE k]
    /\ UNCHANGED <<zone, url, known, store, content, strayed>>

ServeChange(c) ==
    /\ Waits(c) /\ ~Lists(calls[c])
    /\ LET t == calls[c].target IN
       /\ t \in Places
       /\ content' = [content EXCEPT ![t] =
                         IF calls[c].kind = "put" THEN @ \cup {calls[c].key}
                         ELSE @ \ {calls[c].key}]
    /\ calls' = [calls EXCEPT ![c].stage = "ok"]
    /\ UNCHANGED <<zone, url, known, store, strayed>>

(* Refused, failed or lost; a change may have been made all the same.     *)
CallFails(c) ==
    /\ calls[c].kind # "free" /\ calls[c].stage \in {"sent", "ok"}
    /\ calls' = [calls EXCEPT ![c].stage = "failed"]
    /\ UNCHANGED <<zone, url, known, store, content, strayed>>

----------------------------------------------------------------------------

ExtendedMutLive(call) == IF call.kind = "more" THEN rows \o call.page ELSE call.page

(* The listing a successful answer leaves: a "more" extends the rows it   *)
(* saw when it was made, not the rows of now.                             *)
Extended(call) == IF call.kind = "more" THEN call.base \o call.page ELSE call.page

(* The try branches of fetchObjects and loadMore.                         *)
ListSucceeds(c) ==
    /\ Lists(calls[c]) /\ calls[c].stage = "ok"
    /\ rows' = Extended(calls[c])
    /\ token' = calls[c].next
    /\ loading' = FALSE
    /\ strayed' = (strayed \/ calls[c].stray \/ calls[c].place # url)
    /\ calls' = [calls EXCEPT ![c] = Free]
    /\ UNCHANGED <<zone, url, known, at, error, content>>

ListFailsMutStillLoading(c) ==
    /\ Lists(calls[c]) /\ calls[c].stage = "failed"
    /\ error' = TRUE
    /\ calls' = [calls EXCEPT ![c] = Free]
    /\ UNCHANGED <<zone, url, known, at, rows, token, loading, content, strayed>>

(* Their catch branches.                                                  *)
ListFails(c) ==
    /\ Lists(calls[c]) /\ calls[c].stage = "failed"
    /\ error' = TRUE
    /\ loading' = FALSE
    /\ calls' = [calls EXCEPT ![c] = Free]
    /\ UNCHANGED <<zone, url, known, at, rows, token, content, strayed>>

(* An upload ends, done or in error: every entry of its name does, in the *)
(* zone it was started in; a zone no longer mounted shows nothing.        *)
BarEnds(c) ==
    /\ zoned' = zoned \ {c}
    /\ bars' = IF c \in zoned THEN {d \in bars : calls[d].key # calls[c].key} ELSE bars

(* A change succeeded: onUploaded and onRefresh are handleRefresh of the  *)
(* render the call was made in, and fetch the place of that render.       *)
ChangeSucceeds(c) ==
    /\ calls[c].kind \in {"put", "delete"} /\ calls[c].stage = "ok"
    /\ FetchObjects(c, calls[c].place)
    /\ strayed' = (calls[c].place # url)
    /\ BarEnds(c)
    /\ UNCHANGED <<url, known, content>>

ChangeFails(c) ==
    /\ calls[c].kind \in {"put", "delete"} /\ calls[c].stage = "failed"
    /\ calls' = [calls EXCEPT ![c] = Free]
    /\ BarEnds(c)
    /\ UNCHANGED <<url, known, store, content, strayed>>

Next ==
    \/ Leave
    \/ BucketsLoaded
    \/ \E c \in Calls :
        \/ \E p \in Places : Navigate(c, p)
        \/ Retry(c) \/ LoadMore(c) \/ Upload(c) \/ Delete(c)
        \/ ServeList(c) \/ ServeChange(c) \/ CallFails(c)
        \/ ListSucceeds(c) \/ ListFails(c) \/ ChangeSucceeds(c) \/ ChangeFails(c)

Spec == Init /\ [][Next]_vars

----------------------------------------------------------------------------

(* A sequence of rows in listing order, no key twice.                     *)
Ascending(s) ==
    \A i, j \in 1..Len(s) : i < j => s[i].key < s[j].key

(* No row is shown twice and none out of order, however many refreshes    *)
(* and loads overlap and in whatever order they are answered: loadMore    *)
(* writes rows and token from one snapshot (browser.ts:76-90).  The table *)
(* identifies its rows by key.                                            *)
NoRowTwice == Ascending(rows)

(* Nothing spins for nothing: while the store says loading, a listing is  *)
(* in flight whose answer, good or bad, will end it, and each progress    *)
(* bar is of an upload in flight, also when zones come and go meanwhile.  *)
SpinnerHasCause ==
    /\ loading => \E c \in Calls : Lists(calls[c])
    /\ \A c \in bars : calls[c].kind = "put"

(* Clearing the listing up front works as far as it goes (browser.ts:     *)
(* 46-57): unless an answer or a refresh for another place was applied    *)
(* since the page's own last fetch, the store is the page's and every row *)
(* on screen is of the place in the URL.                                  *)
CleanWithoutStrays ==
    url # Away /\ ~strayed =>
        /\ at = url
        /\ \A i \in 1..Len(rows) : rows[i].place = url

(* What the comment in fetchObjects says (browser.ts:46-47): a failed     *)
(* fetch never leaves the previous bucket's objects on screen.            *)
PreviousBucketNeverShown ==
    /\ url # Away /\ CanRead(url) /\ error
    /\ \A c \in Calls : ~(Lists(calls[c]) /\ calls[c].place = url)
    => \A i \in 1..Len(rows) : rows[i].place.bucket = url.bucket

============================================================================
