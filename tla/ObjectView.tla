----------------------------- MODULE ObjectView -----------------------------
(***************************************************************************)
(* The object table of web/src/components/ObjectBrowser.tsx with its two   *)
(* panels, FilePreview.tsx and ObjectMeta.tsx, and its downloads.          *)
(*                                                                         *)
(* A panel fetches in an effect that runs again whenever what it depends   *)
(* on changes and is cleaned up first; between the fetch and its answer    *)
(* the panel may be closed, opened for another object, or taken off the    *)
(* screen and put back while a listing loads, also for another bucket when *)
(* the browser's history moves.  Object URLs must be revoked by hand.      *)
(*                                                                         *)
(* A key is a sequence of path segments, a segment the sequence of its     *)
(* parts between dots.  The listing is the part of the store this          *)
(* component sees; BrowserStore models how it comes about.                 *)
(*                                                                         *)
(* The names of the specification carry a prefix, so that it can be        *)
(* extended together with Preferences, the rest of what is on screen.      *)
(***************************************************************************)
EXTENDS Csv

CONSTANTS
    None,
    Buckets,      \* buckets the user may read
    Keys,         \* keys that may be listed
    Matching,     \* the keys a search finds
    Calls,        \* slots for requests in flight; their number is the bound
    Sizes,        \* sizes of objects, 0 for an unknown one
    TextCap,      \* MAX_TEXT_BYTES
    PreviewCap,   \* MAX_PREVIEW_BYTES
    Bodies        \* contents of tables, records [table, style]

Objects == [bucket : Buckets, key : Keys]
PreviewChoices == [key : Keys, size : Sizes]

ASSUME ViewAssumption ==
    /\ {"tab", "comma"} \subseteq Chars
    /\ Bodies \subseteq [table : Tables, style : Styles]
    /\ Sizes \subseteq Nat /\ TextCap \in Nat /\ PreviewCap \in Nat
    /\ None \notin Keys \cup Objects \cup PreviewChoices \cup [object : Objects, size : Sizes]

VARIABLES
    bucket,    \* the page's bucket
    moving,    \* the bucket has changed and its effect has not yet run
    rows,      \* the keys listed
    loading,   \* the store's loading
    search,    \* a search text is set
    preview,   \* the key and listed size of the preview, or None
    metaKey,   \* the key of the metadata panel, or None
    panel,     \* FilePreview: status, urlRef, the object shown, view
    meta,      \* ObjectMeta: loading and the object shown
    calls,     \* requests in flight
    liveUrls   \* object URLs created and not revoked

props == <<bucket, moving, rows, loading, search, preview, metaKey>>
viewVars == <<props, panel, meta, calls, liveUrls>>

----------------------------------------------------------------------------
(* How a file is shown.                                                   *)

Lower(s) == IF s = "TSV" THEN "tsv" ELSE s

(* The last part of the last segment; the whole name when it has no dot.  *)
extOf(key) == LET base == key[Len(key)] IN Lower(base[Len(base)])

EXT_KIND(ext) ==
    CASE ext \in {"png", "jpg", "jpeg", "gif", "webp", "avif", "bmp", "ico"} -> "image"
      [] ext = "svg" -> "svg"
      [] ext \in {"mp4", "webm", "ogv", "mov", "m4v"} -> "video"
      [] ext \in {"mp3", "wav", "oga", "ogg", "flac", "m4a", "aac"} -> "audio"
      [] ext = "pdf" -> "pdf"
      [] ext \in {"md", "markdown"} -> "markdown"
      [] ext \in {"csv", "tsv"} -> "csv"
      [] ext = "json" -> "json"
      [] ext \in {"txt", "yaml", "yml", "log", "xml", "html", "htm", "css", "js", "mjs",
                  "cjs", "ts", "tsx", "jsx", "go", "py", "rb", "rs", "java", "kt", "c",
                  "h", "cpp", "hpp", "sh", "bash", "zsh", "sql", "toml", "ini", "conf",
                  "cfg", "env", "properties", "dockerfile", "gitignore"} -> "text"
      [] OTHER -> "unsupported"

(* FilePreview passes no content type, so the extension decides.          *)
previewKindFor(key) == EXT_KIND(extOf(key))

isTextualKind(kind) == kind \in {"text", "markdown", "csv", "json"}

(* A tab for names that end in ".tsv"; a file named "tsv" has no dot.     *)
delimiterFor(key) ==
    LET base == key[Len(key)] IN
    IF Len(base) > 1 /\ extOf(key) = "tsv" THEN "tab" ELSE "comma"

(* The table on screen: a column for every field of the header, the first *)
(* row, and the fields of each row that are in one of them.               *)
renderCsv(text, delimiter) ==
    LET table == parseCsv(text, delimiter)
        columns == IF table.rows = <<>> THEN 0 ELSE Len(table.rows[1])
    IN [rows |-> [i \in 1..Len(table.rows) |-> Cut(table.rows[i], columns)],
        notice |-> table.truncated]

----------------------------------------------------------------------------

Object(key) == [bucket |-> bucket, key |-> key]

NoPanel == [status |-> "off", urlRef |-> None, shown |-> None, view |-> "rendered"]
NoMeta == [loading |-> TRUE, shown |-> None]

(* kind: "blob" and "text" are the two awaits of FilePreview, "meta" the  *)
(* request of ObjectMeta, "save" a download.  on: the effect that made it *)
(* is not cancelled (FilePreview) or its panel not unmounted (ObjectMeta).*)
Free == [kind |-> "free", object |-> None, on |-> FALSE]
Request(kind, o) == [kind |-> kind, object |-> o, on |-> TRUE]

ViewInit ==
    /\ bucket \in Buckets
    /\ moving = FALSE
    /\ rows = {}
    /\ loading = TRUE
    /\ search = FALSE
    /\ preview = None
    /\ metaKey = None
    /\ panel = NoPanel
    /\ meta = NoMeta
    /\ calls = [c \in Calls |-> Free]
    /\ liveUrls = 0

(* The rows left by the search.                                           *)
DataSource == IF search THEN rows \cap Matching ELSE rows

SkeletonMutNever == FALSE

(* While nothing is there to show, the table and both panels give way to  *)
(* a skeleton; preview and metaKey stay set.                              *)
Skeleton == loading /\ DataSource = {}

(* What the effects of the panels depend on, None while not mounted.      *)
PreviewDeps ==
    IF preview = None \/ Skeleton THEN None
    ELSE [object |-> Object(preview.key), size |-> preview.size]

MetaDeps == IF metaKey = None \/ Skeleton THEN None ELSE Object(metaKey)

(* Each object URL is revoked by the cleanup of the run that created it.  *)
Revoked == liveUrls - (IF panel.urlRef # None THEN 1 ELSE 0)

(* FilePreview's run() up to its first await.                             *)
Fetches(deps) ==
    /\ previewKindFor(deps.object.key) # "unsupported"
    /\ deps.size <= PreviewCap

Opened(deps) ==
    IF deps = None THEN NoPanel
    ELSE [NoPanel EXCEPT !.status =
            CASE previewKindFor(deps.object.key) = "unsupported" -> "unsupported"
              [] Fetches(deps) -> "loading"
              [] OTHER -> "too-large"]

(* A slot for a request, if there is one to be made.                      *)
Slots(needed) == IF needed THEN {c \in Calls : calls[c] = Free} ELSE {None}

(* React's commit of new props and the panels' effects after it: an       *)
(* effect whose dependencies changed is cleaned up and run again.         *)
(* ObjectMeta's has no cleanup: only its panel's unmounting keeps an      *)
(* answer from being shown.                                               *)
Commit ==
    LET moved == PreviewDeps' # PreviewDeps
        asked == MetaDeps' # MetaDeps
        starts == moved /\ PreviewDeps' # None /\ Fetches(PreviewDeps')
        asks == asked /\ MetaDeps' # None
        cancelled == {c \in Calls : \/ moved /\ calls[c].kind \in {"blob", "text"}
                                    \/ MetaDeps' = None /\ calls[c].kind = "meta"}
    IN /\ panel' = IF moved THEN Opened(PreviewDeps') ELSE panel
       /\ liveUrls' = IF moved THEN Revoked ELSE liveUrls
       /\ meta' = IF MetaDeps' = None THEN NoMeta ELSE [meta EXCEPT !.loading = @ \/ asked]
       /\ \E b \in Slots(starts), m \in Slots(asks) :
            /\ starts /\ asks => b # m
            /\ calls' = [c \in Calls |->
                 IF c = b /\ starts THEN Request("blob", PreviewDeps'.object)
                 ELSE IF c = m /\ asks THEN Request("meta", MetaDeps')
                 ELSE IF c \in cancelled THEN [calls[c] EXCEPT !.on = FALSE] ELSE calls[c]]

(* React flushes the effects of a commit, the children's first, and the   *)
(* store's update they make in one go: nothing but Fetch, which has no    *)
(* such guard, comes in between.                                          *)
Idle == ~moving

(* A modal covers the page while a panel is open.                         *)
Uncovered == Idle /\ ~Skeleton /\ preview = None /\ metaKey = None

(* handleRowActivate of a file; its listed size may be out of date.       *)
OpenPreview ==
    /\ Uncovered
    /\ \E k \in DataSource, n \in Sizes : preview' = [key |-> k, size |-> n]
    /\ UNCHANGED <<bucket, moving, rows, loading, search, metaKey>>
    /\ Commit

ClosePreview ==
    /\ Idle /\ preview # None /\ ~Skeleton
    /\ preview' = None
    /\ UNCHANGED <<bucket, moving, rows, loading, search, metaKey>>
    /\ Commit

OpenMeta ==
    /\ Uncovered
    /\ metaKey' \in DataSource
    /\ UNCHANGED <<bucket, moving, rows, loading, search, preview>>
    /\ Commit

CloseMeta ==
    /\ Idle /\ metaKey # None /\ ~Skeleton
    /\ metaKey' = None
    /\ UNCHANGED <<bucket, moving, rows, loading, search, preview>>
    /\ Commit

(* Text is typed into the search box, or it is cleared.                   *)
Search ==
    /\ Uncovered
    /\ search' = ~search
    /\ UNCHANGED <<bucket, moving, rows, loading, preview, metaKey>>
    /\ Commit

(* The browser's history moves to another bucket: a commit with the rows  *)
(* of the old one, for which the panels' effects run.                     *)
MoveBucket ==
    /\ Idle
    /\ bucket' \in Buckets \ {bucket}
    /\ moving' = TRUE
    /\ UNCHANGED <<rows, loading, search, preview, metaKey>>
    /\ Commit

(* fetchObjects, of the effect of Browser.tsx after those of the panels,  *)
(* or because an upload or a delete ended or the prefix changed: the rows *)
(* are cleared and loading is set, and committed at once.                 *)
Fetch ==
    /\ rows' = {}
    /\ loading' = TRUE
    /\ moving' = FALSE
    /\ UNCHANGED <<bucket, search, preview, metaKey>>
    /\ Commit

(* loadMore keeps the rows.                                               *)
LoadMore ==
    /\ Uncovered /\ ~loading
    /\ loading' = TRUE
    /\ UNCHANGED <<bucket, moving, rows, search, preview, metaKey>>
    /\ Commit

Listed ==
    /\ Idle /\ loading
    /\ loading' = FALSE
    /\ rows' \in {R \in SUBSET Keys : rows \subseteq R}
    /\ UNCHANGED <<bucket, moving, search, preview, metaKey>>
    /\ Commit

----------------------------------------------------------------------------
(* FilePreview goes on after its awaits.                                  *)

GoesOnMutAlways(c) == TRUE

(* if (cancelled) return                                                  *)
GoesOn(c) == calls[c].on

Settle(c, change) ==
    /\ Idle
    /\ panel' = IF GoesOn(c) THEN change ELSE panel
    /\ calls' = [calls EXCEPT ![c] = Free]
    /\ UNCHANGED <<props, meta>>

TooLarge == [panel EXCEPT !.status = "too-large"]

(* The caps hold for the bytes that came, whatever the listing said.      *)
Fits(kind, n) == n <= PreviewCap /\ (isTextualKind(kind) => n <= TextCap)

BlobTooLarge(c) ==
    /\ calls[c].kind = "blob"
    /\ \E n \in Sizes \ {0} : ~Fits(previewKindFor(calls[c].object.key), n)
    /\ Settle(c, TooLarge)
    /\ UNCHANGED liveUrls

BlobIsText(c) ==
    /\ Idle /\ calls[c].kind = "blob"
    /\ isTextualKind(previewKindFor(calls[c].object.key))
    /\ calls' = [calls EXCEPT ![c] = IF GoesOn(c) THEN [@ EXCEPT !.kind = "text"] ELSE Free]
    /\ UNCHANGED <<props, panel, meta, liveUrls>>

(* Media and pdf: an object URL is created and shown.                     *)
BlobIsMedia(c) ==
    /\ calls[c].kind = "blob"
    /\ ~isTextualKind(previewKindFor(calls[c].object.key))
    /\ Settle(c, [panel EXCEPT !.status = "ready", !.urlRef = calls[c].object,
                               !.shown = calls[c].object])
    /\ liveUrls' = IF GoesOn(c) THEN liveUrls + 1 ELSE liveUrls

TextRead(c) ==
    /\ calls[c].kind = "text"
    /\ Settle(c, [panel EXCEPT !.status = "ready", !.shown = calls[c].object])
    /\ UNCHANGED liveUrls

FetchFails(c) ==
    /\ calls[c].kind \in {"blob", "text"}
    /\ Settle(c, [panel EXCEPT !.status = "error"])
    /\ UNCHANGED liveUrls

(* The toggle between the rendered table, document or value and the text. *)
Toggle ==
    /\ Idle /\ preview # None /\ panel.status = "ready"
    /\ previewKindFor(preview.key) \in {"markdown", "csv", "json"}
    /\ panel' = [panel EXCEPT !.view = IF @ = "rendered" THEN "source" ELSE "rendered"]
    /\ UNCHANGED <<props, meta, calls, liveUrls>>

(* ObjectMeta's promise: whatever arrives is shown by a mounted panel.    *)
MetaArrives(c) ==
    /\ Idle /\ calls[c].kind = "meta"
    /\ \E o \in {calls[c].object, None} :
          meta' = IF calls[c].on THEN [loading |-> FALSE, shown |-> o] ELSE meta
    /\ calls' = [calls EXCEPT ![c] = Free]
    /\ UNCHANGED <<props, panel, liveUrls>>

(* A download, from a row or from the preview: a URL is created, clicked  *)
(* and revoked in one go once the bytes are there.                        *)
Download ==
    /\ Idle /\ ~Skeleton
    /\ \E k \in IF preview # None THEN {preview.key} ELSE DataSource, c \in Calls :
          /\ calls[c] = Free
          /\ calls' = [calls EXCEPT ![c] = Request("save", Object(k))]
    /\ UNCHANGED <<props, panel, meta, liveUrls>>

DownloadEnds(c) ==
    /\ Idle /\ calls[c].kind = "save"
    /\ calls' = [calls EXCEPT ![c] = Free]
    /\ UNCHANGED <<props, panel, meta, liveUrls>>

ViewNext ==
    \/ OpenPreview \/ ClosePreview \/ OpenMeta \/ CloseMeta \/ Search
    \/ MoveBucket \/ Fetch \/ LoadMore \/ Listed \/ Toggle \/ Download
    \/ \E c \in Calls :
        \/ BlobTooLarge(c) \/ BlobIsText(c) \/ BlobIsMedia(c) \/ TextRead(c)
        \/ FetchFails(c) \/ MetaArrives(c) \/ DownloadEnds(c)

ViewSpec == ViewInit /\ [][ViewNext]_viewVars

----------------------------------------------------------------------------

(* Object URLs are revoked exactly once: at any time at most the one of   *)
(* the preview on screen is alive, and none when no preview shows one     *)
(* (FilePreview.tsx:62-74, 121-123, 134-137), however answers arrive late.*)
UrlsAccounted ==
    liveUrls = (IF PreviewDeps # None /\ panel.urlRef # None THEN 1 ELSE 0)

(* What a panel shows is of the object it is open for, in the bucket of   *)
(* now, also between the bucket's change and the fetch of its rows.       *)
(* FilePreview cancels its runs; ObjectMeta does not, and relies on the   *)
(* skeleton unmounting it whenever the bucket has changed                 *)
(* (ObjectMeta.tsx:34-41, ObjectBrowser.tsx:136).                         *)
PanelsShowTheirObject ==
    /\ panel.shown # None => PreviewDeps # None /\ panel.shown = PreviewDeps.object
    /\ meta.shown # None /\ ~meta.loading => meta.shown = MetaDeps

(* What is on screen of the rows of a file.                               *)
ShowsTable(screen, written) ==
    /\ Len(screen.rows) = Least(Len(written), MaxRows)
    /\ \A i \in 1..Len(screen.rows) :
          /\ Len(screen.rows[i]) =
                Least(Len(written[i]), Least(Len(written[1]), MaxCols))
          /\ \A j \in 1..Len(screen.rows[i]) : screen.rows[i][j] = written[i][j]
    /\ screen.notice <=> \/ Len(written) > MaxRows
                          \/ \E i \in 1..Len(written) : Len(written[i]) > MaxCols

(* The delimiters with which every body, written to a file, is on screen  *)
(* with its rows.                                                         *)
FaithfulDelimiters ==
    {d \in {"tab", "comma"} : \A b \in Bodies :
        ShowsTable(renderCsv(Write(b.table, b.style, d), d), Rows(b.table, b.style))}

(* A table on screen is the one the file holds, whatever is in its fields:*)
(* no row, field or character is lost, split or invented by the quotes,   *)
(* delimiters and breaks among them (csv.ts:29-87).  What is not there is *)
(* a row past MAX_CSV_ROWS or a field past MAX_CSV_COLS, and a notice     *)
(* says so, or, without a word, a field the header has no column for      *)
(* (FilePreview.tsx:164-170) or a last row of one empty quoted field,     *)
(* which Rows leaves out (csv.ts:84).                                     *)
TablesShownAsWritten ==
    panel.status = "ready" /\ previewKindFor(panel.shown.key) = "csv"
                           /\ panel.view = "rendered" =>
        delimiterFor(panel.shown.key) \in FaithfulDelimiters

============================================================================
