------------------------------ MODULE AvIngest ------------------------------
(***************************************************************************)
(* What is made of the bytes of a location once AvDownload has them        *)
(* (av-ingest, and its callers in av-cli): which type they are, what the   *)
(* file is called, whether the browser shows it, and what a row says of    *)
(* it.  The same questions are asked of a prefix before the bytes come, of *)
(* the whole when it is shown or indexed, and of the copy a user saved;    *)
(* each asks with the link it has, and the answers meet on one page.       *)
(*                                                                         *)
(* A mime type is a pair.  A name is its stem, of which all or nothing is  *)
(* left by sanitising, or so much that it takes the extension's place or   *)
(* a part of it, and its extension.  A link is a scheme, a host, and the   *)
(* names its last segment and its query carry; a segment that does not     *)
(* decode is none.  A content is what the sniffers ask of it.              *)
(***************************************************************************)
EXTENDS AvDownload, AvListing

CONSTANTS Cases   \* the links that are asked for, and what is behind each

VARIABLES
    item,    \* the link in hand, and the content behind it
    plan,    \* what the page was told before the bytes came
    served,  \* what the viewer publishes
    copy,    \* the name of the file the user saved
    row,     \* the row of this content
    again    \* the row that a node makes of the copy

papers == <<plan, served, copy, row, again>>
ingestVars == <<item, papers>>

-----------------------------------------------------------------------------
(* Locations (location.rs)                                                 *)

\* An address without a scheme is one of Autonomi, and "ant" is its old scheme.
NormalizeUri(link) ==
    IF link.scheme = "none" /\ link.host = "address" THEN [link EXCEPT !.scheme = "autonomi"]
    ELSE link

SchemeOf(link) ==
    LET scheme == NormalizeUri(link).scheme IN IF scheme = "ant" THEN "autonomi" ELSE scheme

\* The payload is base64, which has no dot, and the rest of the link.
IsManifestLink(link) ==
    /\ SchemeOf(link) = "autonomi" /\ link.host = "manifest"
    /\ link.path # None /\ link.path.ext = "" /\ link.path.stem # "dropped"
    /\ link.query = None

FirstOf(a, b) == IF a # None THEN a ELSE b

\* clean_token, of the one extension here it changes.
Cleaned(ext) == IF ext = "watch-list" THEN "watch list" ELSE ext

\* extract_url_context: host, directories and file name in one.
UrlContext(link) ==
    IF link.path = None THEN None ELSE [stem |-> "kept", ext |-> Cleaned(link.path.ext)]

\* analyze_location.
Inferred(link) ==
    IF SchemeOf(link) = "none" THEN None
    ELSE IF SchemeOf(link) # "autonomi" THEN UrlContext(link)
    ELSE IF link.host = "address" THEN FirstOf(link.path, link.query)
    ELSE None

Canonical(link) ==
    IF SchemeOf(link) = "none" THEN None
    ELSE IF SchemeOf(link) = "autonomi" /\ (link.host = "address" \/ IsManifestLink(link))
         THEN [link EXCEPT !.scheme = "autonomi", !.query = None,
                           !.path = IF link.host = "address" THEN None ELSE @]
    ELSE link

\* last_url_segment.
LastUrlSegment(link) == IF SchemeOf(link) = "none" THEN None ELSE link.path

-----------------------------------------------------------------------------
(* Types (mime.rs)                                                         *)

PlainText == <<"text", "plain">>
OctetStream == <<"application", "octet-stream">>
Html == <<"text", "html">>
ZipArchive == <<"application", "zip">>
AntManifest == <<"application", "vnd.autonomi.manifest">>
WatchList == <<"application", "x-watch-list">>

HintedTypes ==
    [jpg |-> <<"image", "jpeg">>, jpeg |-> <<"image", "jpeg">>, png |-> <<"image", "png">>,
     gif |-> <<"image", "gif">>, webp |-> <<"image", "webp">>, avif |-> <<"image", "avif">>,
     bmp |-> <<"image", "bmp">>, ico |-> <<"image", "vnd.microsoft.icon">>,
     pdf |-> <<"application", "pdf">>, mp3 |-> <<"audio", "mpeg">>, m4a |-> <<"audio", "mp4">>,
     aac |-> <<"audio", "aac">>, wav |-> <<"audio", "wav">>, ogg |-> <<"audio", "ogg">>,
     flac |-> <<"audio", "flac">>, mp4 |-> <<"video", "mp4">>, webm |-> <<"video", "webm">>,
     mov |-> <<"video", "quicktime">>, txt |-> PlainText, md |-> <<"text", "markdown">>,
     csv |-> <<"text", "csv">>, json |-> <<"application", "json">>, zip |-> ZipArchive,
     html |-> Html, htm |-> Html, xhtml |-> <<"application", "xhtml+xml">>,
     svg |-> <<"image", "svg+xml">>]

\* trusted_extension: short, and of letters and digits.
Untrusted == {"", "watch-list", "watch list", "cs~v"}
IsTrusted(name) == name # None /\ name.ext \notin Untrusted

\* hint_from: a name decides between types that say nothing.
HintFrom(sniffed, name) ==
    IF sniffed \in {PlainText, OctetStream} /\ IsTrusted(name) /\ name.ext \in DOMAIN HintedTypes
    THEN HintedTypes[name.ext] ELSE sniffed

\* detect_mime_inner, of bytes there are, where `decodes` says whether they are
\* UTF-8 and `text` what they are if nothing marks them.
Sniff(content, decodes, text) ==
    IF content.magic # None THEN content.magic
    ELSE IF ~decodes THEN OctetStream
    ELSE IF content.mark # None THEN content.mark
    ELSE text

\* detect_mime_with_hint; an empty file is an error.
DetectMime(content, name) == HintFrom(Sniff(content, content.whole, PlainText), name)

\* Mutant: a prefix that decodes is text.
DetectMimePrefixAsText(content, name) == HintFrom(Sniff(content, content.head, PlainText), name)

\* detect_mime_prefix: a prefix asserts nothing generic.
DetectMimePrefix(content, name) == HintFrom(Sniff(content, content.head, OctetStream), name)

IsBrowserRenderable(mime) ==
    \/ mime[1] = "text" /\ mime[2] \in {"plain", "html", "css"}
    \/ mime[1] = "application" /\ mime[2] \in {"json", "pdf"}
    \/ mime[1] \in {"image", "video", "audio"}

-----------------------------------------------------------------------------
(* Names (filename.rs)                                                     *)

NamedTypes ==
    [html |-> Html, txt |-> PlainText, md |-> <<"text", "markdown">>, css |-> <<"text", "css">>,
     csv |-> <<"text", "csv">>, json |-> <<"application", "json">>,
     pdf |-> <<"application", "pdf">>, png |-> <<"image", "png">>, jpg |-> <<"image", "jpeg">>,
     gif |-> <<"image", "gif">>, webp |-> <<"image", "webp">>, avif |-> <<"image", "avif">>,
     bmp |-> <<"image", "bmp">>, ico |-> <<"image", "vnd.microsoft.icon">>,
     svg |-> <<"image", "svg+xml">>, mp3 |-> <<"audio", "mpeg">>, ogg |-> <<"audio", "ogg">>,
     wav |-> <<"audio", "wav">>, flac |-> <<"audio", "flac">>, aac |-> <<"audio", "aac">>,
     m4a |-> <<"audio", "mp4">>, mp4 |-> <<"video", "mp4">>, webm |-> <<"video", "webm">>,
     mov |-> <<"video", "quicktime">>, zip |-> ZipArchive,
     xhtml |-> <<"application", "xhtml+xml">>, ant |-> AntManifest]

\* Mutant: a type that a name can decide, but that names nothing.
WithoutCsv(mime) ==
    IF mime # <<"text", "csv">> /\ \E ext \in DOMAIN NamedTypes : NamedTypes[ext] = mime
    THEN CHOOSE ext \in DOMAIN NamedTypes : NamedTypes[ext] = mime ELSE ""

ExtensionForMime(mime) ==
    IF \E ext \in DOMAIN NamedTypes : NamedTypes[ext] = mime
    THEN CHOOSE ext \in DOMAIN NamedTypes : NamedTypes[ext] = mime ELSE ""

\* What is left of an extension that loses its end: one that a table knows, or none
\* that it does.
CutOff(ext) ==
    CASE ext = "" -> ""
      [] ext = "html" -> "htm"
      [] ext = "jsonl" -> "json"
      [] OTHER -> "part"

\* The characters a name may keep, eighty of them.  Where the stem goes, what is
\* left of the extension is the stem.
Sanitized(name) ==
    CASE name.stem = "long" -> [stem |-> "kept", ext |-> ""]
      [] name.stem = "nearly_long" -> [stem |-> "kept", ext |-> CutOff(name.ext)]
      [] name.stem = "dropped" -> IF name.ext = "" THEN None ELSE [stem |-> "kept", ext |-> ""]
      [] OTHER -> [name EXCEPT !.ext = IF @ = "cs~v" THEN "csv" ELSE @]

\* The first name there is, of the link or known of it.
Chosen(link, known) == FirstOf(FirstOf(LastUrlSegment(link), Inferred(link)), known)

\* suggest_filename_with.  Without a name it is the start of the address.
SuggestFilename(link, known, mime) ==
    LET ext == ExtensionForMime(mime)
        name == IF Chosen(link, known) = None THEN None ELSE Sanitized(Chosen(link, known))
    IN IF name = None THEN [stem |-> "kept", ext |-> ext]
       ELSE IF IsTrusted(name) \/ ext = "" THEN name
       ELSE [name EXCEPT !.ext = ext]

-----------------------------------------------------------------------------
(* Rows (ingest.rs, describe.rs)                                           *)

\* classify, of what can be opened as a zip.
IsWatchList(link, content) ==
    /\ content.archive # None
    /\ IsBundle(content.archive, Inferred(link) # None /\ Inferred(link).ext = "watch-list")

MimeOf(link, content) ==
    IF IsWatchList(link, content) THEN WatchList ELSE DetectMime(content, Inferred(link))

KindFromMime(mime) ==
    CASE mime[1] = "image" -> "Image"
      [] mime[1] = "audio" -> "Audio"
      [] mime[1] = "text" -> "Text"
      [] mime = AntManifest -> "Manifest"
      [] mime = <<"application", "pdf">> -> "Pdf"
      [] mime = WatchList -> "WatchList"
      [] OTHER -> "File"

\* The lengths of fixed words, of a file name among them, of a count and of tags.
BaseChars == 20
NameChars == 8
CountChars == 10
TagChars == 12

\* manifest_base and watchlist_base: a title, or else the file's name.
HeadChars(title, name) ==
    BaseChars + (IF title # 0 THEN title ELSE IF name # None THEN NameChars ELSE 0)

NoLines == [count |-> 0, lines |-> << >>, placed |-> 0, more |-> 0, cut |-> FALSE]

Listed(head, count, lines) ==
    LET fill == FillIntoWindow(head, [i \in DOMAIN lines |-> lines[i].chars])
    IN [count |-> count, lines |-> lines,
        placed |-> fill.placed, more |-> fill.more, cut |-> fill.cut]

\* synthesize and apply_tags, of the files that are lists: the items of a bundle
\* make room for its tags, which are appended to any other description.
Synthesize(link, content, mime, tagged) ==
    IF mime = WatchList THEN
        Listed(HeadChars(0, LastUrlSegment(link)) + (IF tagged THEN TagChars ELSE 0), 0,
               CompactItems(Items(content.archive)))
    ELSE IF mime = AntManifest THEN
        LET meta == ExtractManifest(content.manifest)
            head == HeadChars(meta.title, Inferred(link))
        IN IF StoredIncomplete(meta) THEN Listed(head + CountChars, meta.count, << >>)
           ELSE Listed(head, 0, ManifestPaths(meta))
    ELSE NoLines

\* ingest_bytes; every caller leaves the name to the link.
Ingest(link, content, tagged) ==
    LET mime == MimeOf(link, content)
    IN [link |-> link, canonical |-> Canonical(link), mime |-> mime,
        kind |-> KindFromMime(mime),
        name |-> IF SchemeOf(link) = "autonomi" THEN Inferred(link) ELSE None,
        description |-> Synthesize(link, content, mime, tagged)]

-----------------------------------------------------------------------------
(* What is done with a content                                             *)

\* The extensions there are in the names of the links, or that the code gives.
Extensions ==
    {name.ext : name \in UNION {{case.link.path, case.link.query} : case \in Cases} \ {None}}
    \cup DOMAIN NamedTypes \cup Untrusted \cup {"htm", "part"}

FileNames == [stem : {"kept", "dropped", "long", "nearly_long"}, ext : Extensions]

Locations == [scheme : {"none", "autonomi", "ant", "file", "http"},
              host : {"address", "manifest", "other"},
              path : FileNames \cup {None}, query : FileNames \cup {None}]

IsList(s) == s \in Seq(Range(s))

\* A link that leads to bytes: of Autonomi, an address or a manifest in the link.
LeadsToBytes(link) ==
    SchemeOf(link) = "autonomi" => link.host = "address" \/ IsManifestLink(link)

\* A manifest has the magic of one, and a bundle is a type of this program's own:
\* no sniffer knows it.
IsContent(content) ==
    /\ content.magic # WatchList /\ content.mark \notin {AntManifest, WatchList}
    /\ content.magic = AntManifest =>
          /\ content.manifest # None
          /\ Accounted(content.manifest) => IsList(Entries(content.manifest))
    /\ content.archive # None =>
          /\ IsList(content.archive.members)
          /\ content.archive.list = None \/ IsList(content.archive.list)

IsCase(case) ==
    /\ case = [link |-> case.link, content |-> case.content]
    /\ case.link \in Locations /\ LeadsToBytes(case.link)
    /\ IsContent(case.content)

\* A link in hand, and the content behind it.
Held == [link : Locations, content : {case.content : case \in Cases}]

ASSUME NoneAssumption == None \notin FileNames /\ None \notin Held
ASSUME CasesAssumption == \A case \in Cases : IsCase(case)

IngestInit ==
    /\ Init
    /\ item = None
    /\ plan = None /\ served = None /\ copy = None /\ row = None /\ again = None

\* Bytes come from a fetch, which refuses manifest links, or from the page,
\* which streams them itself or finds them in the link.  With them the fetch and
\* its file are gone.
Obtain ==
    /\ item = None
    /\ At("ok") \/ At("ok_cli") \/ (At("idle") /\ fetch.caller = "page")
    /\ \E case \in Cases :
          /\ ~At("idle") => ~IsManifestLink(case.link)
          /\ item' = [case EXCEPT !.link = NormalizeUri(@)]
    /\ fetch' = [at |-> "ok", caller |-> fetch.caller, last |-> FALSE, len |-> 0, held |-> FALSE]
    /\ child' = "none" /\ file' = << >> /\ there' = FALSE
    /\ tailer' = [offset |-> 0, pending |-> << >>, done |-> {}, failed |-> {}, log |-> << >>]
    /\ UNCHANGED <<machine, papers>>

\* stored_filename: of the row that has this location, in either spelling.
StoredFilename ==
    IF row # None /\ item.link \in {row.link, row.canonical} THEN row.name ELSE None

Reported == {OctetStream, <<"image", "png">>}

\* view_plan, on the first bytes, or on the type that the SDK reported.
ViewPlan ==
    /\ item # None /\ fetch.caller = "page"
    /\ served = None
    /\ Canonical(item.link) # None
    /\ \E sniffed \in BOOLEAN, reported \in Reported :
          LET guess == IF ~sniffed THEN reported
                       ELSE DetectMimePrefix(item.content, Inferred(item.link))
          IN /\ sniffed => ~item.content.empty
             /\ plan' = [mime |-> guess, sniffed |-> sniffed,
                         renderable |-> IsBrowserRenderable(guess),
                         name |-> SuggestFilename(item.link, StoredFilename, guess)]
    /\ UNCHANGED <<vars, item, served, copy, row, again>>

\* fetch_and_publish, view_blob and respond_with_file.
Publish ==
    /\ item # None /\ fetch.caller = "page"
    /\ ~item.content.empty
    /\ served = None
    /\ LET mime == DetectMime(item.content, Inferred(item.link))
       IN served' = [mime |-> mime,
                     name |-> SuggestFilename(item.link, StoredFilename, mime),
                     known |-> Chosen(item.link, None) = None /\ StoredFilename # None,
                     inline |-> IsBrowserRenderable(mime)]
    /\ UNCHANGED <<vars, item, plan, copy, row, again>>

\* download: the bytes and their type, with no name; an empty file is no error.
Download ==
    /\ item # None /\ fetch.caller = "route"
    /\ served = None
    /\ LET mime == IF item.content.empty THEN OctetStream
                   ELSE DetectMime(item.content, Inferred(item.link))
       IN served' = [mime |-> mime, name |-> None, known |-> FALSE, inline |-> TRUE]
    /\ UNCHANGED <<vars, item, plan, copy, row, again>>

\* The browser saves what is shown under the name that came with it.
SaveCopy ==
    /\ served # None /\ served.name # None
    /\ copy' = served.name
    /\ UNCHANGED <<vars, item, plan, served, row, again>>

\* index_resource_from_bytes.  Without force a content that has a row keeps it.
Index ==
    /\ item # None
    /\ ~item.content.empty
    /\ \/ fetch.caller = "page"
       \/ fetch.caller \in {"index", "command"} /\ ~IsManifestLink(item.link)
    /\ \E tagged, force \in BOOLEAN :
          /\ row = None \/ force
          /\ row' = Ingest(item.link, item.content, tagged)
    /\ UNCHANGED <<vars, item, plan, served, copy, again>>

\* The saved copy is indexed, by a node that has no row of it.
IndexCopy ==
    /\ copy # None
    /\ again' = Ingest([scheme |-> "file", host |-> "other", path |-> copy, query |-> None],
                       item.content, FALSE)
    /\ UNCHANGED <<vars, item, plan, served, copy, row>>

\* A result of search links to the canonical location.
Follow ==
    /\ row # None
    /\ row.canonical \notin {None, item.link}
    /\ item' = [item EXCEPT !.link = row.canonical]
    /\ plan' = None /\ served' = None /\ copy' = None /\ again' = None
    /\ UNCHANGED <<vars, row>>

IngestNext ==
    \/ item = None /\ Next /\ UNCHANGED ingestVars
    \/ Obtain \/ ViewPlan \/ Publish \/ Download \/ SaveCopy \/ Index \/ IndexCopy \/ Follow

IngestSpec == IngestInit /\ [][IngestNext]_<<vars, ingestVars>>

-----------------------------------------------------------------------------
\* The name that the link gives is the name of the file, or has no extension left.
IsNamedByLink(link) ==
    LET name == Chosen(link, None)
    IN name = None \/ Sanitized(name) = None \/ Sanitized(name).ext \in {"", name.ext}

(***************************************************************************)
(* "The stored mime_type and the type a downloaded file is served as have  *)
(* to agree" (mime.rs), and so must the type of a copy that was saved      *)
(* under the suggested name and indexed again.  Not so for a bundle, which *)
(* is served as the zip it is; for a name that only the row knows, which   *)
(* the viewer does not take as a hint; and for an extension that           *)
(* sanitising mends or cuts.                                               *)
(***************************************************************************)
OneTypePerRecord ==
    /\ served # None /\ row # None /\ row.link = item.link /\ row.mime # WatchList =>
           row.mime = served.mime
    /\ again # None /\ again.mime # WatchList /\ ~served.known /\ IsNamedByLink(item.link) =>
           again.mime = served.mime

(***************************************************************************)
(* "A prefix may confirm a specific type, never assert a generic one"      *)
(* (mime.rs): what the page is told from the first bytes is what the whole *)
(* file turns out to be, or nothing; and what it is told to show in a tab  *)
(* the viewer does show.  Not so for a marked text that turns out not to   *)
(* be one.                                                                 *)
(***************************************************************************)
PlanIsCautious ==
    plan # None /\ plan.sniffed /\ served # None
    /\ (item.content.mark # None => item.content.head = item.content.whole) =>
        /\ plan.mime \in {served.mime, OctetStream}
        /\ plan.renderable => served.inline

\* A line for each entry that has a path, or else the number of them all.
ManifestIsListed(m, d) ==
    IF ~Accounted(m) THEN d.count = 0 /\ d.lines = << >>
    ELSE \/ d.count = Len(Entries(m)) /\ d.lines = << >>
         \/ /\ d.count = 0
            /\ Len(d.lines) = Cardinality({i \in DOMAIN Entries(m) :
                                             Text(Entries(m)[i], "path") # 0})

\* A line for each film and for each episode that has a title, except where a film
\* and a series share one: the line is then of the one that comes first.
BundleIsListed(items, d) ==
    \A i \in DOMAIN items : items[i].title # None =>
        \E k \in DOMAIN d.lines :
            /\ d.lines[k].title = items[i].title
            /\ \/ items[i].season = 0
               \/ <<items[i].season, items[i].episode>> \in d.lines[k].episodes
               \/ \E j \in DOMAIN items :
                     items[j].title = items[i].title /\ items[j].season = 0

\* What is in the window is the beginning of the lines, and the rest is counted,
\* in a marker that is whole: a text that is cut, and says so, lists nothing.
WindowIsHonest(d) ==
    /\ d.placed \in 0 .. Len(d.lines) /\ d.placed + d.more = Len(d.lines)
    /\ d.cut => d.placed = 0

\* The count survives the cut: not so where the head leaves no room for the marker.
MarkersAreWhole ==
    \A r \in {row, again} \ {None} : r.description.more # 0 => ~r.description.cut

\* And every file of a bundle is told or counted: not so for one without a stem.
EveryItemIsTold ==
    \A r \in {row, again} \ {None} :
        r.mime = WatchList =>
            \A i \in DOMAIN Items(item.content.archive) :
                Items(item.content.archive)[i].title \in
                    {r.description.lines[k].title : k \in DOMAIN r.description.lines}

(***************************************************************************)
(* A description never passes a part of a list off as the list             *)
(* (metadata.rs, describe.rs: "a partial listing whose tail counts the     *)
(* stored prefix would miscount the file"): what it lists and what it      *)
(* counts make up what the file holds, and a manifest that cannot be       *)
(* accounted for is not listed at all.                                     *)
(***************************************************************************)
ListingIsHonest ==
    \A r \in {row, again} \ {None} :
        /\ WindowIsHonest(r.description)
        /\ r.mime = AntManifest => ManifestIsListed(item.content.manifest, r.description)
        /\ r.mime = WatchList => BundleIsListed(Items(item.content.archive), r.description)

=============================================================================
