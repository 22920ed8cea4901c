----------------------------- MODULE MCAvDownload ----------------------------
(* Instances of AvDownload and AvIngest for TLC. *)
EXTENDS AvIngest

CONSTANTS c1, c2

Name(stem, ext) == [stem |-> stem, ext |-> ext]

MCNames ==
    {Name("kept", ext) : ext \in {"", "csv", "jpeg", "htm", "xyz", "watch-list", "cs~v"}}
    \cup {Name("dropped", ext) : ext \in {"", "csv"}}
    \cup {Name("long", "csv"), Name("nearly_long", "csv"), Name("nearly_long", "jsonl")}

Link(scheme, host, path, query) ==
    [scheme |-> scheme, host |-> host, path |-> path, query |-> query]

Bare == Link("none", "address", None, None)

MCLinks ==
    {Link("autonomi", "address", name, None) : name \in MCNames \cup {None}}
    \cup {Bare, Link("none", "other", Name("kept", "csv"), None),
          Link("ant", "address", Name("kept", "csv"), Name("kept", "png")),
          Link("autonomi", "address", None, Name("kept", "csv")),
          Link("autonomi", "manifest", Name("kept", ""), None),
          Link("file", "other", Name("kept", "csv"), None),
          Link("http", "other", None, None)}
    \cup {Link("http", "other", Name("kept", ext), None) :
             ext \in {"", "svg", "watch-list", "cs~v"}}

Plain == [magic |-> None, head |-> TRUE, whole |-> TRUE, mark |-> None, empty |-> FALSE,
          archive |-> None, manifest |-> None]

MCContents ==
    {Plain, [Plain EXCEPT !.whole = FALSE], [Plain EXCEPT !.head = FALSE, !.whole = FALSE],
     [Plain EXCEPT !.mark = Html], [Plain EXCEPT !.mark = Html, !.whole = FALSE],
     [Plain EXCEPT !.mark = <<"text", "markdown">>],
     [Plain EXCEPT !.magic = <<"image", "png">>, !.head = FALSE, !.whole = FALSE],
     [Plain EXCEPT !.empty = TRUE]}

(* Bundles. *)
Item(title, season, episode, chars) ==
    [title |-> title, season |-> season, episode |-> episode, chars |-> chars]

Film == Item("f", 0, 0, 9)
Episodes == <<Item("s", 1, 1, 6), Item("s", 1, 2, 6), Item("s", 2, 4, 6)>>
Namesake == Item("s", 0, 0, 6)
Nameless == Item(None, 0, 0, 0)

Member(item_, inside) == [datamap |-> TRUE, inside |-> inside, media |-> item_]
Other == [datamap |-> FALSE, inside |-> FALSE, media |-> Film]

Archive(list, members) ==
    [Plain EXCEPT !.magic = ZipArchive, !.head = FALSE, !.whole = FALSE,
                  !.archive = [list |-> list, members |-> members]]

MCArchives ==
    {Archive(None, <<>>), Archive(<<>>, <<Other>>), Archive(None, <<Other, Member(Film, FALSE)>>),
     Archive(<<Film, Episodes[1]>>, <<Member(Film, FALSE), Member(Episodes[1], TRUE)>>),
     Archive(<<Film>>, <<Member(Episodes[1], TRUE), Member(Episodes[3], TRUE)>>),
     Archive(None, <<Member(Film, FALSE), Member(Episodes[1], TRUE), Member(Episodes[2], FALSE),
                     Member(Episodes[2], TRUE), Member(Episodes[3], TRUE)>>),
     Archive(None, <<Member(Namesake, TRUE), Member(Episodes[1], TRUE)>>),
     Archive(None, <<Member(Nameless, TRUE), Member(Film, TRUE), Member(Nameless, FALSE)>>),
     Archive(None, [i \in 1 .. 6 |-> Member(Item(i, 0, 0, 9), TRUE)])}

(* Manifests. *)
Nil == [is |-> "nil"]
Chars(n) == [is |-> "text", portable |-> TRUE, chars |-> n]
Field(key, val) == [key |-> key, val |-> val]
Map(fields) == [is |-> "map", fields |-> fields]
Address(n) == Map(<<Field("Public", Map(<<Field("address", [is |-> "bin", len |-> n])>>))>>)
DataMap(n) ==
    Map(<<Field("Embedded",
           Map(<<Field("data_map", Map(<<Field("chunks", [is |-> "bin", len |-> n])>>))>>))>>)

Entry(path, source) == Map(<<Field("path", path), Field("size", Nil), Field("source", source)>>)
Array(items) == [is |-> "array", items |-> items]

Body(name, entries) == Map(<<Field("name", name), Field("entries", entries),
                             Field("other", [is |-> "other"]), Field("torrent", Nil)>>)

Ant(body) ==
    [Plain EXCEPT !.magic = AntManifest, !.head = FALSE, !.whole = FALSE,
                  !.manifest = [oversized |-> FALSE, version |-> 1, trailing |-> FALSE,
                                body |-> body]]

Two == <<Entry(Chars(5), Address(32)), Entry(Nil, DataMap(68))>>
Long == <<Entry(Chars(20), Address(32)), Entry(Chars(20), Address(32))>>

MCManifests ==
    {Ant(Body(Chars(6), Array(Two))), Ant(Body(Nil, Array(<<>>))),
     Ant(Body(Nil, Array(Two \o <<Entry(Chars(5), Address(32))>>))),
     Ant(Body(Nil, Array(Long))),
     Ant(Body(Nil, Array(Two \o Long))),
     Ant(Body([is |-> "text", portable |-> FALSE, chars |-> 6], Array(Two))),
     Ant(Body(Nil, Array(<<Entry(Chars(5), Address(31))>>))),
     Ant(Body(Nil, Array(<<Entry(Chars(5), DataMap(67))>>))),
     Ant(Body(Nil, Array(<<Entry(Chars(5), Map(<<Field("Other", Nil)>>))>>))),
     Ant(Map(<<Field("entries", Array(Two)), Field("entries", Array(Two))>>)),
     Ant(Map(<<Field("entries", Array(Two)), Field("other", [is |-> "broken"])>>)),
     Ant(Map(<<Field("name", Nil)>>)),
     [Ant(Body(Nil, Array(Two))) EXCEPT !.manifest.version = 2],
     [Ant(Body(Nil, Array(Two))) EXCEPT !.manifest.trailing = TRUE]}

MCCases ==
    {[link |-> link, content |-> content] : link \in MCLinks, content \in MCContents}
    \cup {[link |-> link, content |-> content] :
             link \in {Bare, Link("autonomi", "address", Name("kept", "watch-list"), None)},
             content \in MCArchives \cup MCManifests}
=============================================================================
