---------------------------- MODULE MCNewsIndex ----------------------------
(***************************************************************************)
(* Four feeds, one of them behind a redirection and one a local file, with *)
(* items that share a title, a link or nothing, an item without a link, an *)
(* article that has moved and one that is gone.                            *)
(***************************************************************************)
EXTENDS NewsIndex

T(tag, text) == [tag |-> tag, text |-> text]

Item(title_, link) == <<T("item", ""), T("title", title_), T("link", link), T("/item", "")>>

Feed(tags) == [code |-> 200, newUrl |-> "", tags |-> tags, words |-> <<>>]

Article(words) == [code |-> 200, newUrl |-> "", tags |-> <<>>, words |-> words]

Elsewhere(code, url) == [code |-> code, newUrl |-> url, tags |-> <<>>, words |-> <<>>]

WebDef ==
    [feed1 |-> Feed(<<T("channel", "")>> \o Item("Mass", "a") \o <<T("pubDate", "")>>
                    \o Item("mass", "b") \o Item("Lost", "gone")),
     feed2 |-> Feed(Item("Idol", "A") \o Item("Bees", "moved")
                    \o <<T("item", ""), T("link", ""), T("title", "Mass"), T("link", Absent), T("/item", "")>>),
     feed3 |-> Feed(<<T("item", ""), T("title", "Bees"), T("title", Absent), T("link", "b")>>),
     old   |-> Elsewhere(301, "older"),
     older |-> Elsewhere(302, "feed2"),
     broken |-> Elsewhere(500, ""),
     a     |-> Article(<<"Pope", Tag, "the", "pope">>),
     A     |-> Article(<<"Pope", Tag, "the", "pope">>),
     b     |-> Article(<<"pope", "&lt;b", "bee">>),
     c     |-> Article(<<"Bee", "THE", "POPE">>),
     moved |-> Elsewhere(302, "c")]

\* The file says "<b>bee</b> 4th bee".
FilesDef == [file |-> [fileName |-> "local", body |-> <<"b", "bee", "b", "4th", "bee">>]]

Names == {"feed1", "feed3", "old", "file", "broken", "nowhere"}

FeedListsDef ==
    {<<x, y>> : x, y \in Names}
    \cup {<<x, NoUrl>> : x \in Names}
    \cup {<<x, NoUrl, y>> : x \in {"feed1", "file"}, y \in {"feed3", "old"}}
    \cup {<<"feed1", "old", "file">>, <<NoUrl, "feed1">>, <<NoUrl, "feed1", "feed3">>,
          <<NoUrl, NoUrl, "feed3">>, <<"feed3", NoUrl, NoUrl>>, <<"file", NoUrl, "old", NoUrl>>}

\* Two feeds with one article in common.
TinyDup == {<<"feed1", "feed3">>}

StopWordsDef == <<"the", "a", "The">>

UnescapedDef ==
    [w \in {"Pope", "pope", "POPE", "the", "THE", "bee", "Bee", "4th", "b"} |-> w] @@ ("&lt;b" :> "<b")

WellFormedDef == {"Pope", "pope", "POPE", "the", "THE", "The", "bee", "Bee", "a", "b", "wasp"}

LowerDef ==
    [Pope |-> "pope", POPE |-> "pope", THE |-> "the", The |-> "the", Bee |-> "bee",
     Mass |-> "mass", Idol |-> "idol", Bees |-> "bees", Lost |-> "lost", A |-> "a"]

CodeDef ==
    [pope |-> 7, the |-> 4, bee |-> 5, wasp |-> 2, a |-> 3, b |-> 6, c |-> 1, moved |-> 8, gone |-> 9]

QueriesDef == {"POPE", "bee", "the", "4th", "wasp"}
=============================================================================
