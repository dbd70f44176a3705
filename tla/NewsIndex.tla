----------------------------- MODULE NewsIndex -----------------------------
(***************************************************************************)
(* rss-news-search.c: the program reads a list of feeds, follows the items *)
(* of every feed to their articles, counts the words of the articles in a  *)
(* hash set and then answers queries.  One action is one iteration of one  *)
(* of its loops.  The network and the tokenizers are a prebuilt library:   *)
(* a document is here what the tokenizer makes of it, a sequence of tags   *)
(* for PullAllNewsItems and one of words for ScanArticle, and Web says     *)
(* what URLConnectionNew finds at a URL.                                   *)
(***************************************************************************)
EXTENDS Vector, SequencesExt

CONSTANTS
    NULL,
    FeedLists,      \* the files that the user may name: sequences of URLs
    NoUrl,          \* a line of such a file that ends behind its colon
    WholeLine,      \* a line, name and all, that is taken for a URL
    Web,            \* URL -> [code, newUrl, tags, words]
    Files,          \* URL that begins with file:// -> [fileName, body]
    StopWords,      \* data/stop-words.txt, line by line
    Tag,            \* "<" and all that SkipIrrelevantContent drops with it
    Absent,         \* the text of an element like <title/>
    Unescaped,      \* token -> the word that RemoveEscapeCharacters makes of it
    WellFormed,     \* the words with letters, digits and "-" behind a letter
    Lower,          \* string -> the same in lower case, where the two differ
    Code,           \* word in lower case -> hash code
    NumBuckets,
    InitialArticles,
    MaxShown,       \* 10 in print_result
    Queries

-----------------------------------------------------------------------------
(***************************************************************************)
(* Strings                                                                 *)
(***************************************************************************)
\* What strcasecmp and tolower make of a string.
Fold(s) == IF s \in DOMAIN Lower THEN Lower[s] ELSE s

Tokens == {Tag} \cup DOMAIN Unescaped

Pages == [code : Nat, newUrl : STRING, words : Seq(Tokens),
          tags : Seq([tag : STRING, text : STRING \cup {Absent}])]

\* The strings that are hashed have a hash code; whether a word is well-formed does
\* not depend on its case; NULL is no address and garbage no structure.  No list is a
\* single line without a URL: remoteFileName would be used before it is written.  A
\* local file has no tags, its tokenizer discards "<" like every delimiter.  The last
\* conjunct is true in TLA+, but the provers have no axiom for it.
ASSUME NewsAssumption ==
    /\ NumBuckets \in Nat \ {0}
    /\ InitialArticles \in Nat
    /\ MaxShown \in Nat \ {0}
    /\ StopWords \in Seq(STRING)
    /\ \A url \in DOMAIN Web : Web[url] \in Pages
    /\ \A name_ \in DOMAIN Files :
          Files[name_] \in [fileName : STRING, body : Seq(DOMAIN Unescaped)]
    /\ <<NoUrl>> \notin FeedLists
    /\ Code \in [DOMAIN Code -> Nat]
    /\ \A word \in WellFormed : Fold(word) \in DOMAIN Code
    /\ \A i \in DOMAIN StopWords : Fold(StopWords[i]) \in DOMAIN Code
    /\ \A url \in DOMAIN Web : \A i \in DOMAIN Web[url].tags :
          LET element == Web[url].tags[i]
          IN  element.tag = "link" /\ element.text \notin {Absent, ""} => Fold(element.text) \in DOMAIN Code
    /\ \A token \in DOMAIN Unescaped, word \in WellFormed :
          Fold(Unescaped[token]) = Fold(word) => Unescaped[token] \in WellFormed
    /\ NULL \notin [bucket : 0 .. (NumBuckets - 1), index : Nat]
    /\ Garbage \notin [occ_count : Nat, title : STRING, addr : STRING]
    /\ "" \in STRING

VARIABLES
    pc,             \* "feeds", "feed", "items", "item", "article", "scan", "query", "end"
    feeds, line,    \* the file of feeds, and how many lines of it have been read
    remoteFileName, \* the buffer of BuildIndices
    name,           \* the parameter of ProcessFeed
    st,             \* the rest of the feed
    title, addr,    \* articleTitle, articleURL
    doc,            \* the rest of the article
    swords, used_articles, statistics,
    answer,         \* what ProcessResponse has printed last
    scanned         \* history: the articles in the order of reading, with their words

input == <<feeds, line, remoteFileName, name, st>>
sets  == <<swords, used_articles, statistics>>
vars  == <<pc, input, title, addr, doc, sets, answer, scanned>>

-----------------------------------------------------------------------------
(***************************************************************************)
(* Words and the functions for the hash sets                               *)
(***************************************************************************)
strings_hash(s) == Code[Fold(s)] % NumBuckets

statistics_hash(woa) == strings_hash(woa.word)

\* Faulty: strcmp.
ExactWord(woa) == woa.word

statistics_key(woa) == Fold(woa.word)

WordIsWellFormed(word) == word \in WellFormed

Similar(occ1, occ2) ==
    \/ Fold(occ1.addr) = Fold(occ2.addr)
    \/ Fold(occ1.title) = Fold(occ2.title)

\* Faulty: the rarest article first.
LessOften(occ1, occ2) == occ1.occ_count < occ2.occ_count

\* occurances_cmp_num: what VectorSort puts first.
MoreOften(occ1, occ2) == occ1.occ_count > occ2.occ_count

Before(vec) == {p \in Content(vec) \X Content(vec) : MoreOften(p[1], p[2])}

\* The sets of words and of articles, and the index.
Strings == INSTANCE HashSet WITH Hash <- strings_hash, Key <- Fold
Stats   == INSTANCE HashSet WITH Hash <- statistics_hash, Key <- statistics_key

Statistic(word) ==
    Stats!HashSetLookup(statistics, [word |-> word])

IsIn(word, set) == Strings!HashSetLookup(set, word) # NULL

\* alloc_sets, read_swords
read_swords ==
    FoldLeft(LAMBDA hs, word : Strings!HashSetEnter(hs, word),
             Strings!HashSetNew(NumBuckets, TRUE), StopWords)

Connection(url) ==
    IF url \in DOMAIN Web THEN Web[url]
    ELSE [code |-> 0, newUrl |-> "", words |-> <<>>, tags |-> <<>>]

Moved == {301, 302}

Init ==
    /\ pc = "feeds"
    /\ feeds \in FeedLists
    /\ line = 0
    /\ remoteFileName = "" /\ name = "" /\ title = "" /\ addr = ""
    /\ st = <<>> /\ doc = <<>> /\ scanned = <<>>
    /\ swords = read_swords
    /\ used_articles = Strings!HashSetNew(NumBuckets, TRUE)
    /\ statistics = Stats!HashSetNew(NumBuckets, TRUE)
    /\ answer = [kind |-> "nothing"]

-----------------------------------------------------------------------------
(***************************************************************************)
(* BuildIndices, ProcessFeed                                               *)
(***************************************************************************)
\* STNextToken discards the end of a line without a URL, so that all of the next
\* line is taken for the URL.  Behind the last line there is none, and the buffer
\* keeps what it has.
ReadLine(n) ==
    \/ /\ feeds[n] # NoUrl
       /\ line' = n /\ remoteFileName' = feeds[n]
    \/ /\ feeds[n] = NoUrl /\ n < Len(feeds)
       /\ line' = n + 1 /\ remoteFileName' = WholeLine
    \/ /\ feeds[n] = NoUrl /\ n = Len(feeds)
       /\ line' = n /\ UNCHANGED remoteFileName

NextFeed ==
    /\ pc = "feeds" /\ line < Len(feeds)
    /\ ReadLine(line + 1)
    /\ name' = remoteFileName'
    /\ pc' = "feed"
    /\ UNCHANGED <<feeds, st, title, addr, doc, sets, answer, scanned>>

EndOfFeeds ==
    /\ pc = "feeds" /\ line = Len(feeds)
    /\ pc' = "query"
    /\ UNCHANGED <<input, title, addr, doc, sets, answer, scanned>>

\* ScanArticle is called.
Scan(articleTitle, articleURL, body) ==
    /\ title' = articleTitle
    /\ addr' = articleURL
    /\ doc' = body
    /\ scanned' = Append(scanned, [title |-> articleTitle, addr |-> articleURL, words |-> <<>>])
    /\ pc' = "scan"

ProcessFeedFromFile ==
    /\ pc = "feed" /\ name \in DOMAIN Files
    /\ Scan(Files[name].fileName, Files[name].fileName, Files[name].body)
    /\ UNCHANGED <<input, sets, answer>>

ProcessFeed ==
    /\ pc = "feed" /\ name \notin DOMAIN Files
    /\ LET conn == Connection(name)
       IN  /\ st' = IF conn.code = 200 THEN conn.tags ELSE st
           /\ name' = IF conn.code \in Moved THEN conn.newUrl ELSE name
           /\ pc' = CASE conn.code = 200    -> "items"
                      [] conn.code \in Moved -> "feed"
                      [] OTHER              -> "feeds"
    /\ UNCHANGED <<feeds, line, remoteFileName, title, addr, doc, sets, answer, scanned>>

-----------------------------------------------------------------------------
(***************************************************************************)
(* The items of a feed                                                     *)
(***************************************************************************)
\* Faulty: looks at one tag only.
ItemAtHead == IF st # <<>> /\ st[1].tag = "item" THEN {1} ELSE {}

ItemTags == {i \in DOMAIN st : st[i].tag = "item"}

GetNextItemTag ==
    /\ pc = "items" /\ ItemTags # {}
    /\ st' = SubSeq(st, Min(ItemTags) + 1, Len(st))
    /\ title' = "" /\ addr' = ""
    /\ pc' = "item"
    /\ UNCHANGED <<feeds, line, remoteFileName, name, doc, sets, answer, scanned>>

NoMoreItems ==
    /\ pc = "items" /\ ItemTags = {}
    /\ st' = <<>>
    /\ pc' = "feeds"
    /\ UNCHANGED <<feeds, line, remoteFileName, name, title, addr, doc, sets, answer, scanned>>

ExtractElement(buffer, element) == IF element.text = Absent THEN buffer ELSE element.text

ItemHasMore == st # <<>> /\ Head(st).tag # "/item"

\* The description is extracted too, and never used.
ReadTag ==
    /\ pc = "item" /\ ItemHasMore
    /\ st' = Tail(st)
    /\ title' = IF Head(st).tag = "title" THEN ExtractElement(title, Head(st)) ELSE title
    /\ addr' = IF Head(st).tag = "link" THEN ExtractElement(addr, Head(st)) ELSE addr
    /\ UNCHANGED <<pc, feeds, line, remoteFileName, name, doc, sets, answer, scanned>>

\* An article is entered in used_articles only if it is there already.
EndOfItem ==
    /\ pc = "item" /\ ~ItemHasMore
    /\ st' = IF st = <<>> THEN st ELSE Tail(st)
    /\ LET known == addr # "" /\ IsIn(addr, used_articles)
       IN  /\ pc' = IF addr = "" \/ known THEN "items" ELSE "article"
           /\ used_articles' = IF known THEN Strings!HashSetEnter(used_articles, addr)
                               ELSE used_articles
    /\ UNCHANGED <<feeds, line, remoteFileName, name, title, addr, doc, swords, statistics, answer, scanned>>

-----------------------------------------------------------------------------
(***************************************************************************)
(* Articles                                                                *)
(***************************************************************************)
ParseArticle ==
    /\ pc = "article" /\ Connection(addr).code = 200
    /\ Scan(title, addr, Connection(addr).words)
    /\ UNCHANGED <<input, sets, answer>>

ParseArticleElsewhere ==
    /\ pc = "article" /\ Connection(addr).code \in Moved
    /\ addr' = Connection(addr).newUrl
    /\ UNCHANGED <<pc, input, title, doc, sets, answer, scanned>>

PuntArticle ==
    /\ pc = "article" /\ Connection(addr).code \notin Moved \cup {200}
    /\ pc' = "items"
    /\ UNCHANGED <<input, title, addr, doc, sets, answer, scanned>>

\* process_word: what the statistics become.  The vector of a known word is
\* changed in place, at the address that the hash set has returned.
process_word(word) ==
    LET at    == Statistic(word)
        woa   == Stats!HashSetAt(statistics, at)
        occ   == [occ_count |-> 1, title |-> title, addr |-> addr]
        Put(vec) == Stats!HashSetOverwrite(statistics, at, [woa EXCEPT !.vec = vec])
        index == VectorSearch(woa.vec, {o \in Content(woa.vec) : Similar(o, occ)}, 0)
    IN  IF at = NULL
        THEN Stats!HashSetEnter(statistics,
                          [word |-> word, vec |-> VectorAppend(VectorNew(FALSE, InitialArticles), occ)])
        ELSE IF index = -1 THEN Put(VectorAppend(woa.vec, occ))
        ELSE Put([woa.vec EXCEPT !.arr[index].occ_count = @ + 1])

\* One iteration of ScanArticle.
ScanArticle ==
    /\ pc = "scan" /\ doc # <<>>
    /\ LET token == Head(doc)
           word  == Unescaped[token]
       IN  /\ statistics' = IF token = Tag \/ ~WordIsWellFormed(word) \/ IsIn(word, swords)
                            THEN statistics ELSE process_word(word)
           /\ scanned' = IF token = Tag THEN scanned
                         ELSE [scanned EXCEPT ![Len(scanned)].words = Append(@, word)]
    /\ doc' = Tail(doc)
    /\ UNCHANGED <<pc, input, title, addr, swords, used_articles, answer>>

EndOfArticle ==
    /\ pc = "scan" /\ doc = <<>>
    /\ pc' = IF name \in DOMAIN Files THEN "feeds" ELSE "items"
    /\ UNCHANGED <<input, title, addr, doc, sets, answer, scanned>>

-----------------------------------------------------------------------------
(***************************************************************************)
(* QueryIndices                                                            *)
(***************************************************************************)
Kind(word) ==
    IF ~WordIsWellFormed(word) THEN "not allowed"
    ELSE IF IsIn(word, swords) THEN "too common"
    ELSE IF Statistic(word) = NULL THEN "none" ELSE "list"

Refuse(word) ==
    /\ pc = "query" /\ Kind(word) # "list"
    /\ answer' = [word |-> word, kind |-> Kind(word)]
    /\ UNCHANGED <<pc, input, title, addr, doc, sets, scanned>>

\* print_result sorts the vector of the index itself.
ProcessResponse(word) ==
    LET at  == Statistic(word)
        woa == Stats!HashSetAt(statistics, at)
    IN  /\ pc = "query" /\ Kind(word) = "list"
        /\ \E vec \in VectorSort(woa.vec, Before(woa.vec)) :
              /\ statistics' = Stats!HashSetOverwrite(statistics, at, [woa EXCEPT !.vec = vec])
              /\ answer' = [word |-> word, kind |-> "list",
                            list |-> SubSeq(Elements(vec), 1, Min({MaxShown, VectorLength(vec)}))]
        /\ UNCHANGED <<pc, input, title, addr, doc, swords, used_articles, scanned>>

\* An empty line ends the loop, main calls dispose_sets.
Quit ==
    /\ pc = "query"
    /\ pc' = "end"
    /\ swords' = Strings!HashSetDispose(swords)
    /\ used_articles' = Strings!HashSetDispose(used_articles)
    /\ statistics' = Stats!HashSetDispose(statistics)
    /\ UNCHANGED <<input, title, addr, doc, answer, scanned>>

Finished == pc = "end" /\ UNCHANGED vars

Index ==
    \/ NextFeed \/ EndOfFeeds \/ ProcessFeedFromFile \/ ProcessFeed
    \/ GetNextItemTag \/ NoMoreItems \/ ReadTag \/ EndOfItem
    \/ ParseArticle \/ ParseArticleElsewhere \/ PuntArticle \/ ScanArticle \/ EndOfArticle

Query == \E word \in Queries : Refuse(word) \/ ProcessResponse(word)

Next == Index \/ Query \/ Quit \/ Finished

\* Nothing but the program itself decides how the reading goes on; the user may
\* never ask and never quit.
Spec == Init /\ [][Next]_vars /\ WF_vars(Index)

-----------------------------------------------------------------------------
(***************************************************************************)
(* Properties                                                              *)
(***************************************************************************)
\* Types: articles and their counts, and answers no longer than they may be.
TypeOK ==
    /\ pc \in {"feeds", "feed", "items", "item", "article", "scan", "query", "end"}
    /\ \A woa \in ToSet(Stats!HashSetElements(statistics)) :
          /\ woa.word \in WellFormed
          /\ VectorLength(woa.vec) \in 1 .. woa.vec.alloc_len
          /\ Garbage \notin ToSet(Elements(woa.vec))
          /\ \A occ \in ToSet(Elements(woa.vec)) : occ.occ_count \in Nat \ {0}
    /\ Strings!HashSetElements(used_articles) = <<>>
    /\ answer.kind = "list" => Len(answer.list) \in 1 .. MaxShown

IsStopWord(word) == \E i \in DOMAIN StopWords : Fold(StopWords[i]) = Fold(word)

\* Where the articles in the positions set have the word, in any case; how often.
Places(word, set) ==
    UNION {{i} \X {k \in DOMAIN scanned[i].words : Fold(scanned[i].words[k]) = Fold(word)} : i \in set}

Occurrences(word, set) == Cardinality(Places(word, set))

SumOfCounts(occs) == SumFunctionOnSet([occ \in ToSet(occs) |-> occ.occ_count], ToSet(occs))

\* At every moment the index says of each word how often it has been read, however
\* the word is written and however articles are merged: no word is lost when a
\* vector grows, none is in the set twice, none is counted that is not in the text;
\* it is counted for an article that has it, and no more often than it is in the
\* articles that are similar to that one.  The text is what was read: an article
\* that is read twice is in it twice, and so are the tags of a local file.
CountsMatchText ==
    LET elems == Stats!HashSetElements(statistics)
        read  == UNION {ToSet(scanned[i].words) : i \in DOMAIN scanned}
    IN  /\ {Fold(woa.word) : woa \in ToSet(elems)} =
              {Fold(w) : w \in {x \in read : WordIsWellFormed(x) /\ ~IsStopWord(x)}}
        /\ Len(elems) = Cardinality({Fold(woa.word) : woa \in ToSet(elems)})
        /\ \A woa \in ToSet(elems) :
              LET occs == Elements(woa.vec)
              IN  /\ SumOfCounts(occs) = Occurrences(woa.word, DOMAIN scanned)
                  /\ \A j, k \in DOMAIN occs : j # k => ~Similar(occs[j], occs[k])
                  /\ \A j \in DOMAIN occs :
                        \E i \in DOMAIN scanned :
                           /\ scanned[i].title = occs[j].title /\ scanned[i].addr = occs[j].addr
                           /\ Occurrences(woa.word, {i}) > 0
                  /\ \A j \in DOMAIN occs :
                        occs[j].occ_count <=
                           Occurrences(woa.word, {i \in DOMAIN scanned : Similar(scanned[i], occs[j])})

\* An answer lists the articles with the word, the ones with most occurrences first
\* and none left out that has more of them than one that is shown; it says that
\* there is none only of a word that was never read.
AnswersRanked ==
    /\ answer.kind = "list" =>
          LET all == Elements(Stats!HashSetAt(statistics, Statistic(answer.word)).vec)
          IN  /\ ToSet(answer.list) \subseteq ToSet(all)
              /\ \A i, j \in DOMAIN answer.list :
                    i < j => answer.list[i].occ_count >= answer.list[j].occ_count
              /\ \A occ \in ToSet(all) \ ToSet(answer.list) :
                    /\ Len(answer.list) = MaxShown
                    /\ occ.occ_count <= answer.list[MaxShown].occ_count
    /\ answer.kind = "none" => Occurrences(answer.word, DOMAIN scanned) = 0

\* Where the redirections from a URL end.
Destination(url) ==
    LET after[n \in 0 .. Cardinality(DOMAIN Web)] ==
          IF n = 0 THEN url
          ELSE LET u == after[n - 1]
               IN  IF Connection(u).code \in Moved THEN Connection(u).newUrl ELSE u
    IN  after[Cardinality(DOMAIN Web)]

\* The link of an item of a feed, read without the program: the last text of a link
\* element between the item tag and the end of the item.
LinkOf(tags, i) ==
    LET closes == Min({j \in DOMAIN tags : j > i /\ tags[j].tag = "/item"} \cup {Len(tags)})
        given  == {j \in i .. closes : tags[j].tag = "link" /\ tags[j].text # Absent}
    IN  IF given = {} THEN "" ELSE tags[Max(given)].text

Exists(url) == Connection(url).code = 200

\* How the lines ns of a list lead to articles: <<line, item, address>>.
Routes(list, ns) ==
    LET urls == {n \in ns : list[n] # NoUrl}
        Items(n) ==
          IF list[n] \in DOMAIN Files THEN {<<0, Files[list[n]].fileName>>}
          ELSE LET feed  == Destination(list[n])
                   tags  == IF Exists(feed) THEN Connection(feed).tags ELSE <<>>
                   items == {i \in DOMAIN tags : tags[i].tag = "item" /\ LinkOf(tags, i) # ""}
               IN  {<<i, Destination(LinkOf(tags, i))>> :
                      i \in {k \in items : Exists(Destination(LinkOf(tags, k)))}}
    IN  UNION {{<<n, item[1], item[2]>> : item \in Items(n)} : n \in urls}

\* The lines that do not follow one without a URL.
Intact(list) == {n \in DOMAIN list : n = 1 \/ list[n - 1] # NoUrl}

\* If the last line has no URL, the one before it counts twice.
Resolved(list) ==
    LET n == Len(list)
    IN  IF n > 1 /\ list[n] = NoUrl THEN [list EXCEPT ![n] = list[n - 1]] ELSE list

\* With redirections that end, the program comes to its queries.  By then it has read
\* every article that a line of its file leads to, unless the line before has no URL;
\* and it has read each as often as lines and their items lead to it at most, and no
\* other one, but for the feed that a last line without a URL has it read again.
EveryFeedIsRead ==
    LET Read(a) == {i \in DOMAIN scanned : scanned[i].addr = a}
        Leading(a) == {r \in Routes(Resolved(feeds), DOMAIN feeds) : r[3] = a}
    IN  <>(/\ pc = "query"
           /\ \A r \in Routes(feeds, Intact(feeds)) : Read(r[3]) # {}
           /\ \A i \in DOMAIN scanned :
                 Cardinality(Read(scanned[i].addr)) <= Cardinality(Leading(scanned[i].addr)))

\* "Never index the same article twice": the same URL is the same article.  This is
\* what the assignment asks for and not what the program does.
NeverIndexedTwice ==
    \A i, j \in DOMAIN scanned :
        i # j => Fold(scanned[i].addr) # Fold(scanned[j].addr)
=============================================================================
