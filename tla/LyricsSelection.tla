--------------------------- MODULE LyricsSelection ---------------------------
(***************************************************************************)
(* The metadata of a song: fetchBest of                                     *)
(* src/infrastructure/lyrics/lyrics_aggregator.cpp asks every provider at   *)
(* once, waits for all of them, chooses one platform by three rules and     *)
(* fills its gaps from the others.                                          *)
(*                                                                         *)
(* What a provider leaves behind depends on where a request, a parser or an *)
(* exception stopped it: a platform that failed may still have an artist,   *)
(* an album or a translation.  Answers(p) is the set of what fetch may      *)
(* leave, one definition per request of the four providers.                 *)
(*                                                                         *)
(* A field of a Metadata is the platform it came from, or None; of the text *)
(* of the lyrics the model keeps whether it is Chinese, since only foreign  *)
(* lyrics need a translation.  The song's name is filled as the artist is.  *)
(***************************************************************************)
EXTENDS Integers, Sequences, FiniteSetsExt

CONSTANTS Providers,   \* providers_, in the order they were added
          Preferences, \* platforms a user may ask for
          NoPreference,
          None, NoAnswer

(* defaultOrder, which is also the order main.cpp adds the providers in.    *)
DefaultOrder == <<"kugou", "netease", "qqmusic", "qishui">>
Platforms == {DefaultOrder[i] : i \in DOMAIN DefaultOrder}
Enabled == {Providers[i] : i \in DOMAIN Providers}

(* Without a provider fetchBest returns before it asks anyone.              *)
ASSUME ProvidersAssumption == Providers \in Seq(Platforms) /\ Enabled # {}
ASSUME PreferencesAssumption == Preferences \subseteq Platforms \cup {NoPreference}
ASSUME NoneAssumption == None \notin Platforms /\ NoPreference \notin Platforms

Source   == Platforms \cup {None}
Metadata == [lyrics : Source, chinese : BOOLEAN, trans : Source,
             cover : Source, album : Source, artist : Source]

VARIABLES preferred,  \* preferredPlatform
          answer,     \* [Enabled -> Metadata or NoAnswer]: allData
          best        \* what fetchBest returned, or NoAnswer

lyricsVars == <<preferred, answer, best>>

LyricsInit == /\ preferred \in Preferences
              /\ answer = [p \in Enabled |-> NoAnswer]
              /\ best = NoAnswer

-----------------------------------------------------------------------------
(* searchSong: whether it found a song, and the fields it set.              *)
Found(fields) == [ok |-> TRUE, fields |-> fields]
Lost(fields)  == [ok |-> FALSE, fields |-> fields]

(* Every field is optional; artist and album are set in this order, and a   *)
(* field of an unexpected type throws and leaves those before it.           *)
KugouSearch == {Found(s) : s \in SUBSET {"artist", "album", "url"}}
               \cup {Lost({}), Lost({"artist"}), Lost({"album"}), Lost({"artist", "album"})}
NeteaseSearch == KugouSearch
(* The types are tested: once a song is chosen nothing throws.              *)
QqmusicSearch == {Found(s) : s \in SUBSET {"artist", "album", "url"}} \cup {Lost({})}
(* The album comes first, and its cover may throw; the artist is set last.  *)
QishuiSearch == {Found(s) : s \in SUBSET {"artist", "album", "url"}}
                \cup {Lost({}), Lost({"album"})}

SearchOf(p) == CASE p = "kugou" -> KugouSearch
                 [] p = "netease" -> NeteaseSearch
                 [] p = "qqmusic" -> QqmusicSearch
                 [] p = "qishui" -> QishuiSearch

(* getLyrics: the language of the lyrics, or "none"; whether a translation  *)
(* was set; and the fields it set or changed.                               *)
Text(language, trans, sets) == [language |-> language, trans |-> trans, sets |-> sets]
NoText == Text("none", FALSE, {})
Texts  == {Text(l, t, {}) : l \in {"chinese", "foreign"}, t \in BOOLEAN}

(* A translation, from the LRC or else the KRC file, is set though the text *)
(* of the lyrics be empty.                                                  *)
KugouLyrics == Texts \cup {NoText, Text("none", TRUE, {})}
NeteaseLyrics == Texts \cup {NoText}
QqmusicLyrics == Texts \cup {NoText}
(* track_v2: what is not in a known format may leave no line of lyrics, and *)
(* a translation all the same; an exception counts as no answer.            *)
QishuiTrack == Texts \cup {Text("none", FALSE, {}), Text("none", TRUE, {})}
(* The share page is asked when track_v2 gave no answer; artist and cover   *)
(* of the page replace those of the search, with or without lyrics.         *)
QishuiSharePage ==
    {[t EXCEPT !.sets = s] : t \in Texts, s \in SUBSET {"artist", "url"}}
    \cup {Text("none", FALSE, s) : s \in SUBSET {"artist", "url"}}
QishuiLyrics == QishuiTrack \cup QishuiSharePage

LyricsOf(p) == CASE p = "kugou" -> KugouLyrics
                 [] p = "netease" -> NeteaseLyrics
                 [] p = "qqmusic" -> QqmusicLyrics
                 [] p = "qishui" -> QishuiLyrics

(* fetch: search, then lyrics, then the cover, if there is a URL for it.    *)
Filled(p, fields, text, cover) ==
    LET from(b) == IF b THEN p ELSE None
    IN  [lyrics |-> from(text.language # "none"), chinese |-> text.language = "chinese",
         trans |-> from(text.trans), cover |-> from(cover),
         album |-> from("album" \in fields), artist |-> from("artist" \in fields)]

WithCover(fields) == {c \in BOOLEAN : c => "url" \in fields}
Fetched(p, s, t) ==
    LET fields == s.fields \cup t.sets
    IN  {Filled(p, fields, t, c) : c \in WithCover(fields)}

(* Nothing more is asked once the search has failed.                        *)
WithoutSong(p) == {Filled(p, s.fields, NoText, FALSE) : s \in {r \in SearchOf(p) : ~r.ok}}
WithSong(p) ==
    UNION {Fetched(p, s, t) : s \in {r \in SearchOf(p) : r.ok}, t \in LyricsOf(p)}

Answers == [p \in Enabled |-> WithoutSong(p) \cup WithSong(p)]

-----------------------------------------------------------------------------
(* buildPlatformOrder: the preferred platform, then the default order.  The *)
(* code leaves the preferred one out of the rest, where no search that      *)
(* stops at the first finds it anyway.                                      *)
PlatformOrder == IF preferred = NoPreference THEN DefaultOrder
                 ELSE <<preferred>> \o DefaultOrder

(* The first platform of a sequence that is in a set, if there is one.      *)
First(seq, set) ==
    LET places == {i \in DOMAIN seq : seq[i] \in set}
    IN  IF places = {} THEN None ELSE seq[Min(places)]

Having(field) == {p \in Enabled : answer[p][field] # None}

(* hasCoreData, isComplete: foreign lyrics must have a translation.         *)
Core == {p \in Having("lyrics") : answer[p].chinese \/ answer[p].trans # None}
Complete == Core \cap Having("cover")

If(b, n) == IF b THEN n ELSE 0

(* Mutant: the translation is worth as much as the album.                   *)
ScoreTexts(p) ==
    LET d == answer[p]
    IN  IF d.lyrics = None THEN 0
        ELSE 100 + If(d.trans # None, 10)
                 + If(d.album # None, 10) + If(d.cover # None, 1)
(* missingScore.                                                            *)
Score(p) ==
    LET d == answer[p]
    IN  IF d.lyrics = None THEN 0
        ELSE 100 + If(d.trans # None, IF d.chinese THEN 50 ELSE 100)
                 + If(d.album # None, 10) + If(d.cover # None, 1)

HighestScore == {p \in Enabled : \A q \in Enabled : Score(q) <= Score(p)}

(* The preferred platform if it has the core data; else the first complete  *)
(* one; else the first of those with the highest score.                     *)
Primary == IF preferred \in Core THEN preferred
           ELSE IF Complete # {} THEN First(PlatformOrder, Complete)
           ELSE First(PlatformOrder, HighestScore)

(* supplementMissing.  Cover, album and artist are taken in the order of    *)
(* the answers, lyrics and translation in that of the platforms.            *)
FillField(d, field) ==
    IF d[field] # None THEN d ELSE [d EXCEPT ![field] = First(Providers, Having(field))]

FillLyrics(d) ==
    LET p == First(PlatformOrder, Having("lyrics"))
    IN  IF d.lyrics # None \/ p = None THEN d
        ELSE [d EXCEPT !.lyrics = p, !.chinese = answer[p].chinese,
                       !.trans = IF answer[p].trans # None THEN p ELSE @]

(* Mutant: only the platform of the lyrics is asked for the translation.    *)
FillOwnTranslation(d) ==
    IF d.lyrics # None /\ d.trans = None /\ ~d.chinese
    THEN [d EXCEPT !.trans = answer[d.lyrics].trans]
    ELSE d
FillTranslation(d) ==
    IF d.lyrics # None /\ d.trans = None /\ ~d.chinese
    THEN [d EXCEPT !.trans = First(PlatformOrder, Having("trans"))]
    ELSE d

SupplementMissing(d) ==
    FillTranslation(FillLyrics(FillField(FillField(FillField(d, "cover"), "album"), "artist")))

(* The futures end in any order; an exception leaves what was set before.   *)
Answer(p) == /\ answer[p] = NoAnswer
             /\ \E d \in Answers[p] : answer' = [answer EXCEPT ![p] = d]
             /\ UNCHANGED <<preferred, best>>

FetchBest == /\ \A p \in Enabled : answer[p] # NoAnswer
             /\ best = NoAnswer
             /\ best' = SupplementMissing(answer[Primary])
             /\ UNCHANGED <<preferred, answer>>

LyricsNext == (\E p \in Enabled : Answer(p)) \/ FetchBest

LyricsSpec == LyricsInit /\ [][LyricsNext]_lyricsVars

-----------------------------------------------------------------------------
(* Nothing is missing from the result that any platform has, whichever rule *)
(* chose the platform and wherever the others failed: lyrics, cover, album, *)
(* artist, and a translation of foreign lyrics.                             *)
NoGap ==
    best # NoAnswer =>
        /\ \A field \in {"lyrics", "cover", "album", "artist"} :
              best[field] = None => Having(field) = {}
        /\ best.lyrics # None /\ ~best.chinese /\ best.trans = None => Having("trans") = {}

(* Lyrics and translation are merged line by line, by their times: they are *)
(* of two platforms only when no platform has foreign lyrics with their     *)
(* translation.  That the scores of missingScore keep such a platform ahead *)
(* of every other is all that ensures it.                                   *)
TranslationBelongs ==
    best # NoAnswer /\ best.lyrics # None /\ best.trans \notin {None, best.lyrics} =>
        \A p \in Having("lyrics") : answer[p].chinese \/ answer[p].trans = None
=============================================================================
