------------------------------- MODULE MCParts -------------------------------
(***************************************************************************)
(* Parts of the program that share no state, each checked by itself: part  *)
(* says which one runs. BasicIndexers and Daemon have variables of their    *)
(* own, the others run on variables that all of them share.                *)
(***************************************************************************)
EXTENDS BasicIndexers, Daemon, Integers, TLC

MCTree == {<<"home">>, <<"home", "a">>, <<"home", "a", ".b">>, <<"home", "a", ".b", "c">>,
           <<"home", "c">>}
MCLeaves == {<<"home", "c">>}
MCMedium == <<"home", "a">>
MCIncluded == {<<"home">>}

Text(scope, words, comparator) == [op |-> "text", scope |-> scope, words |-> words, comparator |-> comparator]
Time(comparator, t) == [op |-> "mtime", comparator |-> comparator, time |-> t]
In(folder) == [op |-> "folder", folder |-> folder]
Of(op, a, b) == [op |-> op, terms |-> <<a, b>>]
Q(parts) == [parts |-> parts, scopes |-> <<"filename", "content">>, sorted |-> TRUE, offset |-> 0, limit |-> 9]

MCBegins == [w \in {"doc", "docs", "none"} |-> IF w = "doc" THEN {"doc", "docs"} ELSE {w}]
Shelves ==
  {[name |-> <<<<"doc">>, <<"docs">>, <<"docs", "doc">>>>, mtime |-> <<1, 2, 1>>, parent |-> <<0, 1, 0>>],
   [name |-> <<<<>>, <<"doc", "docs">>, <<"doc">>>>, mtime |-> <<3, 1, 2>>, parent |-> <<3, 1, 0>>]}
Texts == {f \in [1..3 -> {<<>>, <<"docs", "doc">>, <<"doc", "none", "docs">>, <<"docs", "doc", "doc", "docs">>}] : f[1] # f[3]}
MCDatabases == {[name |-> s.name, mtime |-> s.mtime, parent |-> s.parent, text |-> t] : s \in Shelves, t \in Texts}

Leafs == {Text("any", <<"doc">>, ":"), Text("content", <<"docs">>, "="), Text("content", <<"docs", "doc">>, ":"),
          Text("filename", <<"doc", "docs">>, ":"), Time(">", 1), In(1),
          Text("filename", <<"none">>, ":")}
Inner == {Of(op, a, b) : op \in {"and", "or"}, a \in Leafs, b \in Leafs}
MCQueries ==
  {Q(<<t>>) : t \in Leafs \cup Inner}
    \cup {Q(<<Of("or", Of("and", Text("content", <<"docs">>, "="), t), Text("content", <<"doc", "docs">>, "=")), Text("any", <<"doc">>, ":")>>) : t \in Leafs}
    \cup {[Q(<<Text("any", <<"doc">>, ":")>>) EXCEPT !.sorted = s, !.offset = o, !.limit = l]
            : s \in BOOLEAN, o \in 0..2, l \in 1..2}
    \cup {Q(<<Time(c, t)>>) : c \in {"=", "<", "<=", ">", ">="}, t \in 1..4}

MCName == <<<<"x">>, <<"x">>, <<"b", "x">>>>
MCTags == {<<"a">>, <<"b">>, <<"a", "b">>}
MCInitialTags ==
  {<<S, T, {<<"b">>}>> : S \in {{}, {<<"a">>, <<"a", "b">>}}, T \in {{<<"b">>, <<"a", "a">>}, {<<"b", "a">>}}}

Asks(text, property, comparator, value, scope) ==
  [text |-> text, property |-> property, comparator |-> comparator, value |-> value, scope |-> scope]
MCOperand ==
  [a  |-> Asks(<<"a">>, <<>>, <<":">>, <<"a">>, "filename"),
   bc |-> Asks(<<"quote", "b", " ", "c", "quote">>, <<>>, <<":">>, <<"b", " ", "c">>, "content"),
   p  |-> Asks(<<"p", "<", "=", "d">>, <<"p">>, <<"<", "=">>, <<"d">>, ""),
   q  |-> Asks(<<"p", ":", "quote", "OR", "quote">>, <<"p">>, <<":">>, <<"OR">>, "")]
MCScopes == <<"filename", "content">>

\* Bytes that say what a message is come as lengths and within messages as well.
MCCommands == {<<"S">>, <<"B", 2, "S", "B">>}
MCStatuses == {<<"B">>, <<"F", 1, "B">>, <<"S", 2, "B", "F">>}

Seqs(S, lengths) == UNION {[1..n -> S] : n \in lengths}
At(id, positions) == [docId |-> id, positions |-> positions]
MCPositionLists ==
  {<<At(37, p)>> : p \in Seqs({0, 1, 3, 31}, 0..3)}
    \cup {<<At(0, p), At(63, q), At(2, r)>> : p, q, r \in {<<>>, <<31, 4>>}} \cup {<<>>}
MCTermLists == Seqs(Seqs({2, 3}, 0..2), 1..2) \cup Seqs(Seqs({2, 3}, {1}), {3})
MCPostings == Seqs({0, 7, 63}, 0..3)

Vals == Seqs(Seqs({"a", "b"}, 1..3), 0..2)
Properties == {<<>>, <<<<"b", "a">>>>, <<<<"a">>, <<"a", "b">>>>}
MCDocuments ==
  {[tags |-> v, comment |-> IF v = <<>> THEN <<>> ELSE <<v[1]>>, property |-> w] : v \in Vals, w \in Properties}
    \cup {[tags |-> <<>>, comment |-> <<>>, property |-> v] : v \in Vals}
MCPhrases == Seqs({"a", "b"}, 1..3)

Day(y, m, d, a, b, c) == <<"day", y, m, d, [years |-> a, months |-> b, days |-> c]>>
Slash == <<"/">>
MCTyped ==
  {<<Slash>>, <<>>, <<Slash, Slash>>, <<Slash, <<"calendar">>>>, <<Slash, <<"calendar">>, Slash>>, <<<<"calendar">>>>,
   <<Slash, <<"today">>>>, <<Slash, <<"todays">>>>, <<Slash, <<"x">>>>, <<Slash, <<"month", 1, 2>>>>,
   <<Slash, Slash, <<"calendar">>, Slash, Slash, <<"month", 0, 1>>, Slash>>, <<Slash, <<"month", 1, 3>>>>,
   <<Slash, Day(1, 2, 3, 0, 0, 0)>>, <<Slash, Day(1, 2, 3, -1, 0, 0)>>, <<Slash, Day(1, 1, 2, 0, 1, 1)>>,
   <<Slash, Day(0, 2, 2, 1, -1, -2), Slash, <<"x">>>>, <<Slash, Day(0, 1, 3, 0, 0, 0)>>,
   <<Slash, Day(0, 1, 1, 0, 0, 0)>>}

\* Property X- with the numbers 5, 10 and -5 and with text, and terms around it; the
\* last is too long for a key.
MCTerms == {<<23, 9>>, <<24, -1, 5>>, <<24, -1, 1, 0>>, <<24, -1, -1, 5>>, <<24, -1, 30>>, <<24, 0>>,
            <<24, -1, 1, 0, 0>>}
MCStarts == {<<24>>, <<24, -1>>}
Of1(S, v(_)) == [t \in S |-> v(t)]
MCStored ==
  {[documents |-> <<>>, ids |-> <<>>, tree |-> <<>>,
    postings |-> Of1({u \in MCTerms : Len(u) < 5 /\ u[1] = 24}, LAMBDA t : IF Len(t) = 3 THEN {2} ELSE {1}),
    mtimes |-> {<<1, 1>>, <<3, 1>>}],
   [documents |-> <<>>, ids |-> [id \in {1, 2} |-> <<>>], tree |-> <<>>,
    postings |-> Of1({<<24, -1, 5>>, <<24, -1, 1, 0>>, <<24, -1, 30>>}, LAMBDA t : {Len(t) - 2}),
    mtimes |-> {<<2, 1>>, <<2, 2>>, <<3, 1>>}]}

MCOnce == [q |-> 1, c |-> 1, daemon |-> 2]

Pdf == <<<<"application">>, <<"pdf">>>>
Xlsx == <<<<"application">>, <<"vnd.openxmlformats">>, <<"office", "document", ".spreadsheetml.sheet">>>>
Odp == <<<<"application">>, <<"vnd.oasis.open", "document", ".presentation">>>>
XlsOfWps == <<<<"application">>, <<"wps">>, <<"office", ".xls">>>>
TypesOf ==
  {<<Pdf, {"Document"}>>, <<<<<<"text">>, <<"plain">>>>, {"Text", "Document"}>>,
   <<<<<<"image">>, <<"png">>>>, {"Image"}>>, <<<<<<"video">>, <<"mp4">>>>, {"Video"}>>, <<<<<<"audio">>, <<"mp4">>>>, {"Audio"}>>,
   <<<<<<"application">>, <<"vnd.ms">>, <<"excel">>>>, {"Spreadsheet", "Document"}>>,
   <<<<<<"application">>, <<"vnd.ms">>, <<"powerpoint">>>>, {"Presentation", "Document"}>>,
   <<Xlsx, {"Spreadsheet", "Document"}>>, <<Odp, {"Presentation", "Document"}>>,
   <<XlsOfWps, {"Spreadsheet", "Document"}>>, <<<<<<"application">>, <<"zip">>>>, {"Archive"}>>,
   <<<<<<"application">>, <<"x">>, <<"xz">>, <<"compressed">>, <<"tar">>>>, {"Archive"}>>}
MCKinds == [m \in {k[1] : k \in TypesOf} |-> (CHOOSE k \in TypesOf : k[1] = m)[2]]
MCPropertyType == [w |-> "Int", l |-> "Double", d |-> "DateTime", f |-> "Bool", t |-> "String", k |-> "String"]
Tagged(tag, S) == {<<tag, v>> : v \in S}
MCTypedValues ==
  Tagged("int", {-3, -2, 0, 1, 2, 100}) \cup Tagged("double", {-1, 1, 3})
    \cup Tagged("time", {<<2000, 1>>, <<2000, 2>>, <<2000, 1, 5>>, <<2001, 1, 0>>})
    \cup Tagged("text", {<<"a">>, <<"b">>})
Pairs(S) == {{}} \cup {{a, b} : a, b \in S}
Described(kind, m, rating, w, l, d, t) ==
  [kind |-> kind, mimetype |-> m, rating |-> rating,
   values |-> [w |-> w, l |-> l, d |-> d, f |-> {<<"bool", TRUE>>}, t |-> t, k |-> {<<"text", <<"b">>>>}]]
MCDescribedFiles ==
  {Described("file", Pdf, 2, w, {}, {}, {}) : w \in Pairs(Tagged("int", {-3, -1, 0, 1, 2, 3}))}
    \cup {Described("file", Pdf, 2, {}, l, {}, {}) : l \in Pairs(Tagged("double", {-3, 0, 1, 2, 100, 1000}))}
    \cup {Described("file", Pdf, 2, {}, {}, d, {})
            : d \in Pairs(Tagged("time", {<<2000, 1>>, <<2000, 1, 0>>, <<2000, 1, 5>>, <<2000, 2, 1>>, <<2001, 1>>}))}
    \cup {Described("file", m, r, {}, {}, {}, t)
            : m \in DOMAIN MCKinds, r \in {0, 3}, t \in Pairs(Tagged("text", {<<"a">>, <<"b", "a">>}))}
    \cup {Described(k, <<<<"inode">>, <<"directory">>>>, 1, {}, {}, {}, {}) : k \in {"empty", "folder"}}

\* A folder, files with and without contents, and one id of digits only
MCParent == [d |-> "d", f |-> "d", g |-> "g"]
Mime == <<"M", "a">>
Regular(device, inode, empty, terms) ==
  [kind |-> "RegularFile", device |-> device, inode |-> inode, empty |-> empty, terms |-> terms \cup {Mime}]
MCStoredFiles ==
  {[kind |-> "Directory", device |-> 1, inode |-> 10, empty |-> FALSE, terms |-> {Mime}],
   Regular(1, 3, FALSE, {<<"X", "1", "-", "a">>, <<"X", "1", "0", "-", "-", "5">>, <<"X", "1", "-">>}),
   Regular(16, 11, FALSE, {<<"T", "A", "G", "-", "a", "a", "a">>}),
   Regular(17, 26, TRUE, {<<"X", "9", "-", "-">>})}
MCConfigs == {[onlyBasicIndexing |-> b, excluded |-> e] : b \in BOOLEAN, e \in {{}, {"g"}}}

MCTimeInfos == {[mTime |-> 0, cTime |-> 0], [mTime |-> 1, cTime |-> 2]}
MCFilePaths == {[parentId |-> 0, name |-> <<"d">>], [parentId |-> 1, name |-> <<"f", "g">>]}
MCDataValues == {<<"x">>}
MCRecordTerms == {<<"a", "b">>}
MCRecordPositions == {<<1, 2>>}

\* Settings of two releases, and the commands that change them
FiltersOf(more) == <<<<"*", ".", "o">>, <<"p", "o">>>> \o more
MCFilterList == <<FiltersOf(<<>>), FiltersOf(<<<<"*", "~">>>>)>>
MCFilterVersion == <<8, 9>>
MCDefaults ==
  [r \in {1, 2} |-> [filters |-> MCFilterList[r], version |-> 0, mimetypes |-> <<"css">>,
                     hidden |-> TRUE, onlyBasic |-> FALSE, dbVersion |-> 0]]
MCConfigCommands ==
  {<<"add", "filters", f>> : f \in {<<"p", "?">>, <<"*", ".", "o", ".", "p">>, <<"*", ".", "(">>, <<"*", "~">>}}
    \cup {<<"rm", "filters", f>> : f \in {<<"*", ".", "o">>, <<"p", "o">>}}
    \cup {<<"add", "mimetypes", "java">>, <<"list", "filters", 0>>}
    \cup {<<"set", k, FALSE>> : k \in {"hidden", "contentIndexing"}}
MCFileNames ==
  {<<"p">>, <<"p", "o">>, <<"p", "p">>, <<"o", "p">>, <<"p", ".", "o">>, <<".", "o">>, <<"p", ".", "o", ".", "p">>,
   <<"p", ".", "o", "p">>, <<"p", ".">>, <<".", "o", "o">>, <<"p", "o", "p">>, <<"p", "~">>, <<"~", "p">>}

CONSTANTS Tree, Leaves, HiddenNames, FilterNames, Medium, Included, MaxEdits
CONSTANTS Docs, Begins, LongWords, MaxTime, Databases, Queries
CONSTANTS Operand, Scopes, MaxPieces
CONSTANTS TaggedFiles, Name, AskedTags, InitialTags, MaxRequests
CONSTANTS Commands, Statuses, MaxMessages, MaxRestarts
CONSTANTS PositionLists, TermLists, Postings
CONSTANTS Letters, Ideographs, Documents, Phrases, MaxLength
CONSTANTS ShownFiles, Typed, Seconds, Offset, MaxDay, MaxSeconds, MaxTouches
CONSTANTS Processes, Urls, FoundDocuments, Monitored, MaxChanges, MaxSignals
CONSTANTS Ids, Times, TermBytes, Stored, Starts, MaxKey, MaxEntries, MaxCalls
CONSTANTS MaxNews, MaxIdles, MaxMonitors
CONSTANTS Clients, QmlMonitors, MaxFiles, MaxStates, MaxStarts, MaxInbox
CONSTANTS DescribedFiles, PropertyType, IndexedNames, Kinds, TypedValues
CONSTANTS ShownPaths, Parent, Configs, StoredFiles, Low, StatusLimit, FailedLimit, LongestKey, MaxSteps
CONSTANTS RecordIds, PositionTerms, TimeInfos, DataValues, FilePaths, RecordTerms, RecordPositions, MaxOpens, MaxWrites
CONSTANTS FileNames, Defaults, FilterList, FilterVersion, ConfigCommands, Shells, MaxCommands

\* part, and the variables of it, in the order of its module. Those it has no use for
\* stay at 0.
VARIABLES part, v1, v2, v3, v4, v5, v6, v7, v8, v9, v10, v11, v12, v13

Folder   == INSTANCE FolderConfig WITH settings <- v1, mounted <- v2, config <- v3, watched <- v4,
            unwatched <- v5, documents <- v6, stale <- v7, unindexed <- v8, job <- v9, edits <- v10,
            gaps <- v11
Finding  == INSTANCE Search WITH db <- v1, query <- v2, iter <- v3, found <- v4, results <- v5,
            state <- v6
Typing   == INSTANCE QueryParser WITH typed <- v1
Tagging  == INSTANCE TagsWorker WITH Files <- TaggedFiles, Tags <- AskedTags, tags <- v1,
            indexed <- v2, unassigned <- v3, request <- v4, meant <- v5, before <- v6, doubts <- v7,
            requests <- v8
Pipe     == INSTANCE CommandPipe WITH commandPipe <- v1, statusPipe <- v2, buffer <- v3, input <- v4,
            worker <- v5, closed <- v6, commanded <- v7, obeyed <- v8, reported <- v9,
            signalled <- v10, restarts <- v11
Values   == INSTANCE Codecs WITH codec <- v1, list <- v2, stored <- v3, cut <- v4
Words    == INSTANCE Terms WITH text <- v1, document <- v2
Days     == INSTANCE Timeline WITH Files <- ShownFiles, MaxTime <- MaxSeconds, today <- v1,
            mtime <- v2, path <- v3, redirects <- v4, listing <- v5, listed <- v6, unsure <- v7,
            turned <- v8, touches <- v9
Shown    == INSTANCE SearchFolders WITH Documents <- FoundDocuments, version <- v1, batch <- v2,
            bus <- v3, searchUrls <- v4, refreshes <- v5, shown <- v6, listing <- v7, heard <- v8,
            causes <- v9
Lmdb     == INSTANCE Tables WITH disk <- v1, txn <- v2, snapshot <- v3, meant <- v4, kept <- v5,
            calls <- v6
Speed    == INSTANCE IndexSpeed WITH MaxMessages <- MaxNews, MaxChanges <- MaxIdles, monitor <- v1,
            isIdle <- v2, bus <- v3, requests <- v4, sessionIdle <- v5, emits <- v6, thread <- v7,
            queued <- v8, fast <- v9, untold <- v10, unheard <- v11, changes <- v12, monitors <- v13
Looking  == INSTANCE Monitoring WITH MaxMessages <- MaxInbox, daemon <- v1, state <- v2,
            extracting <- v3, toMain <- v4, currentFile <- v5, registered <- v6, calls <- v7,
            inbox <- v8, client <- v9, doubts <- v10, files <- v11, states <- v12, starts <- v13
Asking   == INSTANCE PropertyQueries WITH Files <- DescribedFiles, Typed <- TypedValues, file <- v1,
            doc <- v2
Shows    == INSTANCE Inspection WITH Paths <- ShownPaths, Files <- StoredFiles, MaxKey <- LongestKey,
            disk <- v1, index <- v2, failed <- v3, postings <- v4, config <- v5, opened <- v6,
            steps <- v7
Rows     == INSTANCE Records WITH Documents <- RecordIds, TermLists <- RecordTerms,
            PositionLists <- RecordPositions, file <- v1, db <- v2, txn <- v3, told <- v4, kept <- v5,
            opens <- v6, writes <- v7
Settings == INSTANCE Filters WITH Names <- FileNames, Commands <- ConfigCommands, release <- v1,
            entries <- v2, tool <- v3, daemon <- v4, wanted <- v5, unkept <- v6, overlapped <- v7,
            unread <- v8, commands <- v9

partsVars == <<vars, daemonVars, part, v1, v2, v3, v4, v5, v6, v7, v8, v9, v10, v11, v12, v13>>

rest12 == <<v12, v13>>
rest10 == <<v10, v11, v12, v13>>
rest9 == <<v9, v10, v11, v12, v13>>
rest8 == <<v8, v9, v10, v11, v12, v13>>
rest7 == <<v7, v8, v9, v10, v11, v12, v13>>
rest5 == <<v5, v6, v7, v8, v9, v10, v11, v12, v13>>
rest3 == <<v3, v4, v5, v6, v7, v8, v9, v10, v11, v12, v13>>
rest2 == <<v2, v3, v4, v5, v6, v7, v8, v9, v10, v11, v12, v13>>

Zero13 == v13 = 0
Zero12 == v12 = 0 /\ Zero13
Zero11 == v11 = 0 /\ Zero12
Zero10 == v10 = 0 /\ Zero11
Zero9 == v9 = 0 /\ Zero10
Zero8 == v8 = 0 /\ Zero9
Zero7 == v7 = 0 /\ Zero8
Zero6 == v6 = 0 /\ Zero7
Zero5 == v5 = 0 /\ Zero6
Zero4 == v4 = 0 /\ Zero5
Zero3 == v3 = 0 /\ Zero4
Zero2 == v2 = 0 /\ Zero3
Zero1 == v1 = 0 /\ Zero2

PartsInit ==
  /\ Init /\ DaemonInit
  /\ \/ part \in {"basic", "daemon"} /\ Zero1
     \/ part = "folder" /\ Folder!Init /\ Zero12
     \/ part = "search" /\ Finding!Init /\ Zero7
     \/ part = "query" /\ Typing!Init /\ Zero2
     \/ part = "tags" /\ Tagging!Init /\ Zero9
     \/ part = "pipe" /\ Pipe!Init /\ Zero12
     \/ part = "codecs" /\ Values!Init /\ Zero5
     \/ part = "terms" /\ Words!Init /\ Zero3
     \/ part = "timeline" /\ Days!Init /\ Zero10
     \/ part = "folders" /\ Shown!Init /\ Zero10
     \/ part = "tables" /\ Lmdb!Init /\ Zero7
     \/ part = "speed" /\ Speed!Init
     \/ part = "monitors" /\ Looking!Init
     \/ part = "properties" /\ Asking!Init /\ Zero3
     \/ part = "inspection" /\ Shows!Init /\ Zero8
     \/ part = "records" /\ Rows!Init /\ Zero8
     \/ part = "settings" /\ Settings!Init /\ Zero10
  /\ part # "daemon" => ~enabled /\ dbVersion = "none" /\ ~legacy /\ dbIndex = 0 /\ broken = {}

PartsNext ==
  \/ part = "basic" /\ Next /\ UNCHANGED <<daemonVars, part, v1, rest2>>
  \/ part = "daemon" /\ DaemonNext /\ UNCHANGED <<vars, part, v1, rest2>>
  \/ UNCHANGED <<vars, daemonVars>> /\
     \/ part = "folder" /\ Folder!Next /\ UNCHANGED <<part, rest12>>
     \/ part = "search" /\ Finding!Next /\ UNCHANGED <<part, rest7>>
     \/ part = "query" /\ Typing!Next /\ UNCHANGED <<part, rest2>>
     \/ part = "tags" /\ Tagging!Next /\ UNCHANGED <<part, rest9>>
     \/ part = "pipe" /\ Pipe!Next /\ UNCHANGED <<part, rest12>>
     \/ part = "codecs" /\ Values!Next /\ UNCHANGED <<part, rest5>>
     \/ part = "terms" /\ Words!Next /\ UNCHANGED <<part, rest3>>
     \/ part = "timeline" /\ Days!Next /\ UNCHANGED <<part, rest10>>
     \/ part = "folders" /\ Shown!Next /\ UNCHANGED <<part, rest10>>
     \/ part = "tables" /\ Lmdb!Next /\ UNCHANGED <<part, rest7>>
     \/ part = "speed" /\ Speed!Next /\ UNCHANGED part
     \/ part = "monitors" /\ Looking!Next /\ UNCHANGED part
     \/ part = "properties" /\ Asking!Next /\ UNCHANGED <<part, rest3>>
     \/ part = "inspection" /\ Shows!Next /\ UNCHANGED <<part, rest8>>
     \/ part = "records" /\ Rows!Next /\ UNCHANGED <<part, rest8>>
     \/ part = "settings" /\ Settings!Next /\ UNCHANGED <<part, rest10>>

PartsSpec == PartsInit /\ [][PartsNext]_partsVars

-----------------------------------------------------------------------------
(* What the parts promise, next to IndexFollowsFiles of BasicIndexers and   *)
(* DaemonRunsAsAsked of Daemon; the module of each says what it is about.   *)

\* FolderConfig: walks reach, documents cover and watches are set on what is
\* configured, after any edits. Filters: names are excluded by what the filters
\* say, and what balooctl and releases make of them is kept.
IndexFollowsConfig ==
  /\ part = "folder" => /\ Folder!TypeOK /\ Folder!WalksReachWhatIsIndexed
                        /\ Folder!DocumentsFollowConfig /\ Folder!WatchesFollowConfig
  /\ part = "settings" => /\ Settings!FiltersExcludeWhatTheySay /\ Settings!DaemonObeys
                         /\ Settings!CommandsAreKept

\* FolderConfig: balooctl changes no more than it is asked for.
EditsStayLocal == [][part = "folder" => Folder!StaysLocal]_partsVars

\* A query is read as it was typed (QueryParser), texts become the words of them
\* and phrases find values (Terms), and the iterators find what matches, of which
\* offset and limit cut the latest (Search), the calendar shows files by their day
\* (Timeline), cursors read the whole range they are set on (Tables), and values
\* are found by comparing them (PropertyQueries).
SearchesFindWhatIsAsked ==
  /\ part = "query" => Typing!ReadsWhatIsTyped
  /\ part = "terms" => Words!WordsAreKept /\ Words!PhrasesFindValues
  /\ part = "search" => Finding!TypeOK /\ Finding!FindsWhatMatches /\ Finding!PageIsCut
  /\ part = "timeline" => Days!ShowsFilesByDay
  /\ part = "tables" => Lmdb!CursorsFindTheRange
  /\ part = "properties" => /\ Asking!FindsByValue /\ Asking!FindsByType
                            /\ Asking!FindsByMimetype /\ Asking!FindsMetadata

\* What is handed on arrives and nothing of it is lost: changes of tags
\* (TagsWorker), messages (CommandPipe), values of the database (Codecs), its
\* entries (Tables) and records (Records), whoever opens it.
NothingIsLost ==
  /\ part = "tags" => Tagging!DoneAsMeant /\ Tagging!LeftOutAtMost /\ Tagging!NothingIsLost
  /\ part = "pipe" => Pipe!InOrder /\ Pipe!NothingWaits
  /\ part = "codecs" => Values!GetsWhatWasPut
  /\ part = "tables" => Lmdb!KeepsWhatIsPut
  /\ part = "records" => Rows!RecordsAreKept /\ Rows!OpenedIsUsable

\* What others are told is what is so, once all have heard: search folders and
\* monitored files (SearchFolders), the speed of the extractor (IndexSpeed), who
\* looks on (Monitoring), and who asks what the index has (Inspection).
OthersHearWhatIsSo ==
  /\ part = "folders" => Shown!FoldersAreUpToDate /\ Shown!MonitorsHear /\ Shown!QueriesAreKept
  /\ part = "speed" => Speed!SpeedFollowsSession
  /\ part = "inspection" => /\ Shows!StatusIsSo /\ Shows!FormatsAgree /\ Shows!FailedAreListed
                            /\ Shows!LookupsAgree /\ Shows!PropertyTermsAreRead /\ Shows!ChecksReport
  /\ part = "monitors" => Looking!StateIsShown /\ Looking!LinesAreOfOneFile /\ Looking!FileIsShown
=============================================================================
