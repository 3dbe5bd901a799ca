------------------------- MODULE BasicIndexersProofs -------------------------
(***************************************************************************)
(* When all lists are done with, the documents are those of the files, for *)
(* any files, paths and times.                                             *)
(***************************************************************************)
EXTENDS BasicIndexers, TLAPS

\* No file and no path is called Nowhere.
Bounds == /\ MaxSecond \in Nat \ {0} /\ MaxVersion \in Nat
          /\ Nowhere \notin Paths /\ Nowhere \notin Files

Kinds == {"new", "modified", "xattr"}
FileInfo == [path : Paths \cup {Nowhere}, mtime : Nat, ctime : Nat, xattr : Nat, content : Nat]
Items == [kind : Kinds, path : Paths]
Moves == [kind : {"moved"}, from : Paths, to : Paths \cup {Nowhere}]
Looks == [path : Paths, file : Files, known : BOOLEAN, mTimeChanged : BOOLEAN, cTimeChanged : BOOLEAN]
Extractions == [file : Files, path : Paths, same : BOOLEAN, read : BOOLEAN, content : Nat]

\* What each variable can hold.
Types ==
  /\ second \in 1..MaxSecond /\ version \in 0..MaxVersion /\ lookedAt \in [Files -> Nat]
  /\ disk \in [Files -> FileInfo] /\ doc \in [Files -> FileInfo]
  /\ \A i \in Files : disk[i].path = Nowhere => disk[i] = Absent
  /\ marked \subseteq {i \in Files : hasDocument(i)}
  /\ daemon \in {"off", "on"} /\ events \in Seq(Items \cup Moves) /\ lists \subseteq Items
  /\ job \in [kind : {"none", "firstRun", "unindexed"} \cup Kinds, paths : SUBSET Paths]
  /\ job.kind = "none" => job = NoJob
  /\ looked = NoLook \/ looked \in Looks
  /\ extracted = Nothing \/ extracted \in Extractions

\* Who runs when: jobs, extraction and balooctl take turns. A file that was known
\* at the first look still is at the second.
Turns ==
  /\ daemon = "off" => job = NoJob /\ lists = {} /\ events = <<>>
  /\ looked # NoLook => job.kind \in {"modified", "unindexed"}
  /\ looked # NoLook /\ ~looked.cTimeChanged => hasDocument(looked.file)
  /\ extracted # Nothing => job = NoJob /\ daemon = "on"

-----------------------------------------------------------------------------
(* Sequences and records. *)

LEMMA Sent ==
  ASSUME NEW S, NEW s \in Seq(S), NEW e \in S
  PROVE  /\ Append(s, e) \in Seq(S) /\ Len(s) \in Nat /\ Len(Append(s, e)) = Len(s) + 1
         /\ \A n \in 1..Len(s) : Append(s, e)[n] = s[n]
         /\ Append(s, e)[Len(s) + 1] = e
OBVIOUS

LEMMA Received ==
  ASSUME NEW S, NEW s \in Seq(S), s # <<>>
  PROVE  /\ Tail(s) \in Seq(S) /\ Len(s) \in Nat \ {0} /\ Len(Tail(s)) = Len(s) - 1 /\ Head(s) = s[1] /\ Head(s) \in S
         /\ \A n \in 1..(Len(s) - 1) : Tail(s)[n] = s[n + 1]
OBVIOUS

LEMMA SeqFacts ==
  ASSUME NEW S, NEW s \in Seq(S)
  PROVE  Len(s) \in Nat /\ DOMAIN s = 1..Len(s) /\ (s = <<>> <=> Len(s) = 0) /\ \A n \in 1..Len(s) : s[n] \in S
OBVIOUS

\* The other thing an event can be.
LEMMA EventKinds ==
  ASSUME NEW e \in Items \cup Moves
  PROVE  /\ e.kind = "moved" => e.from \in Paths /\ e.to \in Paths \cup {Nowhere}
         /\ e.kind # "moved" => e \in Items
BY DEF Items, Moves, Kinds

-----------------------------------------------------------------------------
(* Types. *)

LEMMA AbsentIsTyped == Absent \in FileInfo
BY DEF Absent, FileInfo

LEMMA BasicIsTyped ==
  ASSUME Types, NEW i \in Files, NEW p \in Paths PROVE basic(i, p) \in FileInfo
BY DEF Types, basic, FileInfo

LEMMA ItemsAreTyped ==
  ASSUME NEW p \in Paths
  PROVE  /\ \A k \in Kinds : ToBeIndexed(k, p) \in Items
         /\ \A q \in Paths \cup {Nowhere} : Moved(p, q) \in Moves
BY DEF ToBeIndexed, Moved, Items, Moves, Kinds

LEMMA DiskTypes ==
  ASSUME Bounds, Types, FileSystem
  PROVE  disk' \in [Files -> FileInfo] /\ \A i \in Files : disk'[i].path = Nowhere => disk'[i] = Absent
<1> DEFINE DiskOK == disk \in [Files -> FileInfo] /\ \A i \in Files : disk[i].path = Nowhere => disk[i] = Absent
<1>1. /\ second \in Nat /\ version \in Nat /\ disk \in [Files -> FileInfo]
      /\ \A i \in Files : disk[i].path = Nowhere => disk[i] = Absent
  BY DEF Types
<1>2. CASE tick
  BY <1>1, <1>2 DEF tick
<1>3. ASSUME NEW i \in Files, NEW c \in Nat, write(i, c) PROVE DiskOK'
  <2> DEFINE f == [disk[i] EXCEPT !.mtime = second, !.ctime = second, !.content = c]
  <2>1. f \in FileInfo /\ f.path = disk[i].path
    BY <1>1 DEF FileInfo
  <2>2. disk' = [disk EXCEPT ![i] = f]
    BY <1>1, <1>3 DEF write
  <2>3. disk[i].path # Nowhere
    BY <1>1, <1>3 DEF write
  <2> HIDE DEF f
  <2> QED BY <1>1, <2>1, <2>2, <2>3
<1>4. ASSUME NEW i \in Files, setAttributes(i) PROVE DiskOK'
  <2> DEFINE f == [disk[i] EXCEPT !.ctime = second, !.xattr = version + 1]
  <2>1. f \in FileInfo /\ f.path = disk[i].path
    <3>1. disk[i] \in FileInfo /\ version + 1 \in Nat /\ second \in Nat
      BY <1>1
    <3> QED BY <3>1 DEF FileInfo
  <2>2. disk' = [disk EXCEPT ![i] = f]
    BY <1>1, <1>4 DEF setAttributes
  <2>3. disk[i].path # Nowhere
    BY <1>1, <1>4 DEF setAttributes
  <2> HIDE DEF f
  <2> QED BY <1>1, <2>1, <2>2, <2>3
<1>5. ASSUME NEW i \in Files, remove(i) PROVE DiskOK'
  BY <1>1, <1>5, AbsentIsTyped DEF remove
<1>6. ASSUME NEW i \in Files, NEW p \in Paths, create(i, p) PROVE DiskOK'
  BY <1>1, <1>6 DEF create, FileInfo, Bounds
<1>7. ASSUME NEW i \in Files, NEW p \in Paths, rename(i, p) PROVE DiskOK'
  <2>1. [disk[i] EXCEPT !.path = p, !.ctime = second] \in FileInfo
    BY <1>1 DEF FileInfo
  <2>2. [disk[i] EXCEPT !.path = p, !.ctime = second].path = p
    BY <1>1 DEF FileInfo
  <2> QED BY <1>1, <1>7, <2>1, <2>2, AbsentIsTyped DEF rename, Bounds
<1> QED BY <1>1, <1>2, <1>3, <1>4, <1>5, <1>6, <1>7 DEF FileSystem

LEMMA NumbersTypes ==
  ASSUME Bounds, Types, [Next]_vars
  PROVE  second' \in 1..MaxSecond /\ version' \in 0..MaxVersion /\ lookedAt' \in [Files -> Nat]
<1> USE DEF files, index, indexers
<1> DEFINE NumbersOK == second \in 1..MaxSecond /\ version \in 0..MaxVersion /\ lookedAt \in [Files -> Nat]
<1>1. second \in 1..MaxSecond /\ version \in 0..MaxVersion /\ lookedAt \in [Files -> Nat]
  BY DEF Types
<1>2. \A S : Seen(S) => lookedAt' \in [Files -> Nat]
  BY <1>1 DEF Seen
<1>3. \A i, causes : Changed(i, causes) => NumbersOK'
  BY <1>1 DEF Changed, Bounds
<1>4. CASE FileSystem
  <2>1. CASE tick
    BY <1>1, <2>1 DEF tick, Bounds
  <2>2. ASSUME NEW i, NEW c, write(i, c) \/ setAttributes(i) \/ remove(i) PROVE NumbersOK'
    BY <1>3, <2>2 DEF write, setAttributes, remove
  <2>3. ASSUME NEW i, NEW p, create(i, p) \/ rename(i, p) PROVE NumbersOK'
    BY <1>3, <2>3 DEF create, rename
  <2> QED BY <1>4, <2>1, <2>2, <2>3 DEF FileSystem
<1>5. CASE Jobs \/ Contents \/ Tools
  <2>1. second' = second /\ version' = version
    BY <1>5 DEF Jobs, Contents, Tools, Tool, JobStep, schedule, modifiedFile, unindexedFile, finish, newFile, lookFirst,
       attributes, extract, readContents, storeContents, indexFileNow, clearEntryNow
  <2>2. lookedAt' = lookedAt \/ \E S : Seen(S)
    BY <1>5 DEF Jobs, Contents, Tools, Tool, JobStep, schedule, modifiedFile, unindexedFile, finish, newFile, lookFirst,
       attributes, extract, readContents, storeContents, indexFileNow, clearEntryNow
  <2> QED BY <1>1, <1>2, <2>1, <2>2
<1>6. CASE start \/ stop \/ indexFile \/ followMove \/ UNCHANGED vars
  BY <1>1, <1>6 DEF start, stop, indexFile, followMove, vars
<1> QED BY <1>4, <1>5, <1>6 DEF Next

LEMMA QueuesTypes ==
  ASSUME Bounds, Types, [Next]_vars
  PROVE  daemon' \in {"off", "on"} /\ events' \in Seq(Items \cup Moves) /\ lists' \subseteq Items
<1> USE DEF files, index, indexers
<1> DEFINE QueuesOK == daemon \in {"off", "on"} /\ events \in Seq(Items \cup Moves) /\ lists \subseteq Items
<1>1. QueuesOK
  BY DEF Types
<1>2. ASSUME NEW e \in Items \cup Moves, Tell(e), UNCHANGED <<daemon, lists>> PROVE QueuesOK'
  BY <1>1, <1>2, Sent DEF Tell
<1>3. CASE FileSystem
  <2>1. \A i \in Files : disk[i] # Absent => disk[i].path \in Paths
    BY DEF Types, FileInfo
  <2>2. ASSUME NEW i \in Files, NEW c, write(i, c) \/ setAttributes(i) \/ remove(i) PROVE QueuesOK'
    BY <1>2, <2>1, <2>2, ItemsAreTyped DEF write, setAttributes, remove, Changed, Kinds
  <2>3. ASSUME NEW i \in Files, NEW p \in Paths, create(i, p) \/ rename(i, p) PROVE QueuesOK'
    BY <1>2, <2>1, <2>3, ItemsAreTyped DEF create, rename, Changed, Kinds
  <2>4. CASE tick
    BY <1>1, <2>4 DEF tick
  <2> QED BY <1>3, <2>2, <2>3, <2>4 DEF FileSystem
<1>4. CASE Jobs \/ Contents \/ Tools
  <2>1. events' = events /\ daemon' = daemon /\ lists' \subseteq lists
    BY <1>4 DEF Jobs, Contents, Tools, Tool, JobStep, schedule, modifiedFile, unindexedFile, finish, newFile, lookFirst,
       attributes, extract, readContents, storeContents, indexFileNow, clearEntryNow
  <2> QED BY <1>1, <2>1
<1>5. CASE start \/ stop \/ UNCHANGED vars
  <2>1. <<>> \in Seq(Items \cup Moves)
    OBVIOUS
  <2> QED BY <1>1, <1>5, <2>1 DEF start, stop, vars
<1>6. CASE indexFile \/ followMove
  <2>1. events # <<>> /\ events' = Tail(events) /\ daemon' = daemon
    BY <1>6 DEF indexFile, followMove
  <2>2. Head(events) \in Items \cup Moves /\ events' \in Seq(Items \cup Moves)
    BY <1>1, <2>1, Received
  <2>3. CASE indexFile
    BY <1>1, <2>1, <2>2, <2>3, EventKinds DEF indexFile
  <2>4. CASE followMove
    <3>1. Head(events).to # Nowhere => ToBeIndexed("new", Head(events).to) \in Items
      BY <2>2, <2>4, EventKinds, ItemsAreTyped DEF followMove, Kinds
    <3>2. lists' \subseteq lists \cup (IF Head(events).to # Nowhere THEN {ToBeIndexed("new", Head(events).to)} ELSE {})
      BY <2>4 DEF followMove
    <3> QED BY <1>1, <2>1, <2>2, <3>1, <3>2
  <2> QED BY <1>6, <2>3, <2>4
<1> QED BY <1>3, <1>4, <1>5, <1>6 DEF Next

LEMMA JobTypes ==
  ASSUME Bounds, Types, [Next]_vars
  PROVE  /\ job' \in [kind : {"none", "firstRun", "unindexed"} \cup Kinds, paths : SUBSET Paths]
         /\ job'.kind = "none" => job' = NoJob
<1> USE DEF files, index, indexers
<1> DEFINE JobOK == /\ job \in [kind : {"none", "firstRun", "unindexed"} \cup Kinds, paths : SUBSET Paths]
                    /\ job.kind = "none" => job = NoJob
<1>1. JobOK
  BY DEF Types
<1>2. CASE job' = job
  BY <1>1, <1>2
<1>3. ASSUME NEW p \in Paths, Done(p), job # NoJob PROVE JobOK'
  BY <1>1, <1>3 DEF Done
<1>4. CASE schedule
  BY <1>4 DEF schedule, Types, Items, Kinds
<1>5. CASE finish
  BY <1>5 DEF finish, NoJob
<1>6. CASE start
  BY <1>6 DEF start, Kinds
<1>7. ASSUME NEW p \in Paths, newFile(p) \/ lookFirst(p) \/ attributes(p) PROVE JobOK'
  <2>1. job # NoJob /\ Done(p)
    BY <1>7 DEF newFile, lookFirst, attributes, Running, NoJob
  <2> QED BY <2>1, <1>3
<1> QED BY <1>2, <1>4, <1>5, <1>6, <1>7
        DEF Next, FileSystem, Jobs, Contents, Tools, Tool, JobStep, tick, write, setAttributes, remove, create, rename, Changed,
            modifiedFile, unindexedFile, extract, readContents, storeContents, indexFileNow, clearEntryNow, stop, indexFile,
            followMove, vars

LEMMA LookedTypes ==
  ASSUME Bounds, Types, [Next]_vars
  PROVE  looked' = NoLook \/ looked' \in Looks
<1> USE DEF files, index, indexers
<1>1. looked = NoLook \/ looked \in Looks
  BY DEF Types
<1>2. ASSUME NEW p \in Paths, lookFirst(p) PROVE looked' = NoLook \/ looked' \in Looks
  <2>1. looked' = looked \/ look(p)
    BY <1>2 DEF lookFirst
  <2>2. CASE look(p)
    <3>1. PICK i \in at(p) : look(p)!(i)
      BY <2>2 DEF look
    <3>2. i \in Files
      BY DEF at
    <3>3. \A k \in BOOLEAN, m \in BOOLEAN, c \in BOOLEAN :
            [path |-> p, file |-> i, known |-> k, mTimeChanged |-> m, cTimeChanged |-> c] \in Looks
      BY <3>2 DEF Looks
    <3>4. /\ hasDocument(i) \in BOOLEAN
          /\ (hasDocument(i) => doc[i].mtime # disk[i].mtime) \in BOOLEAN
          /\ (hasDocument(i) => doc[i].ctime # disk[i].ctime) \in BOOLEAN
      BY DEF hasDocument
    <3>5. \/ looked' = looked
          \/ looked' = [path |-> p, file |-> i, known |-> hasDocument(i),
                        mTimeChanged |-> (hasDocument(i) => doc[i].mtime # disk[i].mtime),
                        cTimeChanged |-> (hasDocument(i) => doc[i].ctime # disk[i].ctime)]
      BY <3>1
    <3> QED BY <1>1, <3>3, <3>4, <3>5
  <2> QED BY <1>1, <2>1, <2>2
<1> QED BY <1>1, <1>2
        DEF Next, FileSystem, Jobs, Contents, Tools, Tool, JobStep, tick, write, setAttributes, remove, create, rename, Changed,
            schedule, modifiedFile, unindexedFile, finish, newFile, attributes, extract, readContents, storeContents,
            indexFileNow, clearEntryNow, start, stop, indexFile, followMove, vars

LEMMA ExtractedTypes ==
  ASSUME Bounds, Types, [Next]_vars
  PROVE  extracted' = Nothing \/ extracted' \in Extractions
<1> USE DEF files, index, indexers
<1>1. extracted = Nothing \/ extracted \in Extractions
  BY DEF Types
<1>2. ASSUME NEW i \in Files, extract(i) PROVE extracted' \in Extractions
  <2>1. doc[i].path \in Paths
    BY <1>2 DEF extract, Types, hasDocument, FileInfo
  <2> QED BY <1>2, <2>1 DEF extract, Extractions
<1>3. ASSUME readContents PROVE extracted' \in Extractions
  <2>1. extracted \in Extractions
    BY <1>1, <1>3 DEF readContents
  <2>2. \A j \in Files : disk[j].content \in Nat
    BY DEF Types, FileInfo
  <2>3. at(extracted.path) # {} => (CHOOSE j \in at(extracted.path) : TRUE) \in Files
    BY DEF at
  <2> DEFINE c == IF at(extracted.path) = {} THEN 0 ELSE disk[CHOOSE j \in at(extracted.path) : TRUE].content
  <2>4. c \in Nat
    BY <2>2, <2>3
  <2>5. extracted' = [extracted EXCEPT !.read = TRUE, !.content = c]
    BY <1>3 DEF readContents
  <2> HIDE DEF c
  <2> QED BY <2>1, <2>4, <2>5 DEF Extractions
<1> QED BY <1>1, <1>2, <1>3
        DEF Next, FileSystem, Jobs, Contents, Tools, Tool, JobStep, tick, write, setAttributes, remove, create, rename, Changed,
            schedule, modifiedFile, unindexedFile, finish, newFile, lookFirst, attributes, storeContents,
            indexFileNow, clearEntryNow, start, stop, indexFile, followMove, vars

LEMMA TurnsNext ==
  ASSUME Bounds, Types, Turns, [Next]_vars PROVE Turns'
<1> USE DEF files, index, indexers
<1>1. /\ daemon = "off" => job = NoJob /\ lists = {} /\ events = <<>>
      /\ looked # NoLook => job.kind \in {"modified", "unindexed"}
      /\ looked # NoLook /\ ~looked.cTimeChanged => hasDocument(looked.file)
      /\ extracted # Nothing => job = NoJob /\ daemon = "on"
      /\ daemon \in {"off", "on"} /\ (job.kind = "none" => job = NoJob) /\ NoJob.kind = "none"
  BY DEF Turns, NoJob, Types
<1>2. CASE FileSystem
  <2>1. UNCHANGED <<daemon, job, lists, looked, extracted, doc>> /\ (daemon = "off" => events' = events)
    BY <1>2 DEF FileSystem, tick, write, setAttributes, remove, create, rename, Changed, Tell
  <2> QED BY <2>1 DEF Turns, hasDocument
<1>3. ASSUME NEW p \in Paths, lookFirst(p) PROVE Turns'
  <2>1. UNCHANGED <<daemon, lists, events, extracted, doc>> /\ job # NoJob /\ daemon # "off" /\ extracted = Nothing
    BY <1>1, <1>3 DEF lookFirst, JobStep, Running
  <2>2. job'.kind = job.kind
    BY <1>3 DEF lookFirst, Done, Types
  <2>3. looked' # NoLook => looked'.cTimeChanged \/ hasDocument(looked'.file)
    <3>1. CASE looked' = looked
      BY <3>1, <1>3 DEF lookFirst, Running
    <3>2. CASE look(p)
      <4>1. PICK i \in at(p) : look(p)!(i)
        BY <3>2 DEF look
      <4> DEFINE k == hasDocument(i)
                 m == k => doc[i].mtime # disk[i].mtime
                 c == k => doc[i].ctime # disk[i].ctime
      <4>2. looked' = looked \/ looked' = [path |-> p, file |-> i, known |-> k, mTimeChanged |-> m, cTimeChanged |-> c]
        BY <4>1
      <4>3. looked = NoLook /\ (c \/ k)
        BY <1>3 DEF lookFirst, Running
      <4> HIDE DEF k, m, c
      <4>4. CASE looked' = [path |-> p, file |-> i, known |-> k, mTimeChanged |-> m, cTimeChanged |-> c]
        <5>1. looked'.cTimeChanged = c /\ looked'.file = i
          BY <4>4
        <5> QED BY <4>3, <5>1 DEF k
      <4> QED BY <4>2, <4>3, <4>4
    <3> QED BY <1>3, <3>1, <3>2 DEF lookFirst
  <2> QED BY <1>3, <2>1, <2>2, <2>3 DEF Turns, lookFirst, Running, hasDocument
<1>4. ASSUME NEW p \in Paths, newFile(p) \/ attributes(p) PROVE Turns'
  <2>1. UNCHANGED <<daemon, lists, events, extracted, looked>> /\ job # NoJob /\ looked = NoLook
    BY <1>1, <1>4 DEF newFile, attributes, JobStep, Running
  <2> QED BY <1>1, <2>1 DEF Turns
<1>5. CASE modifiedFile \/ unindexedFile
  <2>1. UNCHANGED <<daemon, lists, events, extracted, job>> /\ looked' = NoLook
    BY <1>5 DEF modifiedFile, unindexedFile, JobStep
  <2> QED BY <1>1, <2>1 DEF Turns
<1>6. CASE finish
  BY <1>1, <1>6 DEF Turns, finish, JobStep
<1>7. CASE schedule
  <2>1. daemon = "on" /\ looked = NoLook /\ UNCHANGED <<daemon, looked, extracted>> /\ extracted = Nothing
    BY <1>1, <1>7 DEF schedule
  <2> QED BY <1>1, <2>1 DEF Turns
<1>8. CASE Contents
  <2>1. UNCHANGED <<daemon, lists, events, job, looked>> /\ job = NoJob /\ daemon = "on"
    BY <1>1, <1>8 DEF Contents, extract, readContents, storeContents
  <2>2. looked = NoLook
    BY <1>1, <2>1
  <2> QED BY <1>1, <2>1, <2>2 DEF Turns
<1>9. CASE Tools
  <2>1. UNCHANGED <<daemon, lists, events, job, looked, extracted>> /\ job = NoJob
    BY <1>9 DEF Tools, Tool, indexFileNow, clearEntryNow
  <2>2. looked = NoLook
    BY <1>1, <2>1
  <2> QED BY <1>1, <2>1, <2>2 DEF Turns
<1>10. CASE start
  <2>1. daemon = "off" /\ daemon' = "on" /\ looked' = looked /\ extracted' = extracted
    BY <1>10 DEF start
  <2> QED BY <1>1, <2>1 DEF Turns
<1>11. CASE stop
  <2>1. job = NoJob /\ UNCHANGED <<job, looked>> /\ extracted' = Nothing /\ lists' = {} /\ events' = <<>>
    BY <1>11 DEF stop
  <2> QED BY <1>1, <2>1 DEF Turns
<1>12. CASE indexFile
  <2>1. daemon # "off" /\ UNCHANGED <<daemon, job, looked, extracted, doc>>
    BY <1>1, <1>12 DEF indexFile
  <2> QED BY <1>1, <2>1 DEF Turns, hasDocument
<1>13. CASE followMove
  <2>1. daemon # "off" /\ UNCHANGED <<daemon, job, looked, extracted>> /\ job = NoJob
    BY <1>1, <1>13 DEF followMove
  <2> QED BY <1>1, <2>1 DEF Turns
<1>14. CASE UNCHANGED vars
  BY <1>14 DEF vars, Turns, hasDocument
<1> QED BY <1>2, <1>3, <1>4, <1>5, <1>6, <1>7, <1>8, <1>9, <1>10, <1>11, <1>12, <1>13, <1>14 DEF Next, Jobs

\* What XAttrIndexer, ModifiedFileIndexer and UnindexedFileIndexer make of a document.
LEMMA RereadIs ==
  ASSUME Types, NEW i \in Files, NEW p \in Paths, NEW operations, Reread(i, p, operations)
  PROVE  \E f \in FileInfo :
           /\ doc' = [doc EXCEPT ![i] = f]
           /\ f.path = (IF "url" \in operations THEN p ELSE doc[i].path)
           /\ f.mtime = disk[i].mtime /\ f.ctime = disk[i].ctime
           /\ f.xattr = (IF "xattr" \in operations THEN disk[i].xattr ELSE doc[i].xattr)
           /\ f.content = doc[i].content
<1> DEFINE f == [doc[i] EXCEPT !.mtime = disk[i].mtime, !.ctime = disk[i].ctime,
                               !.xattr = IF "xattr" \in operations THEN disk[i].xattr ELSE doc[i].xattr,
                               !.path  = IF "url" \in operations THEN p ELSE doc[i].path]
<1>1. doc[i] \in FileInfo /\ disk[i] \in FileInfo /\ doc \in [Files -> FileInfo]
  BY DEF Types
<1>2. doc' = [doc EXCEPT ![i] = f]
  BY <1>1 DEF Reread
<1>3. /\ f \in FileInfo
      /\ f.path = (IF "url" \in operations THEN p ELSE doc[i].path)
      /\ f.mtime = disk[i].mtime /\ f.ctime = disk[i].ctime
      /\ f.xattr = (IF "xattr" \in operations THEN disk[i].xattr ELSE doc[i].xattr)
      /\ f.content = doc[i].content
  BY <1>1 DEF FileInfo
<1> HIDE DEF f
<1> QED BY <1>2, <1>3

LEMMA DocumentTypes ==
  ASSUME Bounds, Types, Turns, [Next]_vars
  PROVE  doc' \in [Files -> FileInfo] /\ marked' \subseteq {i \in Files : hasDocument(i)'}
<1> USE DEF files, index, indexers
<1> DEFINE DocsOK == doc \in [Files -> FileInfo] /\ marked \subseteq {i \in Files : doc[i].path # Nowhere}
<1>1. DocsOK /\ Nowhere \notin Paths
  BY DEF Types, hasDocument, Bounds
<1> SUFFICES DocsOK'
  BY DEF hasDocument
<1>2. ASSUME NEW i \in Files, NEW f \in FileInfo, f.path # Nowhere, doc' = [doc EXCEPT ![i] = f], marked' \subseteq marked \cup {i}
      PROVE  DocsOK'
  BY <1>1, <1>2
<1>3. ASSUME NEW S, Removed(S) PROVE DocsOK'
  BY <1>1, <1>3, AbsentIsTyped DEF Removed
<1>4. ASSUME NEW i \in Files, NEW p \in Paths, doc' = [doc EXCEPT ![i] = basic(i, p)], marked' \subseteq marked \cup {i} PROVE DocsOK'
  <2>1. basic(i, p).path = p
    BY DEF basic
  <2> QED BY <1>1, <1>2, <1>4, <2>1, BasicIsTyped
<1>5. ASSUME NEW i \in Files, NEW p \in Paths, NEW ops, Reread(i, p, ops), "url" \in ops \/ hasDocument(i), marked' \subseteq marked \cup {i}
      PROVE  DocsOK'
  BY <1>1, <1>2, <1>5, RereadIs DEF hasDocument
<1>6. \A p \in Paths : at(p) \subseteq Files
  BY DEF at
<1>7. CASE UNCHANGED <<doc, marked>>
  BY <1>1, <1>7
<1>8. ASSUME NEW p \in Paths, newFile(p) PROVE DocsOK'
  BY <1>4, <1>6, <1>7, <1>8 DEF newFile, addDocument
<1>9. CASE modifiedFile \/ unindexedFile
  <2>1. looked \in Looks
    BY <1>9 DEF modifiedFile, unindexedFile, Types
  <2> DEFINE p == looked.path
             q == looked.file
  <2>2. p \in Paths /\ q \in Files /\ looked.cTimeChanged \in BOOLEAN
    BY <2>1 DEF Looks
  <2>3. CASE modifiedFile /\ ~looked.cTimeChanged
    <3>1. hasDocument(q)
      BY <2>3 DEF modifiedFile, Turns
    <3>2. doc' = [doc EXCEPT ![q].mtime = disk[q].mtime] /\ marked' = marked \cup {q}
      BY <2>3 DEF modifiedFile
    <3> DEFINE f == [doc[q] EXCEPT !.mtime = disk[q].mtime]
    <3>3. f \in FileInfo /\ f.path = doc[q].path
      BY <2>2 DEF Types, FileInfo
    <3>4. doc' = [doc EXCEPT ![q] = f]
      BY <3>2
    <3> HIDE DEF f, q
    <3> QED BY <1>2, <2>2, <3>1, <3>2, <3>3, <3>4 DEF hasDocument
  <2>4. CASE modifiedFile /\ looked.cTimeChanged
    <3>1. CASE at(p) = {}
      BY <3>1, <2>4, <1>7 DEF modifiedFile
    <3>2. CASE at(p) # {}
      <4>1. PICK i \in at(p) : IF looked.known /\ looked.file = i
                               THEN /\ Reread(i, p, {"xattr", "url"})
                                    /\ marked' = IF contentIndexing(i) THEN marked \cup {i} ELSE marked
                               ELSE addDocument(i, p)
        BY <3>2, <2>4 DEF modifiedFile
      <4> QED BY <4>1, <1>4, <1>5, <1>6, <2>2 DEF addDocument
    <3> QED BY <3>1, <3>2
  <2>5. CASE unindexedFile
    <3>1. CASE at(p) = {}
      BY <3>1, <2>5, <1>7 DEF unindexedFile
    <3>2. CASE at(p) # {}
      <4>1. PICK i \in at(p) : IF hasDocument(i)
                               THEN /\ Reread(i, p, IF looked.cTimeChanged THEN {"xattr", "url"} ELSE {})
                                    /\ marked' = IF looked.mTimeChanged \/ contentIndexing(i) THEN marked \cup {i} ELSE marked
                               ELSE addDocument(i, p)
        BY <3>2, <2>5 DEF unindexedFile
      <4> QED BY <4>1, <1>4, <1>5, <1>6, <2>2 DEF addDocument
    <3> QED BY <3>1, <3>2
  <2> QED BY <1>9, <2>2, <2>3, <2>4, <2>5
<1>10. ASSUME NEW p \in Paths, attributes(p) PROVE DocsOK'
  BY <1>4, <1>5, <1>6, <1>7, <1>10 DEF attributes
<1>11. CASE storeContents
  <2>1. extracted \in Extractions
    BY <1>11 DEF storeContents, Types
  <2> DEFINE i == extracted.file
  <2>2. i \in Files /\ extracted.content \in Nat /\ i # Nowhere
    BY <2>1 DEF Extractions, Bounds
  <2>3. CASE doc' = [doc EXCEPT ![i].content = extracted.content] /\ marked' = marked \ {i} /\ i \in marked
    <3> DEFINE f == [doc[i] EXCEPT !.content = extracted.content]
    <3>1. f \in FileInfo /\ f.path = doc[i].path /\ doc' = [doc EXCEPT ![i] = f]
      BY <1>1, <2>2, <2>3 DEF FileInfo
    <3> HIDE DEF f, i
    <3> QED BY <1>1, <1>2, <2>2, <2>3, <3>1
  <2> QED BY <1>3, <1>7, <1>11, <2>3 DEF storeContents
<1>12. ASSUME NEW p \in Paths, indexFileNow(p) PROVE DocsOK'
  <2>1. PICK i \in at(p) : doc' = [doc EXCEPT ![i] = [basic(i, p) EXCEPT !.content = IF hasDocument(i) THEN 0 ELSE disk[i].content]]
    BY <1>12 DEF indexFileNow
  <2> DEFINE f == [basic(i, p) EXCEPT !.content = IF hasDocument(i) THEN 0 ELSE disk[i].content]
  <2>2. i \in Files /\ disk[i].content \in Nat
    BY <1>6 DEF Types, FileInfo
  <2>3. basic(i, p) \in FileInfo /\ basic(i, p).path = p
    BY <2>2, BasicIsTyped DEF basic
  <2>4. f \in FileInfo /\ f.path = p
    BY <2>2, <2>3 DEF FileInfo
  <2> HIDE DEF f
  <2> QED BY <1>1, <1>2, <1>12, <2>1, <2>2, <2>4 DEF indexFileNow, f
<1>13. ASSUME NEW p \in Paths, clearEntryNow(p) PROVE DocsOK'
  BY <1>3, <1>13 DEF clearEntryNow
<1>14. CASE followMove
  <2>1. Head(events).to \in Paths \cup {Nowhere}
    BY <1>14, Received, EventKinds DEF followMove, Types
  <2> DEFINE m == Head(events)
             moved == documentsAt(m.from)
  <2>2. CASE m.to = Nowhere
    BY <1>3, <1>14, <2>2 DEF followMove
  <2>3. CASE m.to # Nowhere
    <3>1. doc' = [i \in Files |-> IF i \in moved THEN [doc[i] EXCEPT !.path = m.to]
                                  ELSE IF doc[i].path = m.to THEN Absent ELSE doc[i]]
      BY <1>14, <2>3 DEF followMove
    <3>2. marked' = marked \ (documentsAt(m.to) \ moved)
      BY <1>14, <2>3 DEF followMove
    <3>3. \A i \in Files : [doc[i] EXCEPT !.path = m.to] \in FileInfo /\ [doc[i] EXCEPT !.path = m.to].path = m.to
      BY <1>1, <2>1 DEF FileInfo
    <3> HIDE DEF moved, m
    <3>4. doc' \in [Files -> FileInfo]
      BY <1>1, <3>1, <3>3, AbsentIsTyped
    <3>5. ASSUME NEW i \in marked' PROVE i \in Files /\ doc'[i].path # Nowhere
      <4>1. i \in marked /\ i \in Files /\ (i \in moved \/ doc[i].path # m.to)
        BY <1>1, <3>2 DEF documentsAt
      <4> QED BY <4>1, <1>1, <2>3, <3>1, <3>3
    <3> QED BY <3>4, <3>5
  <2> QED BY <2>2, <2>3
<1>15. CASE FileSystem \/ start \/ stop \/ indexFile \/ UNCHANGED vars \/ schedule \/ finish \/ readContents
  BY <1>7, <1>15 DEF FileSystem, tick, write, setAttributes, remove, create, rename, Changed, start, stop, indexFile, vars,
     schedule, finish, readContents
<1>16. ASSUME NEW p \in Paths, lookFirst(p) PROVE DocsOK'
  BY <1>7, <1>16 DEF lookFirst
<1>17. ASSUME NEW i \in Files, extract(i) PROVE DocsOK'
  BY <1>7, <1>17 DEF extract
<1> HIDE DEF DocsOK
<1> QED BY <1>8, <1>9, <1>10, <1>11, <1>12, <1>13, <1>14, <1>15, <1>16, <1>17 DEF Next, Jobs, Contents, Tools

LEMMA TypesInit == Bounds => (Init => Types /\ Turns)
BY AbsentIsTyped DEF Bounds, Init, Types, Turns, NoJob, Kinds, Absent

LEMMA TypesNext == ASSUME Bounds, Types, Turns, [Next]_vars PROVE Types'
<1>1. disk' \in [Files -> FileInfo] /\ \A i \in Files : disk'[i].path = Nowhere => disk'[i] = Absent
  <2>1. CASE FileSystem
    BY <2>1, DiskTypes
  <2>2. CASE ~FileSystem
    <3>1. disk' = disk
      BY <2>2 DEF Next, Jobs, Contents, Tools, Tool, JobStep, schedule, modifiedFile, unindexedFile, finish, newFile, lookFirst,
         attributes, extract, readContents, storeContents, indexFileNow, clearEntryNow, start, stop, indexFile, followMove,
         vars, files
    <3> QED BY <3>1 DEF Types
  <2> QED BY <2>1, <2>2
<1> QED BY <1>1, NumbersTypes, QueuesTypes, JobTypes, LookedTypes, ExtractedTypes, DocumentTypes DEF Types

-----------------------------------------------------------------------------
(* Equal times tell that there is nothing to be read again. *)

\* Had a file been looked at in the second of a change, its times would tell nothing.
LookedBefore(i) ==
  /\ disk[i].mtime <= second /\ disk[i].ctime <= second /\ lookedAt[i] <= second
  /\ doc[i].mtime <= lookedAt[i] /\ doc[i].ctime <= lookedAt[i]
  /\ disk[i] # Absent => disk[i].content # 0

Read(i) == doc[i].content = disk[i].content \/ i \in marked

\* A change of the mtime is a change of the ctime, too. Contents tell by the mtime,
\* attributes by the ctime.
TimesAreRight(i) ==
  hasDocument(i) /\ disk[i] # Absent =>
    /\ doc[i].ctime = disk[i].ctime => doc[i].mtime = disk[i].mtime
    /\ ~Read(i) => doc[i].mtime # disk[i].mtime
    /\ doc[i].xattr # disk[i].xattr => doc[i].ctime # disk[i].ctime

\* The contents that were read are those of the file, or it has changed since.
ExtractedInTime ==
  extracted # Nothing =>
    LET i == extracted.file
    IN  extracted.read /\ i \in marked /\ disk[i] # Absent /\ extracted.content # disk[i].content
          => doc[i].mtime # disk[i].mtime

TimesInv ==
  missed = {} =>
    /\ \A i \in Files : LookedBefore(i) /\ TimesAreRight(i)
    /\ looked # NoLook => looked.cTimeChanged
    /\ ExtractedInTime

\* Nothing that was missed is made good.
LEMMA MissedStays == ASSUME [Next]_vars PROVE missed \subseteq missed'
<1> USE DEF files, index, indexers
<1>1. \A p, causes : Missed(p, causes) => missed \subseteq missed'
  BY DEF Missed
<1>2. \A i, causes : Changed(i, causes) => missed \subseteq missed'
  BY DEF Changed
<1>3. CASE FileSystem
  BY <1>2, <1>3 DEF FileSystem, tick, write, setAttributes, remove, create, rename
<1>4. CASE Jobs
  BY <1>1, <1>4 DEF Jobs, schedule, modifiedFile, unindexedFile, finish, newFile, lookFirst, attributes
<1>5. CASE Contents \/ Tools
  BY <1>1, <1>5 DEF Contents, Tools, extract, readContents, storeContents, indexFileNow, clearEntryNow
<1>6. CASE start \/ stop \/ indexFile \/ followMove \/ UNCHANGED vars
  BY <1>6 DEF start, stop, indexFile, followMove, vars
<1> QED BY <1>3, <1>4, <1>5, <1>6 DEF Next

\* What a document and a file have.
LEMMA Infos ==
  ASSUME Types, NEW i \in Files
  PROVE  /\ disk[i] \in FileInfo /\ doc[i] \in FileInfo /\ lookedAt[i] \in Nat /\ second \in Nat
         /\ disk[i].mtime \in Nat /\ disk[i].ctime \in Nat /\ doc[i].mtime \in Nat /\ doc[i].ctime \in Nat
         /\ disk[i].xattr \in Nat /\ disk[i].content \in Nat /\ doc[i].path \in Paths \cup {Nowhere}
         /\ disk[i].path \in Paths \cup {Nowhere}
         /\ (disk[i] = Absent <=> disk[i].path = Nowhere)
BY DEF Types, FileInfo, Absent

\* The files change.
LEMMA TimesFileSystem ==
  ASSUME Bounds, Types, Turns, TimesInv, FileSystem, missed' = {}, missed = {} PROVE TimesInv'
<1> USE DEF files, index, indexers
<1>1. /\ \A i \in Files : LookedBefore(i) /\ TimesAreRight(i)
      /\ looked # NoLook => looked.cTimeChanged
      /\ ExtractedInTime
  BY DEF TimesInv
<1>2. UNCHANGED <<doc, marked, looked, extracted, lookedAt>>
  BY DEF FileSystem, tick, write, setAttributes, remove, create, rename, Changed
<1>3. SUFFICES ASSUME NEW j \in Files
               PROVE  /\ LookedBefore(j)' /\ TimesAreRight(j)'
                      /\ j \in marked /\ disk'[j] # Absent /\ disk'[j].content # disk[j].content => doc[j].mtime # disk'[j].mtime
                      /\ disk[j] = Absent => disk'[j] = Absent \/ j \notin marked
                      /\ disk'[j].mtime = disk[j].mtime \/ disk'[j] = Absent \/ doc[j].mtime # disk'[j].mtime \/ j \notin marked
  <2>1. ExtractedInTime'
    <3>1. extracted # Nothing => extracted.file \in Files
      BY DEF Types, Extractions
    <3> QED BY <1>1, <1>2, <1>3, <3>1 DEF ExtractedInTime
  <2> QED BY <1>1, <1>2, <1>3, <2>1 DEF TimesInv
<1>4. /\ LookedBefore(j) /\ TimesAreRight(j)
      /\ disk \in [Files -> FileInfo] /\ version \in Nat
      /\ j \in marked => hasDocument(j)
  BY <1>1 DEF Types
<1>5. CASE tick
  BY <1>4, <1>5, Infos DEF tick, LookedBefore, TimesAreRight, Read, hasDocument
<1>6. ASSUME NEW i \in Files, NEW causes, Changed(i, causes) PROVE second' = second /\ (LookedBefore(i) => lookedAt[i] < second)
  <2>1. second' = second /\ lookedAt[i] # second
    BY <1>6 DEF Changed
  <2>2. lookedAt[i] \in Nat /\ second \in Nat
    BY Infos
  <2> QED BY <2>1, <2>2 DEF LookedBefore
<1>7. ASSUME NEW i \in Files, Changed(i, {}), disk'[j] = disk[j] PROVE LookedBefore(j)' /\ TimesAreRight(j)'
  BY <1>2, <1>4, <1>6, <1>7 DEF LookedBefore, TimesAreRight, Read, hasDocument
<1>8. ASSUME NEW i \in Files, write(i, version + 1) \/ write(i, 0)
      PROVE  /\ LookedBefore(j)' /\ TimesAreRight(j)'
             /\ disk'[j] = disk[j] \/ (disk[j] # Absent /\ doc[j].mtime # disk'[j].mtime)
  <2>1. PICK c \in {version + 1, 0} : write(i, c)
    BY <1>8
  <2>2. c # 0 /\ Changed(i, {})
    BY <1>4, <2>1 DEF write, Changed
  <2>3. CASE i # j
    <3>1. disk'[j] = disk[j]
      BY <1>4, <2>1, <2>3 DEF write
    <3> QED BY <3>1, <2>2, <1>7
  <2>4. CASE i = j
    <3>1. disk'[j].mtime = second /\ disk'[j].ctime = second /\ disk'[j].content = c /\ disk[j] # Absent
      BY <1>4, <2>1, <2>4, Infos DEF write, FileInfo
    <3>2. lookedAt[j] < second /\ second' = second
      BY <1>4, <1>6, <2>2, <2>4
    <3>3. doc[j].mtime # disk'[j].mtime /\ doc[j].ctime # disk'[j].ctime
      BY <1>4, <3>1, <3>2, Infos DEF LookedBefore
    <3>4. LookedBefore(j)'
      BY <1>2, <1>4, <3>1, <3>2, <2>2, Infos DEF LookedBefore
    <3> QED BY <1>2, <3>1, <3>3, <3>4 DEF TimesAreRight
  <2> QED BY <2>3, <2>4
<1>9. ASSUME NEW i \in Files, setAttributes(i)
      PROVE  /\ LookedBefore(j)' /\ TimesAreRight(j)'
             /\ disk'[j] = disk[j] \/ (disk[j] # Absent /\ disk'[j].content = disk[j].content /\ disk'[j].mtime = disk[j].mtime)
  <2>1. Changed(i, {})
    BY <1>9 DEF setAttributes
  <2>2. CASE i # j
    <3>1. disk'[j] = disk[j]
      BY <1>4, <1>9, <2>2 DEF setAttributes
    <3> QED BY <3>1, <2>1, <1>7
  <2>3. CASE i = j
    <3>1. disk'[j].mtime = disk[j].mtime /\ disk'[j].ctime = second /\ disk'[j].content = disk[j].content /\ disk[j] # Absent
      BY <1>4, <1>9, <2>3, Infos DEF setAttributes, FileInfo
    <3>2. lookedAt[j] < second /\ second' = second
      BY <1>4, <1>6, <2>1, <2>3
    <3>3. doc[j].ctime # disk'[j].ctime
      BY <1>4, <3>1, <3>2, Infos DEF LookedBefore
    <3>4. LookedBefore(j)'
      BY <1>2, <1>4, <3>1, <3>2, Infos DEF LookedBefore
    <3> QED BY <1>2, <1>4, <3>1, <3>3, <3>4 DEF TimesAreRight, Read, hasDocument
  <2> QED BY <2>2, <2>3
<1>10. ASSUME NEW i \in Files, NEW p \in Paths, rename(i, p)
       PROVE  /\ LookedBefore(j)' /\ TimesAreRight(j)'
              /\ disk'[j] \in {disk[j], Absent} \/ (disk[j] # Absent /\ disk'[j].content = disk[j].content /\ disk'[j].mtime = disk[j].mtime)
  <2>1. Changed(i, {})
    BY <1>10 DEF rename, Changed
  <2>2. CASE disk'[j] = disk[j]
    BY <2>1, <2>2, <1>7
  <2>3. CASE disk'[j] = Absent
    <3>1. LookedBefore(j)'
      BY <1>2, <1>4, <1>6, <2>1, <2>3, Infos DEF LookedBefore, Absent
    <3> QED BY <2>3, <3>1 DEF TimesAreRight
  <2>4. CASE i = j
    <3>1. disk'[j].mtime = disk[j].mtime /\ disk'[j].ctime = second /\ disk'[j].content = disk[j].content /\ disk[j] # Absent
      BY <1>4, <1>10, <2>4, Infos DEF rename, FileInfo
    <3>2. lookedAt[j] < second /\ second' = second
      BY <1>4, <1>6, <2>1, <2>4
    <3>3. disk'[j].xattr = disk[j].xattr
      BY <1>4, <1>10, <2>4, Infos DEF rename, FileInfo
    <3>4. doc[j].ctime # disk'[j].ctime
      BY <1>4, <3>1, <3>2, Infos DEF LookedBefore
    <3>5. LookedBefore(j)'
      BY <1>2, <1>4, <3>1, <3>2, Infos DEF LookedBefore
    <3> QED BY <1>2, <1>4, <3>1, <3>3, <3>4, <3>5 DEF TimesAreRight, Read, hasDocument
  <2> QED BY <1>10, <2>2, <2>3, <2>4 DEF rename
<1>11. ASSUME NEW i \in Files, remove(i) PROVE LookedBefore(j)' /\ TimesAreRight(j)' /\ disk'[j] \in {disk[j], Absent}
  <2>1. Changed(i, {})
    BY <1>11 DEF remove, Changed
  <2>2. CASE disk'[j] = disk[j]
    BY <2>1, <2>2, <1>7
  <2>3. CASE disk'[j] = Absent
    <3>1. LookedBefore(j)'
      BY <1>2, <1>4, <1>6, <2>1, <2>3, Infos DEF LookedBefore, Absent
    <3> QED BY <2>3, <3>1 DEF TimesAreRight
  <2> QED BY <1>4, <1>11, <2>2, <2>3 DEF remove
<1>12. ASSUME NEW i \in Files, NEW p \in Paths, create(i, p)
       PROVE  LookedBefore(j)' /\ TimesAreRight(j)' /\ (disk'[j] = disk[j] \/ j \notin marked)
  <2>1. Changed(i, {})
    BY <1>12 DEF create
  <2>2. CASE i # j
    <3>1. disk'[j] = disk[j]
      BY <1>4, <1>12, <2>2 DEF create
    <3> QED BY <3>1, <2>1, <1>7
  <2>3. CASE i = j
    <3>1. disk'[j].mtime = second /\ disk'[j].ctime = second /\ disk'[j].content = version + 1 /\ ~hasDocument(j)
      BY <1>4, <1>12, <2>3 DEF create
    <3>2. LookedBefore(j)'
      BY <1>2, <1>4, <1>6, <2>1, <2>3, <3>1, Infos DEF LookedBefore
    <3> QED BY <1>2, <1>4, <3>1, <3>2 DEF TimesAreRight, hasDocument
  <2> QED BY <2>2, <2>3
<1> QED
  <2>1. CASE tick
    BY <1>5, <2>1, <1>4 DEF tick
  <2> HIDE DEF LookedBefore
  <2> QED BY <1>4, <1>8, <1>9, <1>10, <1>11, <1>12, <2>1 DEF FileSystem

\* A document read from its file.
LEMMA JustRead ==
  ASSUME Types, NEW i \in Files, LookedBefore(i), UNCHANGED <<disk, second>>, lookedAt'[i] = second,
         doc'[i].mtime = disk[i].mtime, doc'[i].ctime = disk[i].ctime, doc'[i].xattr = disk[i].xattr,
         Read(i)'
  PROVE  LookedBefore(i)' /\ TimesAreRight(i)'
BY Infos DEF LookedBefore, TimesAreRight, Read

\* A document that keeps what was read.
LEMMA NotRead ==
  ASSUME Types, NEW i \in Files, LookedBefore(i), TimesAreRight(i), UNCHANGED <<disk, second>>,
         lookedAt'[i] \in {lookedAt[i], second}, doc[i].path # Nowhere \/ doc'[i] = doc[i],
         doc'[i].mtime = doc[i].mtime, doc'[i].ctime = doc[i].ctime, doc'[i].xattr = doc[i].xattr,
         Read(i) => Read(i)'
  PROVE  LookedBefore(i)' /\ TimesAreRight(i)'
BY Infos DEF LookedBefore, TimesAreRight, hasDocument

LEMMA NoDocument ==
  ASSUME Types, NEW i \in Files, LookedBefore(i), UNCHANGED <<disk, second>>,
         lookedAt'[i] \in {lookedAt[i], second}, doc'[i] = Absent
  PROVE  LookedBefore(i)' /\ TimesAreRight(i)'
BY Infos DEF LookedBefore, TimesAreRight, hasDocument, Absent

\* A file that has been looked at.
LEMMA SeenAt ==
  ASSUME Types, NEW S, Seen(S)
  PROVE  \A i \in Files : lookedAt'[i] \in {lookedAt[i], second} /\ (i \in S => lookedAt'[i] = second)
BY DEF Seen, Types

\* The file at p gets a basic document and, if it has contents, a mark.
LEMMA DocumentAdded ==
  ASSUME Bounds, Types, TimesInv, missed = {}, UNCHANGED <<disk, second>>, NEW p \in Paths, NEW i \in at(p), Seen(at(p)),
         doc' = [doc EXCEPT ![i] = basic(i, p)], marked \cup {i} = marked'
  PROVE  \A j \in Files : LookedBefore(j)' /\ TimesAreRight(j)'
<1> SUFFICES ASSUME NEW j \in Files PROVE LookedBefore(j)' /\ TimesAreRight(j)'
  OBVIOUS
<1>1. i \in Files /\ doc \in [Files -> FileInfo] /\ LookedBefore(j) /\ TimesAreRight(j)
  BY DEF at, Types, TimesInv
<1>2. CASE j = i
  <2>1. doc'[j] = basic(j, p) /\ j \in marked' /\ lookedAt'[j] = second
    BY <1>1, <1>2, SeenAt
  <2> QED BY <1>1, <2>1, JustRead DEF basic, Read
<1>3. CASE j # i
  <2>1. doc'[j] = doc[j] /\ (j \in marked => j \in marked') /\ lookedAt'[j] \in {lookedAt[j], second}
    BY <1>1, <1>3, SeenAt
  <2> QED BY <1>1, <2>1, NotRead DEF Read
<1> QED BY <1>2, <1>3

\* So does a document that is read again.
LEMMA DocumentRereadInTime ==
  ASSUME Bounds, Types, TimesInv, missed = {}, UNCHANGED <<disk, second>>, NEW p \in Paths, NEW i \in at(p), Seen(at(p)),
         NEW ops, Reread(i, p, ops), "xattr" \in ops, marked \subseteq marked',
         i \in marked' \/ doc[i].content = disk[i].content
  PROVE  \A j \in Files : LookedBefore(j)' /\ TimesAreRight(j)'
<1> SUFFICES ASSUME NEW j \in Files PROVE LookedBefore(j)' /\ TimesAreRight(j)'
  OBVIOUS
<1>1. i \in Files /\ doc \in [Files -> FileInfo] /\ LookedBefore(j) /\ TimesAreRight(j)
  BY DEF at, Types, TimesInv
<1>2. PICK f \in FileInfo :
        /\ doc' = [doc EXCEPT ![i] = f] /\ f.content = doc[i].content
        /\ f.mtime = disk[i].mtime /\ f.ctime = disk[i].ctime /\ f.xattr = disk[i].xattr
  BY <1>1, RereadIs
<1>3. CASE j = i
  <2>1. doc'[j] = f /\ lookedAt'[j] = second
    BY <1>1, <1>2, <1>3, SeenAt
  <2> QED BY <1>1, <1>2, <1>3, <2>1, JustRead DEF Read
<1>4. CASE j # i
  <2>1. doc'[j] = doc[j] /\ (j \in marked => j \in marked') /\ lookedAt'[j] \in {lookedAt[j], second}
    BY <1>1, <1>2, <1>4, SeenAt
  <2> QED BY <1>1, <2>1, NotRead DEF Read
<1> QED BY <1>3, <1>4

\* A look that changes no document.
LEMMA OnlySeen ==
  ASSUME Types, TimesInv, missed = {}, UNCHANGED <<disk, second, index>>,
         \A i \in Files : lookedAt'[i] \in {lookedAt[i], second}
  PROVE  \A j \in Files : LookedBefore(j)' /\ TimesAreRight(j)'
BY NotRead DEF index, TimesInv, Read

LEMMA TimesJobs ==
  ASSUME Bounds, Types, Turns, TimesInv, Jobs, missed' = {}, missed = {} PROVE TimesInv'
<1> USE DEF files, index, indexers
<1>1. /\ \A i \in Files : LookedBefore(i) /\ TimesAreRight(i)
      /\ looked # NoLook => looked.cTimeChanged
      /\ \A i \in Files : disk[i] # Absent => contentIndexing(i)
      /\ \A p \in Paths : \A i \in at(p) : i \in Files /\ disk[i] # Absent /\ contentIndexing(i)
  BY Infos DEF TimesInv, LookedBefore, contentIndexing, at, Bounds
<1>2. UNCHANGED <<disk, second>> /\ extracted' = extracted
  BY DEF Jobs, schedule, modifiedFile, unindexedFile, finish, newFile, lookFirst, attributes, JobStep
<1>3. extracted = Nothing
  <2>1. job # NoJob \/ extracted = Nothing
    BY DEF Jobs, schedule, modifiedFile, unindexedFile, finish, newFile, lookFirst, attributes, Running, NoJob
  <2> QED BY <2>1 DEF Turns
<1> DEFINE Documents == \A j \in Files : LookedBefore(j) /\ TimesAreRight(j)
<1> SUFFICES Documents' /\ (looked' # NoLook => looked'.cTimeChanged)
  BY <1>2, <1>3 DEF TimesInv, ExtractedInTime
<1>4. CASE UNCHANGED <<index, lookedAt, looked>>
  BY <1>1, <1>2, <1>4, OnlySeen
<1>5. ASSUME NEW p \in Paths, newFile(p) PROVE Documents' /\ looked' = NoLook
  <2>1. Seen(at(p)) /\ looked' = NoLook
    BY <1>5 DEF newFile, Running
  <2>2. CASE UNCHANGED index
    BY <1>2, <2>1, <2>2, SeenAt, OnlySeen
  <2>3. CASE \E i \in at(p) : addDocument(i, p)
    BY <1>1, <1>2, <2>1, <2>3, DocumentAdded DEF addDocument
  <2> QED BY <1>5, <2>1, <2>2, <2>3 DEF newFile
<1>6. ASSUME NEW p \in Paths, lookFirst(p) PROVE Documents' /\ (looked' # NoLook => looked'.cTimeChanged)
  <2>1. Seen(at(p)) /\ UNCHANGED index /\ (looked' = looked \/ look(p)) /\ looked = NoLook
    BY <1>6 DEF lookFirst, Running
  <2>2. Documents'
    BY <1>2, <2>1, SeenAt, OnlySeen
  <2>3. CASE look(p)
    <3>1. PICK i \in at(p) : look(p)!(i)
      BY <2>3 DEF look
    <3> DEFINE k == hasDocument(i)
               m == k => doc[i].mtime # disk[i].mtime
               c == k => doc[i].ctime # disk[i].ctime
    <3>2. \/ looked' = looked
          \/ (m \/ c) /\ looked' = [path |-> p, file |-> i, known |-> k, mTimeChanged |-> m, cTimeChanged |-> c]
      BY <3>1
    <3>3. (m \/ c) => c
      BY <1>1 DEF TimesAreRight
    <3>4. c \in BOOLEAN
      OBVIOUS
    <3> HIDE DEF k, m, c
    <3>5. CASE (m \/ c) /\ looked' = [path |-> p, file |-> i, known |-> k, mTimeChanged |-> m, cTimeChanged |-> c]
      <4>1. looked'.cTimeChanged = c
        BY <3>5
      <4> QED BY <2>2, <3>3, <3>5, <4>1
    <3> QED BY <2>1, <2>2, <3>2, <3>5
  <2> QED BY <2>1, <2>2, <2>3
<1>7. CASE modifiedFile \/ unindexedFile
  <2>1. looked \in Looks /\ looked' = NoLook /\ looked.cTimeChanged
    BY <1>1, <1>7 DEF modifiedFile, unindexedFile, Types
  <2> DEFINE p == looked.path
  <2>2. p \in Paths /\ looked.file \in Files
    BY <2>1 DEF Looks
  <2>3. Seen(at(p)) /\ at(p) = {looked.file}
    BY <1>7 DEF modifiedFile, unindexedFile, Missed
  <2>4. PICK i \in at(p) :
          \/ Reread(i, p, {"xattr", "url"}) /\ marked' = marked \cup {i}
          \/ addDocument(i, p)
    <3>1. CASE modifiedFile
      BY <1>1, <2>1, <2>2, <2>3, <3>1 DEF modifiedFile
    <3>2. CASE unindexedFile
      BY <1>1, <2>1, <2>2, <2>3, <3>2 DEF unindexedFile
    <3> QED BY <1>7, <3>1, <3>2
  <2> HIDE DEF p
  <2>5. CASE addDocument(i, p)
    BY <1>1, <1>2, <2>1, <2>2, <2>3, <2>4, <2>5, DocumentAdded DEF addDocument
  <2>6. CASE Reread(i, p, {"xattr", "url"}) /\ marked' = marked \cup {i}
    BY <1>2, <2>1, <2>2, <2>3, <2>4, <2>6, DocumentRereadInTime
  <2> QED BY <2>1, <2>4, <2>5, <2>6
<1>8. ASSUME NEW p \in Paths, attributes(p) PROVE Documents' /\ looked' = NoLook
  <2>1. Seen(at(p)) /\ looked' = NoLook
    BY <1>8 DEF attributes, Running
  <2>2. CASE at(p) = {}
    BY <1>2, <1>8, <2>1, <2>2, SeenAt, OnlySeen DEF attributes
  <2>3. CASE at(p) # {}
    <3>1. PICK i \in at(p) : 
            \/ /\ hasDocument(i) /\ Reread(i, p, {"xattr", "url"}) /\ UNCHANGED marked
               /\ Missed(p, IF doc[i].mtime # disk[i].mtime THEN {"attributesFirst"} ELSE {})
            \/ doc' = [doc EXCEPT ![i] = basic(i, p)] /\ marked' = marked \cup {i}
      BY <1>8, <2>3 DEF attributes
    <3>2. CASE doc' = [doc EXCEPT ![i] = basic(i, p)] /\ marked' = marked \cup {i}
      BY <1>2, <2>1, <3>2, DocumentAdded
    <3>3. CASE /\ hasDocument(i) /\ Reread(i, p, {"xattr", "url"}) /\ UNCHANGED marked
               /\ Missed(p, IF doc[i].mtime # disk[i].mtime THEN {"attributesFirst"} ELSE {})
      <4>1. doc[i].mtime = disk[i].mtime
        BY <3>3 DEF Missed
      <4>2. Read(i)
        BY <1>1, <3>3, <4>1 DEF TimesAreRight
      <4> QED BY <1>2, <2>1, <3>3, <4>2, DocumentRereadInTime DEF Read
    <3> QED BY <2>1, <3>1, <3>2, <3>3
  <2> QED BY <2>2, <2>3
<1>9. CASE schedule \/ finish
  <2>1. UNCHANGED <<index, lookedAt, looked>>
    BY <1>9 DEF schedule, finish
  <2> QED BY <1>4, <2>1
<1> HIDE DEF Documents
<1> QED BY <1>5, <1>6, <1>7, <1>8, <1>9 DEF Jobs

LEMMA TimesContents ==
  ASSUME Bounds, Types, Turns, TimesInv, Contents, missed' = {}, missed = {} PROVE TimesInv'
<1> USE DEF files, index, indexers
<1>1. /\ \A i \in Files : LookedBefore(i) /\ TimesAreRight(i)
      /\ looked = NoLook
      /\ ExtractedInTime
  BY DEF TimesInv, Turns, Contents, extract, readContents, storeContents, NoJob
<1>2. UNCHANGED <<disk, second, looked>>
  BY DEF Contents, extract, readContents, storeContents
<1> DEFINE Documents == \A j \in Files : LookedBefore(j) /\ TimesAreRight(j)
<1> SUFFICES Documents' /\ ExtractedInTime'
  BY <1>1, <1>2 DEF TimesInv
<1>3. ASSUME NEW i \in Files, extract(i) PROVE Documents' /\ ExtractedInTime'
  <2>1. UNCHANGED <<index, lookedAt>> /\ extracted'.read = FALSE
    BY <1>3 DEF extract
  <2> QED BY <1>2, <2>1, OnlySeen DEF ExtractedInTime
<1>4. CASE readContents
  <2>1. extracted \in Extractions /\ UNCHANGED index /\ Seen(at(extracted.path)) /\ at(extracted.path) = {extracted.file}
    BY <1>4 DEF readContents, Types, Missed
  <2>2. Documents'
    BY <1>2, <2>1, SeenAt, OnlySeen
  <2> DEFINE c == IF at(extracted.path) = {} THEN 0 ELSE disk[CHOOSE j \in at(extracted.path) : TRUE].content
  <2>3. c = disk[extracted.file].content
    BY <2>1
  <2>4. extracted' = [extracted EXCEPT !.read = TRUE, !.content = c]
    BY <1>4 DEF readContents
  <2> HIDE DEF c
  <2>5. extracted'.file = extracted.file /\ extracted'.content = disk[extracted.file].content
    BY <2>1, <2>3, <2>4 DEF Extractions
  <2> QED BY <1>2, <2>2, <2>5 DEF ExtractedInTime
<1>5. CASE storeContents
  <2>1. extracted \in Extractions /\ extracted' = Nothing /\ UNCHANGED lookedAt /\ extracted # Nothing
    BY <1>5 DEF storeContents, Types
  <2> DEFINE i == extracted.file
  <2>2. i \in Files /\ doc \in [Files -> FileInfo]
    BY <2>1 DEF Extractions, Types
  <2>3. CASE UNCHANGED index
    BY <1>2, <2>1, <2>3, OnlySeen DEF ExtractedInTime
  <2>4. CASE Removed({i})
    <3>1. ASSUME NEW j \in Files PROVE LookedBefore(j)' /\ TimesAreRight(j)'
      <4>1. CASE j = i
        <5>1. doc'[j] = Absent
          BY <2>4, <4>1 DEF Removed
        <5> QED BY <1>1, <1>2, <2>1, <5>1, NoDocument
      <4>2. CASE j # i
        <5>1. doc'[j] = doc[j] /\ (j \in marked => j \in marked')
          BY <2>4, <4>2 DEF Removed
        <5> QED BY <1>1, <1>2, <2>1, <5>1, NotRead DEF Read
      <4> QED BY <4>1, <4>2
    <3> QED BY <2>1, <3>1 DEF ExtractedInTime
  <2>5. CASE /\ doc' = [doc EXCEPT ![i].content = extracted.content] /\ marked' = marked \ {i}
             /\ i \in marked /\ extracted.read
    <3>1. ASSUME NEW j \in Files, j # i PROVE LookedBefore(j)' /\ TimesAreRight(j)'
      <4>1. doc'[j] = doc[j] /\ (j \in marked => j \in marked')
        BY <2>2, <2>5, <3>1
      <4> QED BY <1>1, <1>2, <2>1, <4>1, NotRead DEF Read
    <3>2. ASSUME NEW j \in Files, j = i PROVE LookedBefore(j)' /\ TimesAreRight(j)'
      <4>1. /\ doc'[j].content = extracted.content /\ doc'[j].mtime = doc[j].mtime /\ doc'[j].ctime = doc[j].ctime
            /\ doc'[j].xattr = doc[j].xattr /\ doc'[j].path = doc[j].path
        BY <2>2, <2>5, <3>2 DEF FileInfo
      <4>2. disk[j] # Absent /\ extracted.content # disk[j].content => doc[j].mtime # disk[j].mtime
        BY <1>1, <2>1, <2>5, <3>2 DEF ExtractedInTime
      <4>3. LookedBefore(j) /\ TimesAreRight(j) /\ lookedAt' = lookedAt /\ disk' = disk /\ second' = second
        BY <1>1, <1>2, <2>1, <2>2
      <4>4. LookedBefore(j)'
        BY <4>1, <4>3 DEF LookedBefore
      <4>5. TimesAreRight(j)'
        <5>1. hasDocument(j)
          BY <2>5, <3>2 DEF Types
        <5> QED BY <4>1, <4>2, <4>3, <5>1 DEF TimesAreRight, Read, hasDocument
      <4> QED BY <4>4, <4>5
    <3>3. Documents'
      BY <3>1, <3>2
    <3> QED BY <2>1, <3>3 DEF ExtractedInTime
  <2> QED BY <1>5, <2>3, <2>4, <2>5 DEF storeContents
<1> HIDE DEF Documents
<1> QED BY <1>3, <1>4, <1>5 DEF Contents

LEMMA TimesTools ==
  ASSUME Bounds, Types, Turns, TimesInv, Tools, missed' = {}, missed = {} PROVE TimesInv'
<1> USE DEF files, index, indexers
<1>1. /\ \A i \in Files : LookedBefore(i) /\ TimesAreRight(i)
      /\ ExtractedInTime /\ doc \in [Files -> FileInfo]
      /\ \A i \in marked : hasDocument(i)
      /\ looked # NoLook => looked.cTimeChanged
  BY DEF TimesInv, Types
<1>2. UNCHANGED <<disk, second, looked, extracted>>
  BY DEF Tools, Tool, indexFileNow, clearEntryNow
<1>3. marked' \subseteq marked /\ \A i \in marked' : doc'[i] = doc[i]
  <2>1. ASSUME NEW p \in Paths, indexFileNow(p) PROVE marked' \subseteq marked /\ \A i \in marked' : doc'[i] = doc[i]
    BY <1>1, <2>1 DEF indexFileNow, Types
  <2>2. ASSUME NEW S, Removed(S) PROVE marked' \subseteq marked /\ \A i \in marked' : doc'[i] = doc[i]
    BY <1>1, <2>2 DEF Removed, Types
  <2> QED BY <2>1, <2>2 DEF Tools, clearEntryNow
<1>4. ExtractedInTime'
  <2>1. extracted # Nothing => extracted.file \in Files
    BY DEF Types, Extractions
  <2> QED BY <1>1, <1>2, <1>3, <2>1 DEF ExtractedInTime
<1> DEFINE Documents == \A j \in Files : LookedBefore(j) /\ TimesAreRight(j)
<1> SUFFICES Documents'
  BY <1>1, <1>2, <1>4 DEF TimesInv
<1>5. ASSUME NEW p \in Paths, indexFileNow(p) PROVE Documents'
  <2>1. PICK i \in at(p) :
          /\ i \notin marked
          /\ doc' = [doc EXCEPT ![i] = [basic(i, p) EXCEPT !.content = IF hasDocument(i) THEN 0 ELSE disk[i].content]]
          /\ Missed(p, IF hasDocument(i) /\ disk[i].content # 0 THEN {"indexedNow"} ELSE {})
    BY <1>5 DEF indexFileNow
  <2>2. i \in Files /\ Seen(at(p)) /\ UNCHANGED marked
    BY <1>5 DEF at, indexFileNow
  <2> DEFINE f == [basic(i, p) EXCEPT !.content = IF hasDocument(i) THEN 0 ELSE disk[i].content]
  <2>3. hasDocument(i) => disk[i].content = 0
    BY <2>1 DEF Missed
  <2>4. /\ f.mtime = disk[i].mtime /\ f.ctime = disk[i].ctime /\ f.xattr = disk[i].xattr
        /\ f.content = disk[i].content
    BY <2>3 DEF basic
  <2>5. doc' = [doc EXCEPT ![i] = f]
    BY <2>1
  <2> HIDE DEF f
  <2> SUFFICES ASSUME NEW j \in Files PROVE LookedBefore(j)' /\ TimesAreRight(j)'
    OBVIOUS
  <2>6. CASE j = i
    <3>1. doc'[j] = f /\ lookedAt'[j] = second
      BY <1>1, <2>2, <2>5, <2>6, SeenAt
    <3> QED BY <1>1, <1>2, <2>4, <2>6, <3>1, JustRead DEF Read
  <2>7. CASE j # i
    <3>1. doc'[j] = doc[j] /\ lookedAt'[j] \in {lookedAt[j], second}
      BY <1>1, <2>2, <2>5, <2>7, SeenAt
    <3> QED BY <1>1, <1>2, <2>2, <3>1, NotRead DEF Read
  <2> QED BY <2>6, <2>7
<1>6. ASSUME NEW p \in Paths, clearEntryNow(p) PROVE Documents'
  <2>1. PICK S : Removed(S) /\ lookedAt' = lookedAt
    BY <1>6 DEF clearEntryNow
  <2> SUFFICES ASSUME NEW j \in Files PROVE LookedBefore(j)' /\ TimesAreRight(j)'
    OBVIOUS
  <2>2. CASE j \in S
    <3>1. doc'[j] = Absent
      BY <2>1, <2>2 DEF Removed
    <3> QED BY <1>1, <1>2, <2>1, <3>1, NoDocument
  <2>3. CASE j \notin S
    <3>1. doc'[j] = doc[j] /\ (j \in marked => j \in marked')
      BY <2>1, <2>3 DEF Removed
    <3> QED BY <1>1, <1>2, <2>1, <3>1, NotRead DEF Read
  <2> QED BY <2>2, <2>3
<1> HIDE DEF Documents
<1> QED BY <1>5, <1>6 DEF Tools

LEMMA TimesMainThread ==
  ASSUME Bounds, Types, Turns, TimesInv, start \/ stop \/ indexFile \/ followMove \/ UNCHANGED vars, missed' = {}, missed = {}
  PROVE  TimesInv'
<1> USE DEF files, index, indexers
<1>1. /\ \A i \in Files : LookedBefore(i) /\ TimesAreRight(i)
      /\ ExtractedInTime /\ doc \in [Files -> FileInfo]
      /\ looked # NoLook => looked.cTimeChanged
  BY DEF TimesInv, Types
<1>2. UNCHANGED <<disk, second, looked, lookedAt>> /\ extracted' \in {extracted, Nothing}
  BY DEF start, stop, indexFile, followMove, vars
<1>3. CASE UNCHANGED index
  BY <1>1, <1>2, <1>3, OnlySeen DEF TimesInv, ExtractedInTime
<1>4. CASE followMove
  <2> DEFINE m == Head(events)
             moved == documentsAt(m.from)
  <2>1. m.from # Nowhere
    BY <1>4, Received, EventKinds DEF followMove, Types, Bounds
  <2>2. ASSUME NEW j \in Files
        PROVE  \/ doc'[j] = Absent /\ j \notin marked'
               \/ /\ doc[j].path # Nowhere \/ doc'[j] = doc[j]
                  /\ doc'[j].mtime = doc[j].mtime /\ doc'[j].ctime = doc[j].ctime /\ doc'[j].xattr = doc[j].xattr
                  /\ doc'[j].content = doc[j].content /\ (j \in marked <=> j \in marked')
    <3>1. CASE m.to = Nowhere
      BY <1>4, <3>1 DEF followMove, Removed
    <3>2. CASE m.to # Nowhere
      <4>1. doc' = [i \in Files |-> IF i \in moved THEN [doc[i] EXCEPT !.path = m.to]
                                    ELSE IF doc[i].path = m.to THEN Absent ELSE doc[i]]
        BY <1>4, <3>2 DEF followMove
      <4>2. marked' = marked \ (documentsAt(m.to) \ moved)
        BY <1>4, <3>2 DEF followMove
      <4>3. /\ [doc[j] EXCEPT !.path = m.to].mtime = doc[j].mtime /\ [doc[j] EXCEPT !.path = m.to].ctime = doc[j].ctime
            /\ [doc[j] EXCEPT !.path = m.to].xattr = doc[j].xattr /\ [doc[j] EXCEPT !.path = m.to].content = doc[j].content
        BY <1>1 DEF FileInfo
      <4>4. CASE j \in moved
        <5>1. doc[j].path # Nowhere /\ doc'[j] = [doc[j] EXCEPT !.path = m.to] /\ (j \in marked <=> j \in marked')
          BY <2>1, <4>1, <4>2, <4>4 DEF documentsAt
        <5> QED BY <4>3, <5>1
      <4>5. CASE j \notin moved
        BY <4>1, <4>2, <4>5 DEF documentsAt
      <4> QED BY <4>4, <4>5
    <3> QED BY <3>1, <3>2
  <2>3. \A j \in Files : LookedBefore(j)' /\ TimesAreRight(j)'
    <3> SUFFICES ASSUME NEW j \in Files PROVE LookedBefore(j)' /\ TimesAreRight(j)'
      OBVIOUS
    <3> QED BY <1>1, <1>2, <2>2, NoDocument, NotRead DEF Read
  <2>4. ExtractedInTime'
    <3>1. extracted # Nothing => extracted.file \in Files
      BY DEF Types, Extractions
    <3> QED BY <1>1, <1>2, <2>2, <3>1 DEF ExtractedInTime
  <2> QED BY <1>1, <1>2, <2>3, <2>4 DEF TimesInv
<1> QED BY <1>3, <1>4 DEF start, stop, indexFile, vars

LEMMA TimesNext == ASSUME Bounds, Types, Turns, TimesInv, [Next]_vars PROVE TimesInv'
<1>1. CASE missed' # {}
  BY <1>1 DEF TimesInv
<1>2. CASE missed' = {}
  <2>1. missed = {}
    BY <1>2, MissedStays
  <2> QED BY <1>2, <2>1, TimesFileSystem, TimesJobs, TimesContents, TimesTools, TimesMainThread DEF Next
<1> QED BY <1>1, <1>2

LEMMA TimesInit == Bounds => (Init => TimesInv)
BY DEF Bounds, Init, TimesInv, LookedBefore, TimesAreRight, ExtractedInTime, Absent, NoLook, hasDocument, Nothing

\* The inductive invariant of what the variables hold and what times tell.
THEOREM TimesInvariant == ASSUME Bounds PROVE Spec => [](Types /\ Turns /\ TimesInv)
<1>1. Init => Types /\ Turns /\ TimesInv
  BY TypesInit, TimesInit
<1>2. Types /\ Turns /\ TimesInv /\ [Next]_vars => Types' /\ Turns' /\ TimesInv'
  BY TypesNext, TurnsNext, TimesNext
<1> QED BY <1>1, <1>2, PTL DEF Spec

\* The variables keep their types; only a document is marked.
THEOREM TypeCorrect == ASSUME Bounds PROVE Spec => []TypeOK
<1>1. Types /\ Turns => TypeOK
  BY DEF Types, Turns, TypeOK, FileInfo, Items, Kinds, hasDocument
<1> QED BY <1>1, TimesInvariant, PTL

\* Between two jobs, equal times tell that there is nothing to be read again.
THEOREM EqualTimesTell == ASSUME Bounds PROVE Spec => []TimesTell
<1>1. Types /\ TimesInv => TimesTell
  BY DEF TimesInv, TimesTell, TimesAreRight, Read
<1> QED BY <1>1, TimesInvariant, PTL

-----------------------------------------------------------------------------
(* Documents follow files. *)

Places == Paths \cup {Nowhere}

\* Where a move takes a path: what is at the new path is overwritten.
Step(e, p) ==
  IF e.kind # "moved" THEN p
  ELSE IF p = e.from THEN e.to ELSE IF p = e.to THEN Nowhere ELSE p

IsTouched(e, p) == e.kind = "moved" /\ p \in {e.from, e.to}

\* f[n][p] is where the events after the first n take what is at p.
Replay(f) ==
  /\ f \in [0..Len(events) -> [Places -> Places]]
  /\ \A p \in Places : f[Len(events)][p] = p
  /\ \A n \in 1..Len(events) : \A p \in Places : f[n - 1][p] = f[n][Step(events[n], p)]
  /\ \A n \in 0..Len(events) : f[n][Nowhere] = Nowhere
  /\ \A n \in 0..Len(events) : \A p, q \in Places : f[n][p] = f[n][q] /\ f[n][p] # Nowhere => p = q
  /\ \A n \in 0..Len(events) : \A p \in Paths :
       f[n][p] # p => \E m \in (n + 1)..Len(events) : IsTouched(events[m], p)
  /\ \A n \in 0..Len(events) : \A p \in Paths :
       f[n][p] \notin {p, Nowhere} =>
         \E m \in (n + 1)..Len(events) : events[m].kind = "moved" /\ f[m][events[m].to] = f[n][p]

\* The paths that the job has yet to look at. If a move of one of them is under
\* way, the job will look ahead of it (and "aheadOfEvents" is missed).
Left == job.paths \cup (IF looked = NoLook THEN {} ELSE {looked.path})
WillMiss == \E p \in Left : \E n \in 1..Len(events) : IsTouched(events[n], p)

\* Something will come to the file that reads what kind says.
JobsFor(kind) == {kind, "unindexed"} \cup (IF kind = "new" THEN {"firstRun"} ELSE {})
Due(f, kind, i) ==
  \/ daemon = "off"
  \/ \E n \in 1..Len(events) : events[n].kind = kind /\ f[n][events[n].path] = disk[i].path
  \/ \E l \in lists : l.kind = kind /\ f[0][l.path] = disk[i].path
  \/ job.kind \in JobsFor(kind) /\ disk[i].path \in Left

\* A file that moved while no daemon was there is found by its ctime.
Unchecked(i) ==
  /\ daemon = "off" \/ (job.kind = "unindexed" /\ disk[i].path \in Left)
  /\ disk[i] # Absent /\ doc[i].ctime # disk[i].ctime

PathIsRight(f, i) == hasDocument(i) => f[0][doc[i].path] = disk[i].path \/ Unchecked(i)

\* A move of a file that has no document makes it a new file.
WillBeAdded(f, i) ==
  ~hasDocument(i) /\ disk[i] # Absent =>
    \/ Due(f, "new", i)
    \/ \E n \in 1..Len(events) : events[n].kind = "moved" /\ f[n][events[n].to] = disk[i].path

\* The contents are not those of the file, or will not be.
Stale(i) ==
  \/ ~Read(i)
  \/ extracted # Nothing /\ extracted.file = i /\ extracted.read /\ i \in marked /\ extracted.content # disk[i].content

WillBeRead(f, i) ==
  hasDocument(i) /\ disk[i] # Absent =>
    /\ Stale(i) => Due(f, "modified", i)
    /\ doc[i].xattr # disk[i].xattr => Due(f, "xattr", i)

IsFollowed(f, i) == PathIsRight(f, i) /\ WillBeAdded(f, i) /\ WillBeRead(f, i)

\* Unless something was missed, or is going to be, the events bring each file to
\* its document, and what is extracted is the document's file.
FollowsInv ==
  missed = {} /\ ~WillMiss =>
    /\ extracted # Nothing => extracted.same
    /\ \E f : Replay(f) /\ \A i \in Files : IsFollowed(f, i)

\* A path is that of one file.
OnePathEach == \A i, j \in Files : disk[i].path = disk[j].path /\ disk[i] # Absent => i = j

LEMMA StepIs ==
  ASSUME Bounds, NEW e \in Items \cup Moves
  PROVE  /\ \A p \in Places : Step(e, p) \in Places /\ (~IsTouched(e, p) => Step(e, p) = p)
         /\ Step(e, Nowhere) = Nowhere
         /\ \A p, q \in Places : Step(e, p) = Step(e, q) /\ Step(e, p) # Nowhere => p = q
         /\ e.kind = "moved" => \A p \in Places :
              Step(e, p) \in {p, Nowhere} \/ (p = e.from /\ Step(e, p) = e.to)
         /\ \A p \in Paths : IsTouched(e, p) => e.kind = "moved"
<1>1. CASE e.kind # "moved"
  BY <1>1 DEF Step, IsTouched
<1>2. CASE e.kind = "moved"
  <2>1. e.from \in Paths /\ e.to \in Places
    BY <1>2, EventKinds DEF Places
  <2> QED BY <1>2, <2>1 DEF Step, IsTouched, Places, Bounds
<1> QED BY <1>1, <1>2

\* What is known of a replay.
LEMMA ReplayIs ==
  ASSUME Bounds, Types, NEW f, Replay(f)
  PROVE  /\ Len(events) \in Nat /\ \A n \in 1..Len(events) : events[n] \in Items \cup Moves
         /\ \A n \in 0..Len(events) : \A p \in Places : f[n][p] \in Places
         /\ \A n \in 0..Len(events) : f[n] \in [Places -> Places]
         /\ 0 \in 0..Len(events) /\ Nowhere \in Places /\ Paths \subseteq Places
         /\ \A p \in Places : f[Len(events)][p] = p
         /\ \A n \in 0..Len(events) : f[n][Nowhere] = Nowhere
<1>1. Len(events) \in Nat /\ \A n \in 1..Len(events) : events[n] \in Items \cup Moves
  BY SeqFacts DEF Types
<1>2. f \in [0..Len(events) -> [Places -> Places]]
  BY DEF Replay
<1>3. \A n \in 0..Len(events) : f[n] \in [Places -> Places]
  BY <1>2
<1>4. \A n \in 0..Len(events) : \A p \in Places : f[n][p] \in Places
  BY <1>3
<1>5. 0 \in 0..Len(events) /\ Nowhere \in Places /\ Paths \subseteq Places
  BY <1>1 DEF Places
<1>6. /\ \A p \in Places : f[Len(events)][p] = p
      /\ \A n \in 0..Len(events) : f[n][Nowhere] = Nowhere
  BY DEF Replay
<1> QED BY <1>1, <1>3, <1>4, <1>5, <1>6

LEMMA ReplayStays ==
  ASSUME NEW f, Replay(f), events' = events PROVE Replay(f)'
BY DEF Replay, Step, IsTouched

\* The events after the new one take nothing anywhere.
LEMMA Appended ==
  ASSUME Bounds, Types, NEW f, Replay(f), NEW e \in Items \cup Moves, events' = Append(events, e)
  PROVE  \E g : /\ Replay(g)'
                /\ \A n \in 0..Len(events) : \A p \in Places : g[n][p] = Step(e, f[n][p])
                /\ \A p \in Places : g[Len(events) + 1][p] = p
<1> DEFINE N == Len(events)
<1>0. PICK g : g = [n \in 0..(N + 1) |-> IF n = N + 1 THEN [p \in Places |-> p] ELSE [p \in Places |-> Step(e, f[n][p])]]
  OBVIOUS
<1>1. /\ N \in Nat /\ \A n \in 1..N : events[n] \in Items \cup Moves
      /\ \A n \in 0..N : \A p \in Places : f[n][p] \in Places
      /\ Nowhere \in Places /\ Paths \subseteq Places
  BY ReplayIs
<1>2. /\ Len(events') = N + 1 /\ \A n \in 1..N : events'[n] = events[n]
      /\ events'[N + 1] = e
  BY Sent DEF Types
<1>3. \A n \in 0..N : g[n] = [p \in Places |-> Step(e, f[n][p])]
  BY <1>0, <1>1
<1>4. g[N + 1] = [p \in Places |-> p]
  BY <1>0, <1>1
<1>5. /\ \A n \in 0..N : \A p \in Places : g[n][p] = Step(e, f[n][p])
      /\ \A p \in Places : g[N + 1][p] = p
  BY <1>3, <1>4
<1>6. \A p \in Places : Step(e, p) \in Places
  BY StepIs
<1>7. g \in [0..(N + 1) -> [Places -> Places]]
  <2>1. \A n \in 0..(N + 1) : (IF n = N + 1 THEN [p \in Places |-> p] ELSE [p \in Places |-> Step(e, f[n][p])]) \in [Places -> Places]
    BY <1>1, <1>6
  <2> QED BY <1>0, <2>1
<1>8. ASSUME NEW n \in 1..(N + 1), NEW p \in Places PROVE g[n - 1][p] = g[n][Step(events'[n], p)]
  <2>1. CASE n = N + 1
    <3>1. f[N][p] = p
      BY DEF Replay
    <3> QED BY <1>1, <1>2, <1>5, <1>6, <2>1, <3>1
  <2>2. CASE n \in 1..N
    <3>1. f[n - 1][p] = f[n][Step(events[n], p)]
      BY <2>2 DEF Replay
    <3>2. Step(events[n], p) \in Places /\ events'[n] = events[n]
      BY <1>1, <1>2, <2>2, StepIs
    <3>3. g[n - 1][p] = Step(e, f[n - 1][p])
      BY <1>1, <1>5, <2>2
    <3>4. g[n][Step(events[n], p)] = Step(e, f[n][Step(events[n], p)])
      BY <1>1, <1>5, <2>2, <3>2
    <3> QED BY <3>1, <3>2, <3>3, <3>4
  <2> QED BY <1>1, <2>1, <2>2
<1>9. \A n \in 0..(N + 1) : g[n][Nowhere] = Nowhere
  <2>1. \A n \in 0..N : f[n][Nowhere] = Nowhere
    BY DEF Replay
  <2> QED BY <1>1, <1>5, <2>1, StepIs
<1>10. ASSUME NEW n \in 0..(N + 1), NEW p \in Places, NEW q \in Places, g[n][p] = g[n][q], g[n][p] # Nowhere PROVE p = q
  <2>1. CASE n = N + 1
    BY <1>5, <1>10, <2>1
  <2>2. CASE n \in 0..N
    <3>1. Step(e, f[n][p]) = Step(e, f[n][q]) /\ Step(e, f[n][p]) # Nowhere
      BY <1>5, <1>10, <2>2
    <3>2. f[n][p] \in Places /\ f[n][q] \in Places
      BY <1>1, <2>2
    <3>3. f[n][p] = f[n][q] /\ f[n][p] # Nowhere
      BY <3>1, <3>2, StepIs
    <3> QED BY <2>2, <3>3 DEF Replay
  <2> QED BY <1>1, <2>1, <2>2
<1>11. ASSUME NEW n \in 0..(N + 1), NEW p \in Paths, g[n][p] # p PROVE \E m \in (n + 1)..(N + 1) : IsTouched(events'[m], p)
  <2>1. p \in Places /\ n \in 0..N
    BY <1>1, <1>5, <1>11
  <2>2. CASE f[n][p] # p
    <3>1. PICK m \in (n + 1)..N : IsTouched(events[m], p)
      BY <2>1, <2>2 DEF Replay
    <3>2. m \in (n + 1)..(N + 1) /\ m \in 1..N
      BY <1>1, <2>1
    <3> QED BY <1>2, <3>1, <3>2
  <2>3. CASE f[n][p] = p
    <3>1. Step(e, p) # p
      BY <1>5, <1>11, <2>1, <2>3
    <3>2. IsTouched(e, p)
      BY <2>1, <3>1, StepIs
    <3>3. N + 1 \in (n + 1)..(N + 1)
      BY <1>1, <2>1
    <3> QED BY <1>2, <3>2, <3>3
  <2> QED BY <2>2, <2>3
<1>12. ASSUME NEW n \in 0..(N + 1), NEW p \in Paths, g[n][p] \notin {p, Nowhere}
       PROVE  \E m \in (n + 1)..(N + 1) : events'[m].kind = "moved" /\ g[m][events'[m].to] = g[n][p]
  <2>1. p \in Places /\ n \in 0..N /\ f[n][p] \in Places
    BY <1>1, <1>5, <1>12
  <2>2. g[n][p] = Step(e, f[n][p])
    BY <1>5, <2>1
  <2>3. CASE g[n][p] # f[n][p]
    <3>1. e.kind = "moved" /\ Step(e, f[n][p]) = e.to
      <4>1. IsTouched(e, f[n][p])
        BY <2>1, <2>2, <2>3, StepIs
      <4> QED BY <1>12, <2>1, <2>2, <2>3, <4>1, StepIs DEF IsTouched
    <3>2. e.to \in Places
      BY <2>1, <3>1, StepIs
    <3>3. N + 1 \in (n + 1)..(N + 1)
      BY <1>1, <2>1
    <3> QED BY <1>2, <1>5, <2>2, <3>1, <3>2, <3>3
  <2>4. CASE g[n][p] = f[n][p]
    <3>1. PICK m \in (n + 1)..N : events[m].kind = "moved" /\ f[m][events[m].to] = f[n][p]
      BY <1>12, <2>1, <2>4 DEF Replay
    <3>2. m \in (n + 1)..(N + 1) /\ m \in 1..N /\ m \in 0..N
      BY <1>1, <2>1
    <3>3. events[m].to \in Places
      BY <1>1, <3>1, <3>2, EventKinds DEF Places
    <3>4. g[m][events[m].to] = Step(e, f[n][p])
      BY <1>5, <3>1, <3>2, <3>3
    <3> QED BY <1>2, <2>2, <3>1, <3>2, <3>4
  <2> QED BY <2>3, <2>4
<1>13. Replay(g)'
  <2>1. N + 1 = Len(events')
    BY <1>2
  <2>2. /\ g \in [0..Len(events') -> [Places -> Places]]
        /\ \A p \in Places : g[Len(events')][p] = p
        /\ \A n \in 0..Len(events') : g[n][Nowhere] = Nowhere
    BY <1>5, <1>7, <1>9, <2>1
  <2>3. \A n \in 1..Len(events') : \A p \in Places : g[n - 1][p] = g[n][Step(events'[n], p)]
    BY <1>8, <2>1
  <2>4. \A n \in 0..Len(events') : \A p, q \in Places : g[n][p] = g[n][q] /\ g[n][p] # Nowhere => p = q
    BY <1>10, <2>1
  <2>5. \A n \in 0..Len(events') : \A p \in Paths :
          g[n][p] # p => \E m \in (n + 1)..Len(events') : IsTouched(events'[m], p)
    BY <1>11, <2>1
  <2>6. \A n \in 0..Len(events') : \A p \in Paths :
          g[n][p] \notin {p, Nowhere} =>
            \E m \in (n + 1)..Len(events') : events'[m].kind = "moved" /\ g[m][events'[m].to] = g[n][p]
    BY <1>12, <2>1
  <2> HIDE DEF N
  <2> QED BY <2>2, <2>3, <2>4, <2>5, <2>6 DEF Replay
<1> QED BY <1>5, <1>13

\* The first event has been heard of.
LEMMA Popped ==
  ASSUME Bounds, Types, NEW f, Replay(f), events # <<>>, events' = Tail(events)
  PROVE  \E g : /\ Replay(g)' /\ Len(events') = Len(events) - 1
                /\ \A n \in 0..(Len(events) - 1) : g[n] = f[n + 1]
<1>1. /\ Len(events) \in Nat \ {0} /\ Len(events') = Len(events) - 1
      /\ \A n \in 1..(Len(events) - 1) : events'[n] = events[n + 1]
  BY Received DEF Types
<1>2. PICK N : N = Len(events)
  OBVIOUS
<1>3. PICK g : g = [n \in 0..(N - 1) |-> f[n + 1]]
  OBVIOUS
<1>4. N \in Nat \ {0} /\ Len(events') = N - 1 /\ \A n \in 1..(N - 1) : events'[n] = events[n + 1]
  BY <1>1, <1>2
<1>5. /\ \A n \in 0..(N - 1) : g[n] = f[n + 1]
      /\ \A n \in 0..(N - 1) : n + 1 \in 0..N /\ n + 1 \in 1..N
  BY <1>3, <1>4
<1>6. Replay(g)'
  <2>1. f \in [0..N -> [Places -> Places]]
    BY <1>2 DEF Replay
  <2>2. g \in [0..(N - 1) -> [Places -> Places]]
    BY <1>3, <1>5, <2>1
  <2>3. \A p \in Places : g[N - 1][p] = p
    <3>1. g[N - 1] = f[N]
      BY <1>4, <1>5
    <3> QED BY <1>2, <3>1 DEF Replay
  <2>4. ASSUME NEW n \in 1..(N - 1), NEW p \in Places PROVE g[n - 1][p] = g[n][Step(events'[n], p)]
    <3>1. g[n - 1] = f[n] /\ g[n] = f[n + 1] /\ n + 1 \in 1..N /\ (n + 1) - 1 = n
      BY <1>4, <1>5
    <3>2. f[(n + 1) - 1][p] = f[n + 1][Step(events[n + 1], p)]
      BY <1>2, <3>1 DEF Replay
    <3> QED BY <1>4, <3>1, <3>2
  <2>5. \A n \in 0..(N - 1) : g[n][Nowhere] = Nowhere
    BY <1>2, <1>5 DEF Replay
  <2>6. ASSUME NEW n \in 0..(N - 1), NEW p \in Places, NEW q \in Places, g[n][p] = g[n][q], g[n][p] # Nowhere PROVE p = q
    BY <1>2, <1>5, <2>6 DEF Replay
  <2>7. ASSUME NEW n \in 0..(N - 1), NEW p \in Paths, g[n][p] # p PROVE \E m \in (n + 1)..(N - 1) : IsTouched(events'[m], p)
    <3>1. PICK m \in ((n + 1) + 1)..N : IsTouched(events[m], p)
      BY <1>2, <1>5, <2>7 DEF Replay
    <3>2. m - 1 \in (n + 1)..(N - 1) /\ m - 1 \in 1..(N - 1) /\ (m - 1) + 1 = m
      BY <1>4
    <3> QED BY <1>4, <3>1, <3>2
  <2>8. ASSUME NEW n \in 0..(N - 1), NEW p \in Paths, g[n][p] \notin {p, Nowhere}
        PROVE  \E m \in (n + 1)..(N - 1) : events'[m].kind = "moved" /\ g[m][events'[m].to] = g[n][p]
    <3>1. PICK m \in ((n + 1) + 1)..N : events[m].kind = "moved" /\ f[m][events[m].to] = f[n + 1][p]
      BY <1>2, <1>5, <2>8 DEF Replay
    <3>2. m - 1 \in (n + 1)..(N - 1) /\ m - 1 \in 1..(N - 1) /\ m - 1 \in 0..(N - 1) /\ (m - 1) + 1 = m
      BY <1>4
    <3>3. g[m - 1] = f[m] /\ g[n] = f[n + 1] /\ events'[m - 1] = events[m]
      BY <1>4, <1>5, <3>2
    <3> QED BY <3>1, <3>2, <3>3
  <2>9. N - 1 = Len(events')
    BY <1>4
  <2> DEFINE M == Len(events')
  <2>10. /\ g \in [0..M -> [Places -> Places]] /\ \A p \in Places : g[M][p] = p
         /\ \A n \in 0..M : g[n][Nowhere] = Nowhere
    BY <2>2, <2>3, <2>5, <2>9
  <2>11. \A n \in 1..M : \A p \in Places : g[n - 1][p] = g[n][Step(events'[n], p)]
    BY <2>4, <2>9
  <2>12. \A n \in 0..M : \A p, q \in Places : g[n][p] = g[n][q] /\ g[n][p] # Nowhere => p = q
    BY <2>6, <2>9
  <2>13. \A n \in 0..M : \A p \in Paths : g[n][p] # p => \E m \in (n + 1)..M : IsTouched(events'[m], p)
    BY <2>7, <2>9
  <2>14. \A n \in 0..M : \A p \in Paths :
           g[n][p] \notin {p, Nowhere} => \E m \in (n + 1)..M : events'[m].kind = "moved" /\ g[m][events'[m].to] = g[n][p]
    BY <2>8, <2>9
  <2> QED BY <2>10, <2>11, <2>12, <2>13, <2>14 DEF Replay
<1> QED BY <1>1, <1>2, <1>5, <1>6

LEMMA Emptied ==
  ASSUME events' = <<>> PROVE \E g : Replay(g)' /\ \A p \in Places : g[0][p] = p
<1>1. PICK g : g = [n \in {0} |-> [p \in Places |-> p]]
  OBVIOUS
<1>2. Len(events') = 0 /\ 0..0 = {0} /\ 1..0 = {} /\ g[0] = [p \in Places |-> p] /\ Nowhere \in Places /\ Paths \subseteq Places
  BY <1>1 DEF Places
<1>3. \A p \in Places : g[0][p] = p
  BY <1>2
<1>4. g \in [0..Len(events') -> [Places -> Places]]
  BY <1>1, <1>2
<1>5. Replay(g)'
  BY <1>2, <1>3, <1>4 DEF Replay
<1> QED BY <1>3, <1>5

\* No event takes anything from a path or to it.
LEMMA Untouched ==
  ASSUME Bounds, Types, NEW f, Replay(f), NEW p \in Paths, \A n \in 1..Len(events) : ~IsTouched(events[n], p)
  PROVE  \A n \in 0..Len(events) : f[n][p] = p
<1>1. Len(events) \in Nat
  BY ReplayIs
<1>2. \A n \in 0..Len(events) : (n + 1)..Len(events) \subseteq 1..Len(events)
  BY <1>1
<1> QED BY <1>2 DEF Replay

LEMMA NoneUnderWay ==
  ASSUME Bounds, Types, NEW f, Replay(f), \A n \in 1..Len(events) : events[n].kind # "moved"
  PROVE  \A n \in 0..Len(events) : \A p \in Places : f[n][p] = p
<1>1. \A n \in 0..Len(events) : f[n][Nowhere] = Nowhere
  BY ReplayIs
<1>2. \A p \in Paths : \A n \in 0..Len(events) : f[n][p] = p
  BY Untouched DEF IsTouched
<1> QED BY <1>1, <1>2 DEF Places

\* What Missed asks of a path.
LEMMA MissedIs ==
  ASSUME Types, NEW p, NEW causes, Missed(p, causes), missed' = {}
  PROVE  causes = {} /\ \A n \in 1..Len(events) : ~IsTouched(events[n], p)
<1> DEFINE hasMoves == \E n \in DOMAIN events : events[n].kind = "moved" /\ p \in {events[n].from, events[n].to}
<1>1. causes = {} /\ ~hasMoves
  BY DEF Missed
<1>2. DOMAIN events = 1..Len(events)
  BY SeqFacts DEF Types
<1> QED BY <1>1, <1>2 DEF IsTouched

\* What lies ahead of a job stays there until the job looks at it.
LEMMA WillMissStays ==
  ASSUME Bounds, Types, Turns, [Next]_vars, missed' = {}, ~WillMiss' PROVE ~WillMiss
<1> USE DEF files, index, indexers
<1> SUFFICES ASSUME NEW p \in Left, NEW n \in 1..Len(events), IsTouched(events[n], p) PROVE FALSE
  BY DEF WillMiss
<1>1. /\ p \in Paths /\ events \in Seq(Items \cup Moves) /\ events[n].kind = "moved" /\ n \in 1..Len(events)
      /\ job # NoJob /\ daemon = "on"
  <2>1. p \in Paths
    BY DEF Left, Types, Looks
  <2>2. job # NoJob
    BY DEF Left, Turns, NoJob
  <2>3. daemon # "off"
    BY <2>2 DEF Turns
  <2> QED BY <2>1, <2>2, <2>3 DEF Types, IsTouched
<1>2. p \notin Left' \/ \A m \in 1..Len(events') : ~IsTouched(events'[m], p)
  BY DEF WillMiss, IsTouched
<1>3. CASE events' = events
  <2>1. p \notin Left'
    BY <1>2, <1>3
  <2>2. \A q, causes : Missed(q, causes) => q # p
    BY <1>1, MissedIs
  <2>3. \/ p \in Left' \/ FileSystem \/ start \/ stop \/ followMove \/ Contents \/ Tools \/ schedule \/ indexFile
    <3>1. ASSUME NEW q \in Paths, newFile(q) \/ lookFirst(q) \/ attributes(q) PROVE p \in Left'
      <4>1. q # p
        BY <2>2, <3>1 DEF newFile, lookFirst, attributes
      <4>2. looked = NoLook /\ job' = [job EXCEPT !.paths = @ \ {q}]
        BY <3>1 DEF newFile, lookFirst, attributes, Running, Done
      <4>3. p \in job'.paths
        BY <4>1, <4>2 DEF Left, Types
      <4> QED BY <4>3 DEF Left
    <3>2. CASE modifiedFile \/ unindexedFile
      <4>1. looked.path # p
        BY <2>2, <3>2 DEF modifiedFile, unindexedFile
      <4>2. p \in job.paths /\ job' = job
        BY <3>2, <4>1 DEF Left, modifiedFile, unindexedFile
      <4> QED BY <4>2 DEF Left
    <3>3. ~finish
      BY DEF finish, Left
    <3>4. CASE UNCHANGED vars
      BY <3>4 DEF vars, Left
    <3> QED BY <3>1, <3>2, <3>3, <3>4 DEF Next, Jobs
  <2>4. ~(start \/ stop \/ followMove \/ Contents \/ Tools \/ schedule)
    BY <1>1 DEF start, stop, followMove, Contents, Tools, Tool, indexFileNow, clearEntryNow, schedule, extract, readContents,
       storeContents, Turns
  <2>5. CASE FileSystem
    <3>1. UNCHANGED <<job, looked>>
      BY <2>5 DEF FileSystem, tick, write, setAttributes, remove, create, rename, Changed
    <3> QED BY <2>1, <3>1 DEF Left
  <2>6. CASE indexFile
    BY <2>1, <2>6 DEF indexFile, Left
  <2> QED BY <2>1, <2>3, <2>4, <2>5, <2>6
<1>4. CASE events' # events
  <2>1. FileSystem \/ indexFile
    <3>1. ~(start \/ stop \/ followMove)
      BY <1>1 DEF start, stop, followMove
    <3>2. ~(Jobs \/ Contents \/ Tools \/ UNCHANGED vars)
      BY <1>4 DEF Jobs, Contents, Tools, Tool, indexFileNow, clearEntryNow, schedule, extract, readContents,
         storeContents, newFile, lookFirst, attributes, modifiedFile, unindexedFile, finish, JobStep, vars
    <3> QED BY <3>1, <3>2 DEF Next
  <2>2. UNCHANGED <<job, looked>>
    BY <2>1 DEF FileSystem, tick, write, setAttributes, remove, create, rename, Changed, indexFile
  <2>3. p \in Left'
    BY <2>2 DEF Left
  <2>4. CASE indexFile
    <3>1. events # <<>> /\ Head(events).kind # "moved" /\ events' = Tail(events)
      BY <2>4 DEF indexFile
    <3>2. n # 1 /\ Len(events) \in Nat
      BY <1>1, <3>1, Received
    <3>3. n - 1 \in 1..(Len(events) - 1) /\ (n - 1) + 1 = n
      BY <3>2
    <3>4. n - 1 \in 1..Len(events') /\ events'[n - 1] = events[n]
      BY <1>1, <3>1, <3>3, Received
    <3> QED BY <1>2, <2>3, <3>4
  <2>5. CASE FileSystem
    <3>1. \E e : events' = Append(events, e) /\ e \in Items \cup Moves
      <4>1. \A i \in Files : disk[i] # Absent => disk[i].path \in Paths
        BY DEF Types, FileInfo
      <4>2. \A e : Tell(e) => events' = Append(events, e)
        BY <1>1 DEF Tell
      <4>3. CASE tick
        BY <1>4, <4>3 DEF tick
      <4>4. ASSUME NEW i \in Files, NEW c, write(i, c) \/ setAttributes(i) \/ remove(i) PROVE <3>1!:
        BY <4>1, <4>2, <4>4, ItemsAreTyped DEF write, setAttributes, remove, Kinds
      <4>5. ASSUME NEW i \in Files, NEW q \in Paths, create(i, q) \/ rename(i, q) PROVE <3>1!:
        BY <4>1, <4>2, <4>5, ItemsAreTyped DEF create, rename, Kinds
      <4> QED BY <2>5, <4>3, <4>4, <4>5 DEF FileSystem
    <3>2. n \in 1..Len(events') /\ events'[n] = events[n]
      BY <1>1, <3>1, Sent
    <3> QED BY <1>2, <2>3, <3>2
  <2> QED BY <2>1, <2>4, <2>5
<1> QED BY <1>3, <1>4

LEMMA OnePathNext ==
  ASSUME Bounds, Types, OnePathEach, [Next]_vars PROVE OnePathEach'
<1> USE DEF files, index, indexers
<1>1. /\ disk \in [Files -> FileInfo] /\ \A i \in Files : disk[i].path = Nowhere <=> disk[i] = Absent
      /\ Nowhere \notin Paths /\ Absent.path = Nowhere
  BY DEF Types, Bounds, Absent
<1>2. CASE disk' = disk
  BY <1>2 DEF OnePathEach
<1>3. ASSUME NEW i \in Files, NEW c, write(i, c) \/ setAttributes(i) PROVE OnePathEach'
  <2>1. \A j \in Files : disk'[j].path = disk[j].path /\ (j # i => disk'[j] = disk[j])
    BY <1>1, <1>3, Infos DEF write, setAttributes, FileInfo
  <2>2. disk[i] # Absent
    BY <1>3 DEF write, setAttributes
  <2> QED BY <1>1, <2>1, <2>2 DEF OnePathEach
<1>4. ASSUME NEW i \in Files, NEW p \in Paths, create(i, p) PROVE OnePathEach'
  <2>1. \A j \in Files : disk[j].path # p
    BY <1>4 DEF create, at
  <2>2. \A j \in Files : disk'[j] = disk[j] \/ (j = i /\ disk'[j].path = p)
    BY <1>1, <1>4 DEF create
  <2> QED BY <1>1, <2>1, <2>2 DEF OnePathEach
<1>5. ASSUME NEW i \in Files, NEW p \in Paths, rename(i, p) PROVE OnePathEach'
  <2>1. \A j \in Files : IF j = i THEN disk'[j].path = p ELSE disk'[j] = Absent \/ (disk'[j] = disk[j] /\ disk[j].path # p)
    BY <1>1, <1>5 DEF rename, FileInfo
  <2> QED BY <1>1, <2>1 DEF OnePathEach
<1>6. ASSUME NEW i \in Files, remove(i) PROVE OnePathEach'
  BY <1>1, <1>6 DEF remove, OnePathEach
<1>7. FileSystem \/ disk' = disk
  BY DEF Next, Jobs, Contents, Tools, Tool, JobStep, schedule, modifiedFile, unindexedFile, finish, newFile, lookFirst,
     attributes, extract, readContents, storeContents, indexFileNow, clearEntryNow, start, stop, indexFile, followMove,
     vars, files
<1>8. tick => disk' = disk
  BY DEF tick
<1> QED BY <1>2, <1>3, <1>4, <1>5, <1>6, <1>7, <1>8 DEF FileSystem

\* A file that the job does not look at now.
LEMMA NotLookedAt ==
  ASSUME NEW f, NEW p \in Paths, NEW i \in Files, IsFollowed(f, i), disk[i].path # p,
         UNCHANGED <<disk, events, lists, daemon, extracted>>, extracted = Nothing,
         job'.kind = job.kind, Left \ {p} \subseteq Left', doc'[i] = doc[i], i \in marked' <=> i \in marked
  PROVE  IsFollowed(f, i)'
<1>1. \A kind : Due(f, kind, i) => Due(f, kind, i)'
  BY DEF Due
<1>2. Unchecked(i) => Unchecked(i)'
  BY DEF Unchecked
<1>3. (hasDocument(i)' <=> hasDocument(i)) /\ (Read(i)' <=> Read(i)) /\ (Stale(i)' <=> Stale(i))
  BY DEF hasDocument, Read, Stale
<1>4. PathIsRight(f, i)'
  BY <1>2, <1>3 DEF IsFollowed, PathIsRight
<1>5. WillBeAdded(f, i)'
  BY <1>1, <1>3 DEF IsFollowed, WillBeAdded
<1>6. WillBeRead(f, i)'
  BY <1>1, <1>3 DEF IsFollowed, WillBeRead
<1> QED BY <1>4, <1>5, <1>6 DEF IsFollowed

\* A file that was read.
LEMMA IsRead ==
  ASSUME Bounds, NEW f, NEW p \in Paths, NEW i \in Files, f[0][p] = p, disk'[i].path = p, doc'[i].path = p,
         doc'[i].xattr = disk'[i].xattr, Read(i)', extracted' = Nothing \/ i \notin marked'
  PROVE  IsFollowed(f, i)'
<1>1. hasDocument(i)' /\ ~Stale(i)'
  BY DEF hasDocument, Stale, Bounds
<1> QED BY <1>1 DEF IsFollowed, PathIsRight, WillBeAdded, WillBeRead

\* There is one file at a path.
LEMMA OnlyFile ==
  ASSUME Types, OnePathEach, Bounds, NEW p \in Paths, NEW i \in at(p)
  PROVE  /\ i \in Files /\ disk[i].path = p /\ disk[i] # Absent /\ at(p) = {i}
         /\ \A j \in Files : j # i => disk[j].path # p
BY DEF at, OnePathEach, Bounds, Absent

LEMMA BasicIs ==
  ASSUME Types, NEW i \in Files, NEW p \in Paths, LookedBefore(i), disk[i] # Absent,
         doc' = [doc EXCEPT ![i] = basic(i, p)], marked' = (IF contentIndexing(i) THEN marked \cup {i} ELSE marked), disk' = disk
  PROVE  doc'[i].path = p /\ doc'[i].xattr = disk'[i].xattr /\ Read(i)' /\ i \in marked'
BY DEF Types, basic, Read, contentIndexing, LookedBefore

\* A job looks at a path, and at the file there.
LEMMA FollowsLook ==
  ASSUME Bounds, Types, Turns, OnePathEach, TimesInv, missed = {}, NEW f, Replay(f), \A i \in Files : IsFollowed(f, i),
         missed' = {}, NEW p \in Paths, newFile(p) \/ lookFirst(p) \/ attributes(p)
  PROVE  extracted' = Nothing /\ Replay(f)' /\ \A i \in Files : IsFollowed(f, i)'
<1> USE DEF files, index
<1>1. /\ UNCHANGED <<disk, events, lists, daemon, extracted>> /\ looked = NoLook
      /\ job # NoJob /\ job' = [job EXCEPT !.paths = @ \ {p}]
  BY DEF newFile, lookFirst, attributes, JobStep, Running, Done, NoJob
<1>2. /\ extracted = Nothing /\ job'.kind = job.kind /\ Left \ {p} \subseteq Left'
      /\ \A n \in 1..Len(events) : ~IsTouched(events[n], p)
  <2>1. \E causes : Missed(p, causes)
    BY DEF newFile, lookFirst, attributes
  <2>2. extracted = Nothing
    BY <1>1 DEF Turns
  <2>3. job'.kind = job.kind /\ job'.paths = job.paths \ {p}
    BY <1>1 DEF Types
  <2>4. Left \ {p} \subseteq Left'
    BY <1>1, <2>3 DEF Left
  <2> QED BY <2>1, <2>2, <2>3, <2>4, MissedIs
<1>3. Replay(f)' /\ extracted' = Nothing
  BY <1>1, <1>2, ReplayStays
<1>4. f[0][p] = p
  BY <1>2, Untouched, ReplayIs
<1>5. \A i \in Files : LookedBefore(i) /\ TimesAreRight(i)
  BY DEF TimesInv
<1>6. ASSUME NEW i \in Files, disk[i].path # p, doc'[i] = doc[i], i \in marked' <=> i \in marked PROVE IsFollowed(f, i)'
  BY <1>1, <1>2, <1>6, NotLookedAt
\* A file that was known and is left alone.
<1>7. ASSUME NEW i \in Files, UNCHANGED <<doc, marked>>, hasDocument(i), ~Unchecked(i),
             \/ Read(i) /\ doc[i].xattr = disk[i].xattr
             \/ job.kind \in {"new", "firstRun"}
      PROVE  IsFollowed(f, i)'
  <2>1. PathIsRight(f, i)'
    BY <1>1, <1>7 DEF IsFollowed, PathIsRight, hasDocument
  <2>2. WillBeAdded(f, i)'
    BY <1>7 DEF WillBeAdded, hasDocument
  <2>3. WillBeRead(f, i)'
    <3>1. CASE Read(i) /\ doc[i].xattr = disk[i].xattr
      BY <1>1, <1>2, <1>7, <3>1 DEF WillBeRead, Read, Stale
    <3>2. CASE job.kind \in {"new", "firstRun"}
      <4>1. \A kind \in {"modified", "xattr"} : Due(f, kind, i) => Due(f, kind, i)'
        BY <1>1, <3>2 DEF Due, JobsFor
      <4>2. (Stale(i)' => Stale(i)) /\ (hasDocument(i)' => hasDocument(i))
        BY <1>1, <1>7 DEF Stale, Read, hasDocument
      <4> QED BY <1>1, <1>7, <4>1, <4>2 DEF IsFollowed, WillBeRead
    <3> QED BY <1>7, <3>1, <3>2
  <2> QED BY <2>1, <2>2, <2>3 DEF IsFollowed
<1>8. CASE at(p) = {}
  <2>1. UNCHANGED <<doc, marked>>
    BY <1>8 DEF newFile, lookFirst, attributes
  <2>2. \A i \in Files : disk[i].path # p
    BY <1>8 DEF at
  <2> QED BY <1>3, <1>6, <2>1, <2>2
<1>9. ASSUME NEW i \in at(p) PROVE \A j \in Files : IsFollowed(f, j)'
  <2>1. i \in Files /\ disk[i].path = p /\ disk[i] # Absent /\ at(p) = {i} /\ \A j \in Files : j # i => disk[j].path # p
    BY <1>9, OnlyFile
  <2> SUFFICES (\A j \in Files : j # i => doc'[j] = doc[j] /\ (j \in marked' <=> j \in marked)) /\ IsFollowed(f, i)'
    BY <1>6, <2>1
  <2>2. doc \in [Files -> FileInfo]
    BY DEF Types
  <2>3. ASSUME UNCHANGED <<doc, marked>> PROVE \A j \in Files : j # i => doc'[j] = doc[j] /\ (j \in marked' <=> j \in marked)
    BY <2>3
  <2>4. ASSUME addDocument(i, p)
        PROVE  (\A j \in Files : j # i => doc'[j] = doc[j] /\ (j \in marked' <=> j \in marked)) /\ IsFollowed(f, i)'
    <3>1. doc'[i].path = p /\ doc'[i].xattr = disk'[i].xattr /\ Read(i)'
      BY <1>1, <1>5, <2>1, <2>4, BasicIs DEF addDocument
    <3>2. IsFollowed(f, i)'
      BY <1>1, <1>3, <1>4, <2>1, <3>1, IsRead
    <3> QED BY <2>2, <2>4, <3>2 DEF addDocument
  <2>5. CASE newFile(p)
    <3>1. CASE ~hasDocument(i)
      BY <2>1, <2>4, <2>5, <3>1 DEF newFile
    <3>2. CASE hasDocument(i)
      <4>1. UNCHANGED <<doc, marked>> /\ job.kind \in {"new", "firstRun"}
        BY <2>1, <2>5, <3>2 DEF newFile, Running
      <4>2. ~Unchecked(i)
        BY <1>1, <4>1 DEF Unchecked, Turns
      <4> QED BY <1>7, <2>1, <2>3, <3>2, <4>1, <4>2
    <3> QED BY <3>1, <3>2
  <2>6. CASE lookFirst(p)
    <3>1. UNCHANGED <<doc, marked>> /\ look(p)
      BY <1>9, <2>6 DEF lookFirst
    <3> DEFINE k == hasDocument(i)
               m == k => doc[i].mtime # disk[i].mtime
               c == k => doc[i].ctime # disk[i].ctime
    <3>2. CASE m \/ c
      <4>1. looked'.path = p /\ looked' # NoLook
        <5>1. looked' = [path |-> p, file |-> i, known |-> k, mTimeChanged |-> m, cTimeChanged |-> c]
          BY <2>1, <3>1, <3>2 DEF look
        <5> HIDE DEF k, m, c
        <5>2. looked'.path = p
          BY <5>1
        <5> QED BY <5>2 DEF NoLook, Bounds
      <4>2. Left \subseteq Left'
        BY <1>2, <4>1 DEF Left
      <4>3. \A kind : Due(f, kind, i) => Due(f, kind, i)'
        BY <1>1, <1>2, <4>2 DEF Due
      <4>4. Unchecked(i) => Unchecked(i)'
        BY <1>1, <1>2, <3>1, <4>2 DEF Unchecked
      <4>5. (hasDocument(i)' <=> hasDocument(i)) /\ (Stale(i)' <=> Stale(i))
        BY <1>1, <3>1 DEF hasDocument, Read, Stale
      <4>6. PathIsRight(f, i)'
        BY <1>1, <2>1, <3>1, <4>4, <4>5 DEF IsFollowed, PathIsRight
      <4>7. WillBeAdded(f, i)'
        BY <1>1, <2>1, <3>1, <4>3, <4>5 DEF IsFollowed, WillBeAdded
      <4>8. WillBeRead(f, i)'
        BY <1>1, <2>1, <3>1, <4>3, <4>5 DEF IsFollowed, WillBeRead
      <4> QED BY <2>3, <3>1, <4>6, <4>7, <4>8 DEF IsFollowed
    <3>3. CASE ~(m \/ c)
      <4>1. hasDocument(i) /\ doc[i].mtime = disk[i].mtime /\ doc[i].ctime = disk[i].ctime
        BY <3>3
      <4>2. Read(i) /\ doc[i].xattr = disk[i].xattr
        BY <1>5, <2>1, <4>1 DEF TimesAreRight
      <4>3. ~Unchecked(i)
        BY <1>1, <4>1 DEF Unchecked, Turns
      <4> QED BY <1>7, <2>1, <2>3, <3>1, <4>1, <4>2, <4>3
    <3> QED BY <3>2, <3>3
  <2>7. CASE attributes(p)
    <3>1. CASE hasDocument(i)
      <4>1. /\ Reread(i, p, {"xattr", "url"}) /\ marked' = marked
            /\ Missed(p, IF doc[i].mtime # disk[i].mtime THEN {"attributesFirst"} ELSE {})
        BY <2>1, <2>7, <3>1 DEF attributes
      <4>2. doc[i].mtime = disk[i].mtime
        BY <4>1, MissedIs
      <4>3. Read(i)
        BY <1>5, <2>1, <3>1, <4>2 DEF TimesAreRight
      <4>4. /\ doc'[i].path = p /\ doc'[i].xattr = disk[i].xattr /\ doc'[i].content = doc[i].content
            /\ \A j \in Files : j # i => doc'[j] = doc[j]
        BY <2>1, <2>2, <4>1, RereadIs
      <4>5. IsFollowed(f, i)'
        BY <1>1, <1>3, <1>4, <2>1, <4>1, <4>3, <4>4, IsRead DEF Read
      <4> QED BY <4>1, <4>4, <4>5
    <3>2. CASE ~hasDocument(i)
      <4>1. doc' = [doc EXCEPT ![i] = basic(i, p)] /\ marked' = marked \cup {i}
        BY <2>1, <2>7, <3>2 DEF attributes
      <4>2. doc'[i].path = p /\ doc'[i].xattr = disk[i].xattr /\ i \in marked' /\ \A j \in Files : j # i => doc'[j] = doc[j]
        BY <2>1, <2>2, <4>1 DEF basic
      <4>3. IsFollowed(f, i)'
        BY <1>1, <1>3, <1>4, <2>1, <4>2, IsRead DEF Read
      <4> QED BY <4>1, <4>2, <4>3
    <3> QED BY <3>1, <3>2
  <2> QED BY <2>5, <2>6, <2>7
<1> QED BY <1>3, <1>8, <1>9

\* The second look at a path.
LEMMA FollowsRead ==
  ASSUME Bounds, Types, Turns, OnePathEach, TimesInv, missed = {}, NEW f, Replay(f), \A i \in Files : IsFollowed(f, i),
         missed' = {}, modifiedFile \/ unindexedFile
  PROVE  extracted' = Nothing /\ Replay(f)' /\ \A i \in Files : IsFollowed(f, i)'
<1> USE DEF files, index
<1>1. /\ UNCHANGED <<disk, events, lists, daemon, extracted, job>> /\ looked # NoLook /\ looked' = NoLook
      /\ looked \in Looks /\ looked.cTimeChanged /\ job # NoJob
  BY DEF modifiedFile, unindexedFile, JobStep, Types, TimesInv, NoJob
<1>2. PICK p \in Paths : p = looked.path
  BY <1>1 DEF Looks
<1>3. /\ extracted = Nothing /\ Left \ {p} \subseteq Left'
      /\ at(p) = {looked.file} /\ \A n \in 1..Len(events) : ~IsTouched(events[n], p)
  <2>1. Missed(p, IF at(p) # {looked.file} THEN {"replaced"} ELSE {})
    BY <1>2 DEF modifiedFile, unindexedFile
  <2>2. extracted = Nothing
    BY <1>1 DEF Turns
  <2>3. Left \ {p} \subseteq Left'
    BY <1>1, <1>2 DEF Left
  <2> QED BY <2>1, <2>2, <2>3, MissedIs
<1>4. PICK i : i = looked.file
  OBVIOUS
<1>5. i \in Files /\ disk[i].path = p /\ disk[i] # Absent /\ at(p) = {i} /\ \A j \in Files : j # i => disk[j].path # p
  BY <1>3, <1>4, OnlyFile
<1>6. f[0][p] = p
  BY <1>3, Untouched, ReplayIs
<1>7. Replay(f)' /\ extracted' = Nothing
  BY <1>1, <1>3, ReplayStays
<1>8. LookedBefore(i) /\ TimesAreRight(i) /\ doc \in [Files -> FileInfo]
  BY <1>5 DEF TimesInv, Types
<1>9. SUFFICES (\A j \in Files : j # i => doc'[j] = doc[j] /\ (j \in marked' <=> j \in marked)) /\ IsFollowed(f, i)'
  <2>1. \A j \in Files : j # i => IsFollowed(f, j)'
    BY <1>1, <1>3, <1>5, <1>9, NotLookedAt
  <2> QED BY <1>7, <1>9, <2>1
<1>10. i \in marked' /\ doc'[i].path = p /\ doc'[i].xattr = disk[i].xattr /\ \A j \in Files : j # i => doc'[j] = doc[j] /\ (j \in marked' <=> j \in marked)
  <2>1. contentIndexing(i)
    BY <1>5, <1>8 DEF LookedBefore, contentIndexing
  <2>2. ASSUME Reread(i, p, {"xattr", "url"}), i \in marked', marked' \subseteq marked \cup {i}, marked \subseteq marked' PROVE <1>10!:
    BY <1>5, <1>8, <2>2, RereadIs
  <2>3. ASSUME addDocument(i, p) PROVE <1>10!:
    BY <1>5, <1>8, <2>1, <2>3 DEF addDocument, basic
  <2>4. CASE modifiedFile
    <3>1. IF looked.known /\ looked.file = i
          THEN /\ Reread(i, p, {"xattr", "url"})
               /\ marked' = IF contentIndexing(i) THEN marked \cup {i} ELSE marked
          ELSE addDocument(i, p)
      BY <1>1, <1>2, <1>5, <2>4 DEF modifiedFile
    <3> QED BY <2>1, <2>2, <2>3, <3>1
  <2>5. CASE unindexedFile
    <3>1. IF hasDocument(i)
          THEN /\ Reread(i, p, {"xattr", "url"})
               /\ marked' = IF looked.mTimeChanged \/ contentIndexing(i) THEN marked \cup {i} ELSE marked
          ELSE addDocument(i, p)
      BY <1>1, <1>2, <1>5, <2>5 DEF unindexedFile
    <3> QED BY <2>1, <2>2, <2>3, <3>1
  <2> QED BY <2>4, <2>5
<1>11. IsFollowed(f, i)'
  BY <1>1, <1>5, <1>6, <1>7, <1>10, IsRead DEF Read
<1> QED BY <1>10, <1>11

\* Nothing happens to the files and their documents, while what is due stays so.
LEMMA StaysDue ==
  ASSUME NEW f, NEW g, NEW i \in Files, IsFollowed(f, i), UNCHANGED <<disk, doc, marked>>, extracted' \in {extracted, Nothing},
         \A kind \in Kinds : Due(f, kind, i) => Due(g, kind, i)',
         Unchecked(i) => Unchecked(i)' \/ ~hasDocument(i),
         f[0][doc[i].path] = g[0][doc[i].path] \/ ~hasDocument(i),
         (\E n \in 1..Len(events) : events[n].kind = "moved" /\ f[n][events[n].to] = disk[i].path)
           => Due(g, "new", i)' \/ \E n \in 1..Len(events') : events'[n].kind = "moved" /\ g[n][events'[n].to] = disk[i].path
  PROVE  IsFollowed(g, i)'
<1>1. (hasDocument(i)' <=> hasDocument(i)) /\ (Stale(i)' => Stale(i))
  BY DEF hasDocument, Read, Stale
<1>2. PathIsRight(g, i)'
  BY <1>1 DEF IsFollowed, PathIsRight
<1>3. WillBeAdded(g, i)'
  <2>1. SUFFICES ASSUME ~hasDocument(i), disk[i] # Absent
                 PROVE  Due(g, "new", i)' \/ \E n \in 1..Len(events') : events'[n].kind = "moved" /\ g[n][events'[n].to] = disk[i].path
    BY <1>1, <2>1 DEF WillBeAdded
  <2>2. WillBeAdded(f, i)
    BY DEF IsFollowed
  <2> QED BY <2>1, <2>2 DEF WillBeAdded, Kinds
<1>4. WillBeRead(g, i)'
  <2>1. WillBeRead(f, i)
    BY DEF IsFollowed
  <2> QED BY <1>1, <2>1 DEF WillBeRead, Kinds
<1> QED BY <1>2, <1>3, <1>4 DEF IsFollowed

\* A job ends when it has looked at everything.
LEMMA FollowsFinish ==
  ASSUME Turns, NEW f, Replay(f), \A i \in Files : IsFollowed(f, i), finish
  PROVE  extracted' = Nothing /\ Replay(f)' /\ \A i \in Files : IsFollowed(f, i)'
<1> USE DEF files, index
<1>1. /\ UNCHANGED <<disk, doc, marked, events, lists, daemon, extracted>> /\ Left = {} /\ daemon # "off"
  BY DEF finish, JobStep, Left, Turns
<1>2. extracted = Nothing
  BY DEF finish, Turns
<1>3. \A i \in Files : ~Unchecked(i) /\ \A kind : Due(f, kind, i) => Due(f, kind, i)'
  BY <1>1 DEF Unchecked, Due
<1>4. \A i \in Files : IsFollowed(f, i)'
  BY <1>1, <1>3, StaysDue
<1> QED BY <1>1, <1>2, <1>4, ReplayStays

\* scheduleIndexing()
LEMMA FollowsSchedule ==
  ASSUME Bounds, Types, Turns, NEW f, Replay(f), \A i \in Files : IsFollowed(f, i), schedule
  PROVE  extracted' = Nothing /\ Replay(f)' /\ \A i \in Files : IsFollowed(f, i)'
<1> USE DEF files, index
<1>1. /\ UNCHANGED <<disk, doc, marked, events, daemon, extracted, looked>> /\ job = NoJob /\ extracted = Nothing
      /\ looked = NoLook /\ Left = {} /\ daemon # "off" /\ lists \subseteq Items
  BY DEF schedule, Turns, Left, NoJob, Types
<1>2. PICK kind : job' = [kind |-> kind, paths |-> {l.path : l \in {k \in lists : k.kind = kind}}]
                  /\ lists' = lists \ {k \in lists : k.kind = kind}
  BY DEF schedule
<1>3. \A n \in 0..Len(events) : \A p \in Places : f[n][p] = p
  <2>1. \A n \in 1..Len(events) : events[n].kind # "moved"
    BY SeqFacts DEF Types, schedule
  <2> QED BY <2>1, NoneUnderWay
<1>4. ASSUME NEW i \in Files, NEW k \in Kinds, Due(f, k, i) PROVE Due(f, k, i)'
  <2>1. CASE \E n \in 1..Len(events) : events[n].kind = k /\ f[n][events[n].path] = disk[i].path
    BY <1>1, <2>1 DEF Due
  <2>2. CASE \E l \in lists : l.kind = k /\ f[0][l.path] = disk[i].path
    <3>1. PICK l \in lists : l.kind = k /\ f[0][l.path] = disk[i].path
      BY <2>2
    <3>2. CASE k # kind
      <4>1. l \in lists'
        BY <1>2, <3>1, <3>2
      <4> QED BY <1>1, <3>1, <4>1 DEF Due
    <3>3. CASE k = kind
      <4>1. l.path \in Paths
        BY <1>1 DEF Items
      <4>2. disk[i].path = l.path
        BY <1>3, <3>1, <4>1, ReplayIs
      <4>3. l.path \in job'.paths /\ job'.kind = k
        BY <1>2, <3>1, <3>3
      <4>4. disk'[i].path \in Left' /\ job'.kind \in JobsFor(k)
        BY <1>1, <4>2, <4>3 DEF Left, JobsFor
      <4> QED BY <4>4 DEF Due
    <3> QED BY <3>2, <3>3
  <2> QED BY <1>1, <1>4, <2>1, <2>2 DEF Due
<1>5. \A i \in Files : ~Unchecked(i)
  BY <1>1 DEF Unchecked
<1>6. \A i \in Files : IsFollowed(f, i)'
  BY <1>1, <1>4, <1>5, StaysDue
<1> QED BY <1>1, <1>6, ReplayStays

\* The daemon starts: a job will look at everything.
LEMMA FollowsStart ==
  ASSUME Bounds, Types, Turns, NEW f, Replay(f), \A i \in Files : IsFollowed(f, i), start
  PROVE  extracted' = Nothing /\ Replay(f)' /\ \A i \in Files : IsFollowed(f, i)'
<1> USE DEF files, index
<1>1. /\ UNCHANGED <<disk, doc, marked, events, lists, extracted, looked>> /\ daemon = "off" /\ extracted = Nothing /\ looked = NoLook
      /\ daemon' = "on"
  BY DEF start, Turns, NoJob
<1>2. Left' = Paths
  BY <1>1 DEF start, Left
<1>3. ASSUME NEW i \in Files PROVE IsFollowed(f, i)'
  <2>1. (hasDocument(i)' <=> hasDocument(i)) /\ disk' = disk /\ (disk[i] # Absent => disk[i].path \in Paths)
    BY <1>1, Infos DEF hasDocument
  <2>2. job'.kind \in {"firstRun", "unindexed"} /\ (hasDocument(i) => job'.kind = "unindexed")
    BY DEF start
  <2>3. disk[i] # Absent => Due(f, "new", i)' /\ (hasDocument(i) => \A kind : Due(f, kind, i)')
    BY <1>2, <2>1, <2>2 DEF Due, JobsFor
  <2>4. Unchecked(i) /\ hasDocument(i) => Unchecked(i)'
    BY <1>1, <1>2, <2>1, <2>2 DEF Unchecked
  <2>5. PathIsRight(f, i)'
    BY <1>1, <2>1, <2>4 DEF IsFollowed, PathIsRight
  <2> QED BY <2>1, <2>3, <2>5 DEF IsFollowed, WillBeAdded, WillBeRead
<1> QED BY <1>1, <1>3, ReplayStays

\* The daemon ends. It has heard of all moves, or a removal may be lost.
LEMMA FollowsStop ==
  ASSUME Bounds, Types, Turns, NEW f, Replay(f), \A i \in Files : IsFollowed(f, i), stop, missed' = {}
  PROVE  extracted' = Nothing /\ \E g : Replay(g)' /\ \A i \in Files : IsFollowed(g, i)'
<1> USE DEF files, index
<1>1. UNCHANGED <<disk, doc, marked>> /\ daemon' = "off" /\ daemon = "on" /\ job = NoJob /\ extracted' = Nothing /\ events' = <<>>
  BY DEF stop
<1>2. \A n \in 0..Len(events) : \A p \in Places : f[n][p] = p
  <2> DEFINE moves == \E n \in DOMAIN events : events[n].kind = "moved"
  <2>1. ~moves
    BY DEF stop
  <2>2. DOMAIN events = 1..Len(events)
    BY SeqFacts DEF Types
  <2>3. \A n \in 1..Len(events) : events[n].kind # "moved"
    BY <2>1, <2>2
  <2> QED BY <2>3, NoneUnderWay
<1>3. PICK g : Replay(g)' /\ \A p \in Places : g[0][p] = p
  BY <1>1, Emptied
<1>4. ASSUME NEW i \in Files PROVE IsFollowed(g, i)'
  <2>1. \A kind : Due(g, kind, i)'
    BY <1>1 DEF Due
  <2>2. PathIsRight(g, i)'
    <3>1. ~Unchecked(i)
      BY <1>1 DEF Unchecked, NoJob
    <3>2. hasDocument(i) => f[0][doc[i].path] = disk[i].path
      BY <3>1 DEF IsFollowed, PathIsRight
    <3>3. doc[i].path \in Places
      BY Infos DEF Places
    <3> QED BY <1>1, <1>2, <1>3, <3>2, <3>3, ReplayIs DEF PathIsRight, hasDocument
  <2> QED BY <2>1, <2>2 DEF IsFollowed, WillBeAdded, WillBeRead
<1> QED BY <1>1, <1>3, <1>4

\* indexNewFile(), indexModifiedFile(), indexXAttrFile()
LEMMA FollowsIndexFile ==
  ASSUME Bounds, Types, NEW f, Replay(f), \A i \in Files : IsFollowed(f, i), indexFile
  PROVE  extracted' = extracted /\ \E g : Replay(g)' /\ \A i \in Files : IsFollowed(g, i)'
<1> USE DEF files, index, indexers
<1>1. /\ UNCHANGED <<disk, doc, marked, job, looked, extracted, daemon>>
      /\ events # <<>> /\ Head(events).kind # "moved" /\ lists' = lists \cup {Head(events)} /\ events' = Tail(events)
  BY DEF indexFile
<1>2. /\ Len(events) \in Nat \ {0} /\ Head(events) = events[1] /\ events[1] \in Items \cup Moves
      /\ \A n \in 1..(Len(events) - 1) : events'[n] = events[n + 1]
  BY <1>1, Received DEF Types
<1>3. PICK g : Replay(g)' /\ Len(events') = Len(events) - 1 /\ \A n \in 0..(Len(events) - 1) : g[n] = f[n + 1]
  BY <1>1, Popped
<1>4. \A n \in 2..Len(events) : n - 1 \in 1..Len(events') /\ events'[n - 1] = events[n] /\ g[n - 1] = f[n]
  <2>1. \A n \in 2..Len(events) : n - 1 \in 1..(Len(events) - 1) /\ n - 1 \in 0..(Len(events) - 1) /\ (n - 1) + 1 = n
    BY <1>2
  <2> QED BY <1>2, <1>3, <2>1
<1>5. g[0] = f[1]
  BY <1>2, <1>3
<1>6. \A p \in Places : f[0][p] = g[0][p]
  <2>1. \A p \in Places : f[1 - 1][p] = f[1][Step(events[1], p)]
    BY <1>2 DEF Replay
  <2>2. \A p : Step(events[1], p) = p
    BY <1>1, <1>2 DEF Step
  <2> QED BY <1>5, <2>1, <2>2
<1>7. ASSUME NEW i \in Files, NEW kind \in Kinds, Due(f, kind, i) PROVE Due(g, kind, i)'
  <2>1. ASSUME NEW n \in 1..Len(events), events[n].kind = kind, f[n][events[n].path] = disk[i].path PROVE Due(g, kind, i)'
    <3>1. CASE n = 1
      <4>1. events[1] \in lists' /\ g[0][events[1].path] = disk[i].path
        BY <1>1, <1>2, <1>5, <2>1, <3>1
      <4> QED BY <1>1, <2>1, <3>1, <4>1 DEF Due
    <3>2. CASE n # 1
      <4>1. n \in 2..Len(events)
        BY <1>2, <3>2
      <4> QED BY <1>1, <1>4, <2>1, <4>1 DEF Due
    <3> QED BY <3>1, <3>2
  <2>2. ASSUME NEW l \in lists, l.kind = kind, f[0][l.path] = disk[i].path PROVE Due(g, kind, i)'
    <3>1. l.path \in Places
      BY DEF Types, Items, Places
    <3> QED BY <1>1, <1>6, <2>2, <3>1 DEF Due
  <2> QED BY <1>1, <1>7, <2>1, <2>2 DEF Due, Left
<1>8. ASSUME NEW i \in Files PROVE IsFollowed(g, i)'
  <2>1. Unchecked(i) => Unchecked(i)'
    BY <1>1 DEF Unchecked, Left
  <2>2. doc[i].path \in Places
    BY Infos DEF Places
  <2>3. (\E n \in 1..Len(events) : events[n].kind = "moved" /\ f[n][events[n].to] = disk[i].path)
          => \E n \in 1..Len(events') : events'[n].kind = "moved" /\ g[n][events'[n].to] = disk[i].path
    <3>1. ASSUME NEW n \in 1..Len(events), events[n].kind = "moved", f[n][events[n].to] = disk[i].path PROVE n \in 2..Len(events)
      BY <1>1, <1>2, <3>1
    <3> QED BY <1>4, <3>1
  <2> QED BY <1>1, <1>6, <1>7, <2>1, <2>2, <2>3, StaysDue
<1> QED BY <1>1, <1>3, <1>8

\* MetadataMover follows a move.
LEMMA FollowsMove ==
  ASSUME Bounds, Types, Turns, OnePathEach, NEW f, Replay(f), \A i \in Files : IsFollowed(f, i), followMove, missed' = {}
  PROVE  extracted' = extracted /\ \E g : Replay(g)' /\ \A i \in Files : IsFollowed(g, i)'
<1> USE DEF files, index, indexers
<1> DEFINE m == Head(events)
           moved == documentsAt(m.from)
<1>1. /\ UNCHANGED <<disk, job, looked, extracted, daemon>> /\ job = NoJob /\ looked = NoLook /\ daemon # "off"
      /\ events # <<>> /\ m.kind = "moved" /\ events' = Tail(events)
  BY DEF followMove, Turns, NoJob
<1>2. /\ Len(events) \in Nat \ {0} /\ m = events[1] /\ m \in Items \cup Moves
      /\ \A n \in 1..(Len(events) - 1) : events'[n] = events[n + 1]
  BY <1>1, Received DEF Types
<1>3. m.from \in Paths /\ m.to \in Places /\ Nowhere \notin Paths /\ m.from \in Places
  BY <1>1, <1>2, EventKinds DEF Places, Bounds
<1>4. PICK g : Replay(g)' /\ Len(events') = Len(events) - 1 /\ \A n \in 0..(Len(events) - 1) : g[n] = f[n + 1]
  BY <1>1, Popped
<1>5. \A n \in 2..Len(events) : n - 1 \in 1..Len(events') /\ events'[n - 1] = events[n] /\ g[n - 1] = f[n]
  <2>1. \A n \in 2..Len(events) : n - 1 \in 1..(Len(events) - 1) /\ n - 1 \in 0..(Len(events) - 1) /\ (n - 1) + 1 = n
    BY <1>2
  <2> QED BY <1>2, <1>4, <2>1
<1>6. g[0] = f[1] /\ g[0][Nowhere] = Nowhere
  <2>1. f[1][Nowhere] = Nowhere
    BY <1>2, ReplayIs
  <2> QED BY <1>2, <1>4, <2>1
<1>7. \A p \in Places : f[0][p] = IF p = m.from THEN g[0][m.to] ELSE IF p = m.to THEN Nowhere ELSE g[0][p]
  <2>1. \A p \in Places : f[1 - 1][p] = f[1][Step(events[1], p)]
    BY <1>2 DEF Replay
  <2>2. \A p : Step(m, p) = IF p = m.from THEN m.to ELSE IF p = m.to THEN Nowhere ELSE p
    BY <1>1 DEF Step
  <2> HIDE DEF m
  <2> QED BY <1>2, <1>6, <2>1, <2>2
<1>8. /\ moved # {} => \A l \in lists : l.path \notin {m.from, m.to}
      /\ lists' = IF m.to = Nowhere THEN {l \in lists : l.path # m.from}
                  ELSE {l \in lists : l.path # m.to} \cup (IF moved = {} THEN {ToBeIndexed("new", m.to)} ELSE {})
      /\ \A l \in lists : l.path \in Paths /\ l.path \in Places
  <2> DEFINE isListed == moved # {} /\ \E l \in lists : l.path \in {m.from, m.to}
  <2>1. ~isListed
    BY DEF followMove
  <2>2. \A l \in lists : l.path \in Paths /\ l.path \in Places
    BY DEF Types, Items, Places
  <2> QED BY <2>1, <2>2 DEF followMove
<1>9. /\ \A i \in Files : ~Unchecked(i)
      /\ \A i \in Files : hasDocument(i) => f[0][doc[i].path] = disk[i].path
      /\ \A i \in Files : \A kind : Due(f, kind, i) =>
           \/ \E n \in 1..Len(events) : events[n].kind = kind /\ f[n][events[n].path] = disk[i].path
           \/ \E l \in lists : l.kind = kind /\ f[0][l.path] = disk[i].path
  <2>1. \A i \in Files : ~Unchecked(i)
    BY <1>1 DEF Unchecked, NoJob
  <2>2. \A i \in Files : PathIsRight(f, i)
    BY DEF IsFollowed
  <2>3. Left = {}
    BY <1>1 DEF Left, NoJob
  <2> QED BY <1>1, <2>1, <2>2, <2>3 DEF PathIsRight, Due
<1>10. \A i \in Files : doc[i].path \in Places /\ disk[i].path \in Places /\ (disk[i] # Absent => disk[i].path # Nowhere)
  BY Infos DEF Places
\* What becomes of the documents.
<1>11. ASSUME NEW i \in Files
       PROVE  /\ i \in moved /\ m.to = Nowhere => ~hasDocument(i)'
              /\ i \in moved /\ m.to # Nowhere => doc'[i].path = m.to /\ doc'[i].xattr = doc[i].xattr /\ doc'[i].content = doc[i].content
              /\ i \notin moved /\ m.to # Nowhere /\ doc[i].path = m.to => ~hasDocument(i)'
              /\ i \notin moved /\ (m.to = Nowhere \/ doc[i].path # m.to) => doc'[i] = doc[i]
              /\ marked' \subseteq marked /\ (hasDocument(i)' /\ i \in marked => i \in marked')
  <2>1. doc[i] \in FileInfo /\ doc \in [Files -> FileInfo] /\ Absent.path = Nowhere
    BY DEF Types, Absent
  <2>2. CASE m.to = Nowhere
    <3>1. Removed(moved)
      BY <2>2 DEF followMove
    <3> HIDE DEF moved, m
    <3> QED BY <2>1, <2>2, <3>1 DEF Removed, hasDocument
  <2>3. CASE m.to # Nowhere
    <3>1. /\ doc' = [k \in Files |-> IF k \in moved THEN [doc[k] EXCEPT !.path = m.to]
                                     ELSE IF doc[k].path = m.to THEN Absent ELSE doc[k]]
          /\ marked' = marked \ (documentsAt(m.to) \ moved)
      BY <2>3 DEF followMove
    <3> HIDE DEF moved, m
    <3>2. [doc[i] EXCEPT !.path = m.to].path = m.to /\ [doc[i] EXCEPT !.path = m.to].xattr = doc[i].xattr
          /\ [doc[i] EXCEPT !.path = m.to].content = doc[i].content
      BY <2>1 DEF FileInfo
    <3> QED BY <2>1, <2>3, <3>1, <3>2 DEF hasDocument, documentsAt
  <2> QED BY <2>2, <2>3
<1>12. \A i \in Files : i \in moved <=> doc[i].path = m.from
  BY DEF documentsAt
<1> HIDE DEF m, moved
\* What is listed for a file stays so, unless it becomes new.
<1>13. ASSUME NEW i \in Files, disk[i] # Absent, NEW l \in lists, f[0][l.path] = disk[i].path
       PROVE  (l \in lists' /\ g[0][l.path] = disk[i].path) \/ (l.path = m.from /\ moved = {} /\ m.to # Nowhere /\ g[0][m.to] = disk[i].path)
  <2>1. CASE l.path = m.from
    <3>1. g[0][m.to] = disk[i].path /\ m.to # Nowhere
      BY <1>3, <1>6, <1>7, <1>10, <1>13, <2>1
    <3>2. moved = {}
      BY <1>8, <2>1
    <3> QED BY <2>1, <3>1, <3>2
  <2>2. CASE l.path # m.from
    <3>1. l.path # m.to
      BY <1>7, <1>8, <1>10, <1>13, <2>2
    <3> QED BY <1>7, <1>8, <1>13, <2>2, <3>1
  <2> QED BY <2>1, <2>2
<1>14. ASSUME NEW i \in Files, NEW kind \in Kinds, NEW n \in 1..Len(events), events[n].kind = kind, f[n][events[n].path] = disk[i].path
       PROVE  Due(g, kind, i)'
  <2>1. n # 1
    BY <1>1, <1>2, <1>14 DEF Kinds
  <2>2. n \in 2..Len(events)
    BY <1>2, <2>1
  <2> QED BY <1>1, <1>5, <1>14, <2>2 DEF Due
<1>15. ASSUME NEW i \in Files, m.to # Nowhere, moved = {}, g[0][m.to] = disk[i].path PROVE Due(g, "new", i)'
  <2>1. ToBeIndexed("new", m.to) \in lists'
    BY <1>8, <1>15
  <2>2. ToBeIndexed("new", m.to).kind = "new" /\ ToBeIndexed("new", m.to).path = m.to
    BY DEF ToBeIndexed
  <2> QED BY <1>1, <1>15, <2>1, <2>2 DEF Due
<1>16. ASSUME NEW i \in Files PROVE PathIsRight(g, i)'
  <2>1. SUFFICES ASSUME hasDocument(i)' PROVE g[0][doc'[i].path] = disk[i].path
    BY <1>1, <2>1 DEF PathIsRight
  <2>2. CASE i \in moved
    <3>1. m.to # Nowhere /\ doc'[i].path = m.to /\ hasDocument(i)
      BY <1>3, <1>11, <1>12, <2>1, <2>2 DEF hasDocument
    <3> QED BY <1>3, <1>7, <1>9, <1>12, <2>2, <3>1
  <2>3. CASE i \notin moved
    <3>1. doc'[i] = doc[i] /\ hasDocument(i) /\ doc[i].path # m.from /\ doc[i].path # m.to
      BY <1>11, <1>12, <2>1, <2>3 DEF hasDocument
    <3> QED BY <1>7, <1>9, <1>10, <3>1
  <2> QED BY <2>2, <2>3
<1>17. ASSUME NEW i \in Files PROVE WillBeAdded(g, i)'
  <2>1. SUFFICES ASSUME ~hasDocument(i)', disk[i] # Absent
                 PROVE  Due(g, "new", i)' \/ \E n \in 1..Len(events') : events'[n].kind = "moved" /\ g[n][events'[n].to] = disk[i].path
    BY <1>1, <2>1 DEF WillBeAdded
  <2>2. ~hasDocument(i)
    <3>1. SUFFICES ASSUME hasDocument(i) PROVE FALSE
      OBVIOUS
    <3>2. f[0][doc[i].path] = disk[i].path /\ disk[i].path # Nowhere
      BY <1>9, <1>10, <2>1, <3>1
    <3>3. CASE i \in moved
      <4>1. doc[i].path = m.from /\ (m.to # Nowhere => doc'[i].path = m.to)
        BY <1>11, <1>12, <3>3
      <4>2. m.to = Nowhere
        BY <2>1, <4>1 DEF hasDocument
      <4> QED BY <1>3, <1>6, <1>7, <3>2, <4>1, <4>2
    <3>4. CASE i \notin moved
      <4>1. doc[i].path = m.to /\ doc[i].path # m.from
        BY <1>11, <1>12, <2>1, <3>1, <3>4 DEF hasDocument
      <4> QED BY <1>3, <1>7, <3>2, <4>1
    <3> QED BY <3>3, <3>4
  <2>3. CASE \E n \in 1..Len(events) : events[n].kind = "new" /\ f[n][events[n].path] = disk[i].path
    BY <1>14, <2>3 DEF Kinds
  <2>4. CASE \E l \in lists : l.kind = "new" /\ f[0][l.path] = disk[i].path
    <3>1. PICK l \in lists : l.kind = "new" /\ f[0][l.path] = disk[i].path
      BY <2>4
    <3>2. CASE l \in lists' /\ g[0][l.path] = disk[i].path
      BY <1>1, <3>1, <3>2 DEF Due
    <3> QED BY <1>13, <1>15, <2>1, <3>1, <3>2
  <2>5. CASE \E n \in 1..Len(events) : events[n].kind = "moved" /\ f[n][events[n].to] = disk[i].path
    <3>1. PICK n \in 1..Len(events) : events[n].kind = "moved" /\ f[n][events[n].to] = disk[i].path
      BY <2>5
    <3>2. CASE n # 1
      <4>1. n \in 2..Len(events)
        BY <1>2, <3>2
      <4> QED BY <1>5, <3>1, <4>1
    <3>3. CASE n = 1
      <4>1. g[0][m.to] = disk[i].path /\ m.to # Nowhere
        BY <1>2, <1>6, <1>10, <2>1, <3>1, <3>3
      <4>2. ASSUME NEW k \in moved PROVE FALSE
        <5>1. k \in Files /\ doc[k].path = m.from /\ hasDocument(k)
          BY <1>3, <4>2 DEF moved, documentsAt, hasDocument
        <5>2. disk[k].path = disk[i].path
          BY <1>3, <1>7, <1>9, <4>1, <5>1
        <5>3. k = i
          BY <2>1, <5>1, <5>2 DEF OnePathEach
        <5> QED BY <2>2, <5>1, <5>3
      <4> QED BY <1>15, <4>1, <4>2
    <3> QED BY <3>2, <3>3
  <2> QED BY <1>9, <2>1, <2>2, <2>3, <2>4, <2>5 DEF IsFollowed, WillBeAdded
<1>18. ASSUME NEW i \in Files PROVE WillBeRead(g, i)'
  <2>1. SUFFICES ASSUME hasDocument(i)', disk[i] # Absent
                 PROVE  (Stale(i)' => Due(g, "modified", i)') /\ (doc'[i].xattr # disk[i].xattr => Due(g, "xattr", i)')
    BY <1>1, <2>1 DEF WillBeRead
  <2>2. hasDocument(i) /\ doc'[i].xattr = doc[i].xattr /\ doc'[i].content = doc[i].content
    BY <1>3, <1>11, <1>12, <2>1 DEF hasDocument
  <2>3. Stale(i)' => Stale(i)
    BY <1>1, <1>11, <2>1, <2>2 DEF Stale, Read
  <2>4. ASSUME NEW kind \in Kinds, Due(f, kind, i) PROVE Due(g, kind, i)'
    <3>1. CASE \E n \in 1..Len(events) : events[n].kind = kind /\ f[n][events[n].path] = disk[i].path
      BY <1>14, <3>1
    <3>2. CASE \E l \in lists : l.kind = kind /\ f[0][l.path] = disk[i].path
      <4>1. PICK l \in lists : l.kind = kind /\ f[0][l.path] = disk[i].path
        BY <3>2
      <4>2. ~(l.path = m.from /\ moved = {})
        <5>1. SUFFICES ASSUME l.path = m.from, moved = {} PROVE FALSE
          OBVIOUS
        <5>2. f[0][doc[i].path] = f[0][m.from] /\ f[0][m.from] # Nowhere
          BY <1>9, <1>10, <2>1, <2>2, <4>1, <5>1
        <5>3. doc[i].path = m.from
          BY <1>3, <1>10, <5>2, ReplayIs DEF Replay
        <5> QED BY <1>12, <5>1, <5>3
      <4>3. l \in lists' /\ g[0][l.path] = disk[i].path
        BY <1>13, <2>1, <4>1, <4>2
      <4> QED BY <1>1, <4>1, <4>3 DEF Due
    <3> QED BY <1>9, <2>4, <3>1, <3>2
  <2>5. WillBeRead(f, i)
    BY DEF IsFollowed
  <2> QED BY <2>1, <2>2, <2>3, <2>4, <2>5 DEF WillBeRead, Kinds
<1> QED BY <1>1, <1>4, <1>16, <1>17, <1>18 DEF IsFollowed

\* The document's file is at its path, or the path is not looked at in vain.
LEMMA FollowsExtract ==
  ASSUME Bounds, Types, Turns, OnePathEach, NEW f, Replay(f), \A i \in Files : IsFollowed(f, i),
         NEW k \in Files, extract(k), missed' = {}
  PROVE  extracted'.same /\ Replay(f)' /\ \A i \in Files : IsFollowed(f, i)'
<1> USE DEF files, index
<1>1. /\ UNCHANGED <<disk, doc, marked, events, lists, daemon, job, looked>> /\ k \in marked /\ job = NoJob /\ daemon = "on"
      /\ extracted' = [file |-> k, path |-> doc[k].path, same |-> at(doc[k].path) = {k}, read |-> FALSE, content |-> 0]
      /\ Missed(doc[k].path, {})
  BY DEF extract
<1>2. PICK p \in Paths : p = doc[k].path
  BY <1>1, Infos DEF Types, hasDocument
<1>3. f[0][p] = p
  <2>1. \A n \in 1..Len(events) : ~IsTouched(events[n], p)
    BY <1>1, <1>2, MissedIs
  <2> QED BY <2>1, Untouched, ReplayIs
<1>4. extracted'.same
  <2>1. hasDocument(k) /\ ~Unchecked(k)
    BY <1>1 DEF Types, Unchecked, NoJob
  <2>2. f[0][p] = disk[k].path
    BY <1>2, <2>1 DEF IsFollowed, PathIsRight
  <2>3. k \in at(p)
    BY <1>3, <2>2 DEF at
  <2>4. at(p) = {k}
    BY <2>3, OnlyFile
  <2> DEFINE same == at(doc[k].path) = {k}
  <2>5. same /\ extracted'.same = same
    BY <1>1, <1>2, <2>4
  <2> QED BY <2>5
<1>5. ASSUME NEW i \in Files PROVE IsFollowed(f, i)'
  <2>1. \A kind : Due(f, kind, i) => Due(f, kind, i)'
    BY <1>1 DEF Due, Left
  <2>2. Unchecked(i) => Unchecked(i)'
    BY <1>1 DEF Unchecked, Left
  <2>3. (hasDocument(i)' <=> hasDocument(i)) /\ (Stale(i)' => Stale(i))
    <3>1. ~extracted'.read
      BY <1>1
    <3> QED BY <1>1, <3>1 DEF hasDocument, Read, Stale
  <2>4. IsFollowed(f, i)
    OBVIOUS
  <2>5. PathIsRight(f, i)'
    BY <1>1, <2>2, <2>3, <2>4 DEF IsFollowed, PathIsRight
  <2>6. WillBeAdded(f, i)'
    BY <1>1, <2>1, <2>3, <2>4 DEF IsFollowed, WillBeAdded
  <2>7. WillBeRead(f, i)'
    BY <1>1, <2>1, <2>3, <2>4 DEF IsFollowed, WillBeRead
  <2> QED BY <2>5, <2>6, <2>7 DEF IsFollowed
<1> QED BY <1>1, <1>4, <1>5, ReplayStays

\* What is the same is read, and stored if the document is still there.
LEMMA FollowsContents ==
  ASSUME Bounds, Types, Turns, OnePathEach, NEW f, Replay(f), \A i \in Files : IsFollowed(f, i),
         extracted # Nothing => extracted.same, readContents \/ storeContents, missed' = {}
  PROVE  (extracted' # Nothing => extracted'.same) /\ Replay(f)' /\ \A i \in Files : IsFollowed(f, i)'
<1> USE DEF files, index
<1>1. UNCHANGED <<disk, events, lists, daemon, job, looked>> /\ extracted \in Extractions /\ extracted.same /\ extracted # Nothing
  BY DEF readContents, storeContents, Types
<1>2. PICK k \in Files, p \in Paths : k = extracted.file /\ p = extracted.path
  BY <1>1 DEF Extractions
<1>3. /\ \A i \in Files : doc'[i].path = doc[i].path /\ doc'[i].ctime = doc[i].ctime /\ doc'[i].xattr = doc[i].xattr
      /\ \A i \in Files : Stale(i)' => Stale(i)
      /\ extracted' # Nothing => extracted'.same
  <2>1. CASE readContents
    <3>1. UNCHANGED <<doc, marked>> /\ Missed(p, IF at(p) # {k} THEN {"replaced"} ELSE {})
          /\ extracted' = [extracted EXCEPT !.read = TRUE,
               !.content = IF at(p) = {} THEN 0 ELSE disk[CHOOSE j \in at(p) : TRUE].content]
      BY <1>2, <2>1 DEF readContents
    <3>2. at(p) = {k}
      BY <3>1, MissedIs
    <3>3. (CHOOSE j \in at(p) : TRUE) = k
      BY <3>2
    <3>4. extracted'.content = disk[k].content /\ extracted'.file = k /\ extracted'.same
      BY <1>1, <1>2, <3>1, <3>2, <3>3 DEF Extractions
    <3>5. \A i \in Files : Stale(i)' => Stale(i)
      BY <1>1, <3>1, <3>4 DEF Stale, Read
    <3> QED BY <3>1, <3>4, <3>5
  <2>2. CASE storeContents
    <3>1. extracted' = Nothing /\ extracted.read
      BY <1>1, <2>2 DEF storeContents
    <3>2. CASE UNCHANGED <<doc, marked>>
      BY <1>1, <3>1, <3>2 DEF Stale, Read
    <3>3. CASE ~UNCHANGED <<doc, marked>>
      <4>1. k \in marked /\ doc' = [doc EXCEPT ![k].content = extracted.content] /\ marked' = marked \ {k}
        BY <1>1, <1>2, <2>2, <3>3 DEF storeContents
      <4>2. doc \in [Files -> FileInfo]
        BY DEF Types
      <4>3. /\ \A i \in Files : i # k => doc'[i] = doc[i] /\ (i \in marked' <=> i \in marked)
            /\ doc'[k].path = doc[k].path /\ doc'[k].ctime = doc[k].ctime /\ doc'[k].xattr = doc[k].xattr
            /\ doc'[k].content = extracted.content /\ k \notin marked'
        BY <4>1, <4>2 DEF FileInfo
      <4>4. Stale(k)' => Stale(k)
        BY <1>1, <1>2, <3>1, <4>1, <4>3 DEF Stale, Read
      <4>5. \A i \in Files : i # k => (Stale(i)' => Stale(i))
        BY <1>1, <3>1, <4>3 DEF Stale, Read
      <4> QED BY <3>1, <4>3, <4>4, <4>5
    <3> QED BY <3>2, <3>3
  <2> QED BY <2>1, <2>2
<1>4. ASSUME NEW i \in Files PROVE IsFollowed(f, i)'
  <2>1. \A kind : Due(f, kind, i) => Due(f, kind, i)'
    BY <1>1 DEF Due, Left
  <2>2. Unchecked(i) => Unchecked(i)'
    BY <1>1, <1>3 DEF Unchecked, Left
  <2>3. (hasDocument(i)' <=> hasDocument(i)) /\ IsFollowed(f, i)
    BY <1>3 DEF hasDocument
  <2>4. PathIsRight(f, i)'
    BY <1>1, <1>3, <2>2, <2>3 DEF IsFollowed, PathIsRight
  <2>5. WillBeAdded(f, i)'
    BY <1>1, <2>1, <2>3 DEF IsFollowed, WillBeAdded
  <2>6. WillBeRead(f, i)'
    BY <1>1, <1>3, <2>1, <2>3 DEF IsFollowed, WillBeRead
  <2> QED BY <2>4, <2>5, <2>6 DEF IsFollowed
<1> QED BY <1>1, <1>3, <1>4, ReplayStays

\* Other files than those that a tool or the contents are about.
LEMMA OthersFollowed ==
  ASSUME NEW f, NEW i \in Files, IsFollowed(f, i), UNCHANGED <<disk, events, lists, daemon, job, looked, extracted>>,
         doc'[i] = doc[i], i \in marked' <=> i \in marked
  PROVE  IsFollowed(f, i)'
<1>1. \A kind : Due(f, kind, i) => Due(f, kind, i)'
  BY DEF Due, Left
<1>2. Unchecked(i) => Unchecked(i)'
  BY DEF Unchecked, Left
<1>3. (hasDocument(i)' <=> hasDocument(i)) /\ (Stale(i)' => Stale(i))
  BY DEF hasDocument, Read, Stale
<1>4. PathIsRight(f, i)'
  BY <1>2, <1>3 DEF IsFollowed, PathIsRight
<1>5. WillBeAdded(f, i)'
  BY <1>1, <1>3 DEF IsFollowed, WillBeAdded
<1>6. WillBeRead(f, i)'
  BY <1>1, <1>3 DEF IsFollowed, WillBeRead
<1> QED BY <1>4, <1>5, <1>6 DEF IsFollowed

\* balooctl index and clear
LEMMA FollowsTools ==
  ASSUME Bounds, Types, Turns, OnePathEach, TimesInv, missed = {}, NEW f, Replay(f), \A i \in Files : IsFollowed(f, i),
         NEW p \in Paths, indexFileNow(p) \/ clearEntryNow(p), missed' = {}
  PROVE  extracted' = extracted /\ Replay(f)' /\ \A i \in Files : IsFollowed(f, i)'
<1> USE DEF files, index
<1>1. UNCHANGED <<disk, events, lists, daemon, job, looked, extracted>> /\ job = NoJob
  BY DEF indexFileNow, clearEntryNow, Tool
<1>2. CASE indexFileNow(p)
  <2>1. PICK i \in at(p) :
          /\ i \notin marked /\ doc[i].content = 0
          /\ doc' = [doc EXCEPT ![i] = [basic(i, p) EXCEPT !.content = IF hasDocument(i) THEN 0 ELSE disk[i].content]]
          /\ Missed(p, IF hasDocument(i) /\ disk[i].content # 0 THEN {"indexedNow"} ELSE {})
    BY <1>2 DEF indexFileNow
  <2>2. i \in Files /\ disk[i].path = p /\ disk[i] # Absent /\ doc \in [Files -> FileInfo] /\ marked' = marked
    BY <1>2, <2>1, OnlyFile DEF Types, indexFileNow
  <2>3. ~hasDocument(i) /\ \A n \in 1..Len(events) : ~IsTouched(events[n], p)
    <3>1. disk[i].content # 0
      BY <2>2 DEF TimesInv, LookedBefore
    <3> DEFINE causes == IF hasDocument(i) /\ disk[i].content # 0 THEN {"indexedNow"} ELSE {}
    <3>2. causes = {} /\ \A n \in 1..Len(events) : ~IsTouched(events[n], p)
      BY <2>1, MissedIs
    <3> QED BY <3>1, <3>2
  <2>4. f[0][p] = p
    BY <2>3, Untouched, ReplayIs
  <2>5. [basic(i, p) EXCEPT !.content = disk[i].content] =
          [path |-> p, mtime |-> disk[i].mtime, ctime |-> disk[i].ctime, xattr |-> disk[i].xattr, content |-> disk[i].content]
    BY DEF basic
  <2>6. doc'[i].path = p /\ doc'[i].xattr = disk'[i].xattr /\ Read(i)' /\ i \notin marked' /\ disk'[i].path = p
        /\ \A j \in Files : j # i => doc'[j] = doc[j]
    BY <1>1, <2>1, <2>2, <2>3, <2>5 DEF Read
  <2>7. IsFollowed(f, i)'
    BY <2>2, <2>4, <2>6, IsRead
  <2>8. \A j \in Files : j # i => IsFollowed(f, j)'
    BY <1>1, <2>2, <2>6, OthersFollowed
  <2> QED BY <1>1, <2>7, <2>8, ReplayStays
<1>3. CASE clearEntryNow(p)
  <2>1. at(p) = {} /\ Removed(documentsAt(p))
    BY <1>3 DEF clearEntryNow
  <2>2. ASSUME NEW i \in Files, i \notin documentsAt(p) PROVE IsFollowed(f, i)'
    <3>1. doc'[i] = doc[i] /\ (i \in marked' <=> i \in marked)
      BY <2>1, <2>2 DEF Removed
    <3> QED BY <1>1, <3>1, OthersFollowed
  <2>3. ASSUME NEW i \in Files, i \in documentsAt(p) PROVE IsFollowed(f, i)'
    <3>1. ~hasDocument(i)' /\ doc[i].path = p /\ hasDocument(i)
      BY <2>1, <2>3 DEF Removed, hasDocument, Absent, documentsAt, Bounds
    <3>2. disk[i] # Absent => Due(f, "new", i)' \/ \E n \in 1..Len(events) : events[n].kind = "moved" /\ f[n][events[n].to] = disk[i].path
      <4>1. CASE daemon = "off"
        BY <1>1, <4>1 DEF Due
      <4>2. CASE daemon # "off" /\ disk[i] # Absent
        <5>1. ~Unchecked(i)
          BY <1>1, <4>2 DEF Unchecked, NoJob
        <5>2. f[0][p] = disk[i].path
          BY <3>1, <5>1 DEF IsFollowed, PathIsRight
        <5>3. disk[i].path # p /\ disk[i].path # Nowhere
          BY <2>1, <4>2, Infos DEF at
        <5>4. PICK n \in (0 + 1)..Len(events) : events[n].kind = "moved" /\ f[n][events[n].to] = f[0][p]
          BY <5>2, <5>3, ReplayIs DEF Replay
        <5> QED BY <5>2, <5>4
      <4> QED BY <4>1, <4>2
    <3> QED BY <1>1, <3>1, <3>2 DEF IsFollowed, PathIsRight, WillBeAdded, WillBeRead
  <2> QED BY <1>1, <2>2, <2>3, ReplayStays
<1> QED BY <1>2, <1>3

\* The daemon is told of what happens to a file.
LEMMA FileTold ==
  ASSUME Bounds, Types, Turns, NEW f, Replay(f), ~WillMiss', daemon # "off",
         UNCHANGED <<doc, marked, lists, daemon, job, looked, extracted>>,
         NEW e \in Items \cup Moves, events' = Append(events, e),
         NEW g, \A n \in 0..Len(events) : \A p \in Places : g[n][p] = Step(e, f[n][p]),
         \A p \in Places : g[Len(events) + 1][p] = p,
         NEW i \in Files, IsFollowed(f, i),
         disk'[i] \in FileInfo, disk'[i].path = Nowhere => disk'[i] = Absent,
         disk'[i].path = Step(e, disk[i].path),
         hasDocument(i) /\ disk'[i].ctime # disk[i].ctime /\ disk'[i] # Absent => doc[i].ctime # disk'[i].ctime,
         disk'[i].content # disk[i].content /\ disk'[i] # Absent => e.kind = "modified" /\ e.path = disk'[i].path,
         disk'[i].xattr # disk[i].xattr /\ disk'[i] # Absent => e.kind = "xattr" /\ e.path = disk'[i].path
  PROVE  IsFollowed(g, i)'
<1> DEFINE N == Len(events)
<1>1. /\ N \in Nat /\ Len(events') = N + 1 /\ events'[N + 1] = e
      /\ \A n \in 1..N : events'[n] = events[n] /\ events[n] \in Items \cup Moves
      /\ \A n \in 1..N : n \in 0..N /\ n \in 1..(N + 1)
  <2>1. events \in Seq(Items \cup Moves)
    BY DEF Types
  <2>2. /\ N \in Nat /\ Len(events') = N + 1 /\ events'[N + 1] = e /\ \A n \in 1..N : events'[n] = events[n]
        /\ \A n \in 1..N : events[n] \in Items \cup Moves
    BY <2>1, Sent, SeqFacts
  <2> QED BY <2>2
<1>2. /\ \A n \in 0..N : \A p \in Places : f[n][p] \in Places
      /\ 0 \in 0..N /\ Paths \subseteq Places /\ Nowhere \in Places
  BY ReplayIs
<1>3. disk[i].path \in Places /\ doc[i].path \in Places
  BY Infos DEF Places
<1>4. disk'[i] # Absent => disk[i] # Absent /\ disk'[i].path \in Paths
  <2>1. disk[i] = Absent => disk[i].path = Nowhere
    BY DEF Absent
  <2> QED BY <2>1, StepIs DEF FileInfo
\* A file that a job has yet to look at stays where it is.
<1>5. disk[i].path \in Left => disk'[i].path = disk[i].path /\ disk'[i].path \in Left'
  <2>1. SUFFICES ASSUME disk[i].path \in Left PROVE disk'[i].path = disk[i].path /\ disk'[i].path \in Left'
    OBVIOUS
  <2>2. Left' = Left /\ disk[i].path \in Places
    BY <1>3 DEF Left
  <2>3. N + 1 \in 1..Len(events')
    BY <1>1
  <2>4. ~IsTouched(events'[N + 1], disk[i].path)
    BY <2>1, <2>2, <2>3 DEF WillMiss, IsTouched
  <2>5. Step(e, disk[i].path) = disk[i].path
    BY <1>1, <2>2, <2>4, StepIs
  <2> QED BY <2>1, <2>2, <2>5
<1>6. ASSUME NEW kind \in Kinds, Due(f, kind, i) PROVE Due(g, kind, i)'
  <2>1. ASSUME NEW n \in 1..N, events[n].kind = kind, f[n][events[n].path] = disk[i].path PROVE Due(g, kind, i)'
    <3>1. events[n].path \in Places
      BY <1>1, <1>2, <2>1 DEF Items, Moves, Kinds
    <3>2. g[n][events[n].path] = disk'[i].path
      BY <1>1, <2>1, <3>1
    <3> QED BY <1>1, <2>1, <3>2 DEF Due
  <2>2. ASSUME NEW l \in lists, l.kind = kind, f[0][l.path] = disk[i].path PROVE Due(g, kind, i)'
    <3>1. l.path \in Places
      BY DEF Types, Items, Places
    <3>2. g[0][l.path] = disk'[i].path
      BY <1>2, <2>2, <3>1
    <3> QED BY <2>2, <3>2 DEF Due
  <2>3. CASE job.kind \in JobsFor(kind) /\ disk[i].path \in Left
    BY <1>5, <2>3 DEF Due
  <2> QED BY <1>6, <2>1, <2>2, <2>3 DEF Due
<1>7. ASSUME NEW kind \in Kinds, e.kind = kind, e.path = disk'[i].path, disk'[i] # Absent PROVE Due(g, kind, i)'
  <2>1. N + 1 \in 1..Len(events') /\ g[N + 1][e.path] = disk'[i].path
    BY <1>1, <1>2, <1>4, <1>7
  <2> QED BY <1>1, <1>7, <2>1 DEF Due
<1>8. PathIsRight(g, i)'
  <2>1. CASE hasDocument(i) /\ f[0][doc[i].path] = disk[i].path
    <3>1. g[0][doc[i].path] = disk'[i].path
      BY <1>2, <1>3, <2>1
    <3> QED BY <3>1 DEF PathIsRight
  <2>2. CASE hasDocument(i) /\ Unchecked(i)
    <3>1. job.kind = "unindexed" /\ disk[i].path \in Left /\ disk[i] # Absent /\ doc[i].ctime # disk[i].ctime
      BY <2>2 DEF Unchecked
    <3>2. disk'[i].path = disk[i].path /\ disk'[i].path \in Left' /\ disk'[i] # Absent
      <4>1. disk[i].path # Nowhere
        BY <3>1, Infos
      <4> QED BY <1>5, <3>1, <4>1 DEF Absent
    <3>3. doc[i].ctime # disk'[i].ctime
      BY <2>2, <3>1, <3>2
    <3> QED BY <3>1, <3>2, <3>3 DEF PathIsRight, Unchecked
  <2> QED BY <2>1, <2>2 DEF IsFollowed, PathIsRight, hasDocument
<1>9. WillBeAdded(g, i)'
  <2>1. SUFFICES ASSUME ~hasDocument(i), disk'[i] # Absent
                 PROVE  Due(g, "new", i)' \/ \E n \in 1..Len(events') : events'[n].kind = "moved" /\ g[n][events'[n].to] = disk'[i].path
    BY <2>1 DEF WillBeAdded, hasDocument
  <2>2. CASE Due(f, "new", i)
    BY <1>6, <2>2 DEF Kinds
  <2>3. ASSUME NEW n \in 1..N, events[n].kind = "moved", f[n][events[n].to] = disk[i].path
        PROVE  n \in 1..Len(events') /\ events'[n].kind = "moved" /\ g[n][events'[n].to] = disk'[i].path
    <3>1. events[n].to \in Places
      BY <1>1, <2>3, EventKinds DEF Places
    <3> QED BY <1>1, <2>3, <3>1
  <2> QED BY <1>4, <2>1, <2>2, <2>3 DEF IsFollowed, WillBeAdded
<1>10. WillBeRead(g, i)'
  <2>1. SUFFICES ASSUME hasDocument(i), disk'[i] # Absent
                 PROVE  (Stale(i)' => Due(g, "modified", i)') /\ (doc[i].xattr # disk'[i].xattr => Due(g, "xattr", i)')
    BY <2>1 DEF WillBeRead, hasDocument
  <2>2. WillBeRead(f, i) /\ disk[i] # Absent
    BY <1>4, <2>1 DEF IsFollowed
  <2>3. CASE disk'[i].content = disk[i].content
    <3>1. Stale(i)' => Stale(i)
      BY <2>3 DEF Stale, Read
    <3> QED BY <1>6, <1>7, <2>1, <2>2, <3>1 DEF WillBeRead, Kinds
  <2>4. CASE disk'[i].content # disk[i].content
    BY <1>6, <1>7, <2>1, <2>2, <2>4 DEF WillBeRead, Kinds
  <2> QED BY <2>3, <2>4
<1> QED BY <1>8, <1>9, <1>10 DEF IsFollowed

\* No document was read in the second in which its file changes.
LEMMA ChangedLater ==
  ASSUME Types, TimesInv, missed = {}, NEW i \in Files, NEW causes, Changed(i, causes), missed' = {}
  PROVE  causes = {} /\ doc[i].ctime # second
<1> DEFINE isSame == lookedAt[i] = second
<1>1. causes = {} /\ ~isSame
  BY DEF Changed
<1>2. LookedBefore(i)
  BY DEF TimesInv
<1> QED BY <1>1, <1>2, Infos DEF LookedBefore

\* What the file system does to each file, and what is told of it.
LEMMA FileChanges ==
  ASSUME Bounds, Types, OnePathEach, TimesInv, missed = {}, missed' = {}, FileSystem, ~tick
  PROVE  \E e \in Items \cup Moves :
           /\ Tell(e)
           /\ daemon = "off" => \A i \in Files :
                disk'[i] = disk[i] \/ ~hasDocument(i) \/ (disk'[i] # Absent /\ doc[i].ctime # disk'[i].ctime)
           /\ \A i \in Files :
                \/ /\ disk'[i].path = Step(e, disk[i].path)
                   /\ hasDocument(i) /\ disk'[i].ctime # disk[i].ctime /\ disk'[i] # Absent => doc[i].ctime # disk'[i].ctime
                   /\ disk'[i].content # disk[i].content /\ disk'[i] # Absent => e.kind = "modified" /\ e.path = disk'[i].path
                   /\ disk'[i].xattr # disk[i].xattr /\ disk'[i] # Absent => e.kind = "xattr" /\ e.path = disk'[i].path
                \/ ~hasDocument(i) /\ e = ToBeIndexed("new", disk'[i].path) /\ disk'[i].path \in Paths
<1> DEFINE Told(e, i) ==
             \/ /\ disk'[i].path = Step(e, disk[i].path)
                /\ hasDocument(i) /\ disk'[i].ctime # disk[i].ctime /\ disk'[i] # Absent => doc[i].ctime # disk'[i].ctime
                /\ disk'[i].content # disk[i].content /\ disk'[i] # Absent => e.kind = "modified" /\ e.path = disk'[i].path
                /\ disk'[i].xattr # disk[i].xattr /\ disk'[i] # Absent => e.kind = "xattr" /\ e.path = disk'[i].path
             \/ ~hasDocument(i) /\ e = ToBeIndexed("new", disk'[i].path) /\ disk'[i].path \in Paths
           Untold(i) == disk'[i] = disk[i] \/ ~hasDocument(i) \/ (disk'[i] # Absent /\ doc[i].ctime # disk'[i].ctime)
<1>1. /\ disk \in [Files -> FileInfo] /\ Absent.path = Nowhere /\ Absent \in FileInfo
      /\ \A i \in Files : disk[i].path = Nowhere <=> disk[i] = Absent
      /\ Nowhere \notin Paths /\ second \in Nat
  BY Infos, AbsentIsTyped DEF Types, Bounds, Absent
<1>2. \A e, p : e.kind # "moved" => Step(e, p) = p
  BY DEF Step
<1>3. \A k, p : ToBeIndexed(k, p).kind = k /\ ToBeIndexed(k, p).path = p
  BY DEF ToBeIndexed
<1>4. \A p, q, x : Moved(p, q).kind = "moved" /\ Step(Moved(p, q), x) = IF x = p THEN q ELSE IF x = q THEN Nowhere ELSE x
  BY DEF Moved, Step
<1>5. \A i \in Files : disk[i] # Absent => disk[i].path \in Paths
  BY <1>1 DEF FileInfo
<1>6. ASSUME NEW e \in Items \cup Moves, NEW i \in Files, disk'[i] = disk[i], Step(e, disk[i].path) = disk[i].path PROVE Told(e, i) /\ Untold(i)
  BY <1>6
<1>7. ASSUME NEW k \in Files, NEW c, write(k, c)
      PROVE  \E e \in Items \cup Moves : Tell(e) /\ \A i \in Files : Told(e, i) /\ Untold(i)
  <2>1. PICK e : e = ToBeIndexed("modified", disk[k].path)
    OBVIOUS
  <2>2. e \in Items \cup Moves /\ Tell(e) /\ e.kind = "modified" /\ e.path = disk[k].path
    BY <1>3, <1>5, <1>7, <2>1, ItemsAreTyped DEF write, Kinds
  <2>3. \A i \in Files : i # k => Told(e, i) /\ Untold(i)
    BY <1>1, <1>2, <1>6, <1>7, <2>2 DEF write
  <2>4. disk'[k].path = disk[k].path /\ disk'[k].ctime = second /\ disk'[k].xattr = disk[k].xattr /\ disk'[k] # Absent
    <3>1. /\ disk'[k].path = disk[k].path /\ disk'[k].ctime = second /\ disk'[k].xattr = disk[k].xattr /\ disk[k] # Absent
      BY <1>1, <1>7 DEF write, FileInfo
    <3> QED BY <1>1, <3>1
  <2>5. doc[k].ctime # second
    BY <1>7, ChangedLater DEF write
  <2>6. Told(e, k) /\ Untold(k)
    BY <1>2, <2>2, <2>4, <2>5
  <2> QED BY <2>2, <2>3, <2>6
<1>8. ASSUME NEW k \in Files, setAttributes(k)
      PROVE  \E e \in Items \cup Moves : Tell(e) /\ \A i \in Files : Told(e, i) /\ Untold(i)
  <2>1. PICK e : e = ToBeIndexed("xattr", disk[k].path)
    OBVIOUS
  <2>2. e \in Items \cup Moves /\ Tell(e) /\ e.kind = "xattr" /\ e.path = disk[k].path
    BY <1>3, <1>5, <1>8, <2>1, ItemsAreTyped DEF setAttributes, Kinds
  <2>3. \A i \in Files : i # k => Told(e, i) /\ Untold(i)
    BY <1>1, <1>2, <1>6, <1>8, <2>2 DEF setAttributes
  <2>4. disk'[k].path = disk[k].path /\ disk'[k].ctime = second /\ disk'[k].content = disk[k].content /\ disk'[k] # Absent
    <3>1. /\ disk'[k].path = disk[k].path /\ disk'[k].ctime = second /\ disk'[k].content = disk[k].content /\ disk[k] # Absent
      BY <1>1, <1>8 DEF setAttributes, FileInfo
    <3> QED BY <1>1, <3>1
  <2>5. doc[k].ctime # second
    BY <1>8, ChangedLater DEF setAttributes
  <2>6. Told(e, k) /\ Untold(k)
    BY <1>2, <2>2, <2>4, <2>5
  <2> QED BY <2>2, <2>3, <2>6
<1>9. ASSUME NEW k \in Files, remove(k)
      PROVE  \E e \in Items \cup Moves : Tell(e) /\ (\A i \in Files : Told(e, i)) /\ daemon # "off"
  <2>1. PICK e : e = Moved(disk[k].path, Nowhere)
    OBVIOUS
  <2>2. e \in Items \cup Moves /\ Tell(e)
    BY <1>5, <1>9, <2>1, ItemsAreTyped DEF remove
  <2>3. disk[k] # Absent /\ Changed(k, IF daemon = "off" THEN {"lostRemoval"} ELSE {})
        /\ disk' = [disk EXCEPT ![k] = Absent]
    BY <1>9 DEF remove
  <2>4. daemon # "off"
    BY <2>3, ChangedLater
  <2>5. ASSUME NEW i \in Files, i # k PROVE Told(e, i)
    <3>1. disk[i].path # disk[k].path
      BY <2>3, <2>5 DEF OnePathEach
    <3>2. Step(e, disk[i].path) = disk[i].path /\ disk'[i] = disk[i]
      BY <1>1, <1>4, <2>1, <2>3, <2>5, <3>1
    <3> QED BY <1>6, <2>2, <3>2
  <2>6. Told(e, k)
    BY <1>1, <1>4, <2>1, <2>3
  <2> QED BY <2>2, <2>4, <2>5, <2>6
<1>10. ASSUME NEW k \in Files, NEW p \in Paths, create(k, p)
       PROVE  \E e \in Items \cup Moves : Tell(e) /\ \A i \in Files : Told(e, i) /\ Untold(i)
  <2>1. PICK e : e = ToBeIndexed("new", p)
    OBVIOUS
  <2>2. e \in Items \cup Moves /\ Tell(e) /\ e.kind = "new"
    BY <1>3, <1>10, <2>1, ItemsAreTyped DEF create, Kinds
  <2>3. \A i \in Files : i # k => Told(e, i) /\ Untold(i)
    BY <1>1, <1>2, <1>6, <1>10, <2>2 DEF create
  <2>4. ~hasDocument(k) /\ disk'[k].path = p
    BY <1>1, <1>10 DEF create
  <2> QED BY <2>1, <2>2, <2>3, <2>4
<1>11. ASSUME NEW k \in Files, NEW p \in Paths, rename(k, p)
       PROVE  \E e \in Items \cup Moves : Tell(e) /\ (\A i \in Files : Told(e, i)) /\ (daemon = "off" => \A i \in Files : Untold(i))
  <2>1. PICK e : e = Moved(disk[k].path, p)
    OBVIOUS
  <2>2. e \in Items \cup Moves /\ Tell(e)
    BY <1>5, <1>11, <2>1, ItemsAreTyped DEF rename
  <2>3. /\ disk[k] # Absent /\ disk[k].path # p
        /\ disk'[k].path = p /\ disk'[k].ctime = second /\ disk'[k].content = disk[k].content /\ disk'[k].xattr = disk[k].xattr
        /\ \A i \in Files : i # k => disk'[i] = IF disk[i].path = p THEN Absent ELSE disk[i]
        /\ disk'[k] # Absent
    <3>1. disk'[k] = [disk[k] EXCEPT !.path = p, !.ctime = second] /\ disk[k] # Absent /\ disk[k].path # p
      BY <1>11 DEF rename
    <3>2. disk'[k].path = p /\ disk'[k].ctime = second /\ disk'[k].content = disk[k].content /\ disk'[k].xattr = disk[k].xattr
      BY <1>1, <3>1 DEF FileInfo
    <3> QED BY <1>1, <1>11, <3>1, <3>2 DEF rename
  <2>4. (IF daemon = "off" /\ at(p) # {} THEN {"lostRemoval"} ELSE {}) = {} /\ doc[k].ctime # second
    BY <1>11, ChangedLater DEF rename
  <2>5. daemon = "off" => \A i \in Files : Untold(i)
    <3>1. daemon = "off" => at(p) = {}
      BY <2>4
    <3> QED BY <2>3, <2>4, <3>1 DEF at
  <2>6. Told(e, k)
    BY <1>4, <2>1, <2>3, <2>4
  <2>7. ASSUME NEW i \in Files, i # k PROVE Told(e, i)
    <3>1. disk[i].path # disk[k].path
      BY <2>3, <2>7 DEF OnePathEach
    <3>2. CASE disk[i].path = p
      <4>1. disk'[i] = Absent /\ disk'[i].path = Step(e, disk[i].path)
        BY <1>1, <1>4, <2>1, <2>3, <2>7, <3>1, <3>2
      <4> QED BY <4>1
    <3>3. CASE disk[i].path # p
      BY <1>4, <1>6, <2>1, <2>2, <2>3, <2>7, <3>1, <3>3
    <3> QED BY <3>2, <3>3
  <2> QED BY <2>2, <2>5, <2>6, <2>7
<1>12. \E e \in Items \cup Moves : Tell(e) /\ (\A i \in Files : Told(e, i)) /\ (daemon = "off" => \A i \in Files : Untold(i))
  <2> HIDE DEF Told, Untold
  <2> QED BY <1>7, <1>8, <1>9, <1>10, <1>11 DEF FileSystem
<1> QED BY <1>12

LEMMA FollowsFileSystem ==
  ASSUME Bounds, Types, Types', Turns, OnePathEach, TimesInv, missed = {}, missed' = {}, ~WillMiss',
         NEW f, Replay(f), \A i \in Files : IsFollowed(f, i), FileSystem
  PROVE  extracted' = extracted /\ \E g : Replay(g)' /\ \A i \in Files : IsFollowed(g, i)'
<1> USE DEF files, index, indexers
<1>1. UNCHANGED <<doc, marked, lists, daemon, job, looked, extracted>>
  BY DEF FileSystem, tick, write, setAttributes, remove, create, rename, Changed
<1>2. CASE tick
  <2>1. UNCHANGED <<disk, events>>
    BY <1>2 DEF tick
  <2>2. \A i \in Files : IsFollowed(f, i)'
    BY <1>1, <2>1, OthersFollowed
  <2> QED BY <1>1, <2>1, <2>2, ReplayStays
<1>3. CASE ~tick
  <2>1. PICK e \in Items \cup Moves :
           /\ Tell(e)
           /\ daemon = "off" => \A i \in Files :
                disk'[i] = disk[i] \/ ~hasDocument(i) \/ (disk'[i] # Absent /\ doc[i].ctime # disk'[i].ctime)
           /\ \A i \in Files :
                \/ /\ disk'[i].path = Step(e, disk[i].path)
                   /\ hasDocument(i) /\ disk'[i].ctime # disk[i].ctime /\ disk'[i] # Absent => doc[i].ctime # disk'[i].ctime
                   /\ disk'[i].content # disk[i].content /\ disk'[i] # Absent => e.kind = "modified" /\ e.path = disk'[i].path
                   /\ disk'[i].xattr # disk[i].xattr /\ disk'[i] # Absent => e.kind = "xattr" /\ e.path = disk'[i].path
                \/ ~hasDocument(i) /\ e = ToBeIndexed("new", disk'[i].path) /\ disk'[i].path \in Paths
    BY <1>3, FileChanges
  <2>2. CASE daemon = "off"
    <3>1. events' = events
      BY <2>1, <2>2 DEF Tell
    <3>2. ASSUME NEW i \in Files PROVE IsFollowed(f, i)'
      <4>1. \A kind : Due(f, kind, i)'
        BY <1>1, <2>2 DEF Due
      <4>2. PathIsRight(f, i)'
        <5>1. disk'[i] = disk[i] \/ ~hasDocument(i) \/ (disk'[i] # Absent /\ doc[i].ctime # disk'[i].ctime)
          BY <2>1, <2>2
        <5>2. Unchecked(i) /\ disk'[i] = disk[i] => Unchecked(i)'
          BY <1>1, <2>2 DEF Unchecked
        <5>3. disk'[i] # Absent /\ doc[i].ctime # disk'[i].ctime => Unchecked(i)'
          BY <1>1, <2>2 DEF Unchecked
        <5>4. hasDocument(i)' <=> hasDocument(i)
          BY <1>1 DEF hasDocument
        <5>5. PathIsRight(f, i)
          BY DEF IsFollowed
        <5> QED BY <1>1, <5>1, <5>2, <5>3, <5>4, <5>5 DEF PathIsRight
      <4> QED BY <4>1, <4>2 DEF IsFollowed, WillBeAdded, WillBeRead
    <3> QED BY <1>1, <3>1, <3>2, ReplayStays
  <2>3. CASE daemon # "off"
    <3>1. events' = Append(events, e)
      BY <2>1, <2>3 DEF Tell
    <3>2. PICK g : /\ Replay(g)'
                   /\ \A n \in 0..Len(events) : \A p \in Places : g[n][p] = Step(e, f[n][p])
                   /\ \A p \in Places : g[Len(events) + 1][p] = p
      BY <3>1, Appended
    <3>3. ASSUME NEW i \in Files PROVE IsFollowed(g, i)'
      <4>1. disk'[i] \in FileInfo /\ (disk'[i].path = Nowhere => disk'[i] = Absent)
        BY DEF Types
      <4>2. CASE ~hasDocument(i) /\ e = ToBeIndexed("new", disk'[i].path) /\ disk'[i].path \in Paths
        <5>1. Len(events) \in Nat /\ Len(events') = Len(events) + 1 /\ events'[Len(events) + 1] = e
          BY <3>1, Sent DEF Types
        <5>2. /\ Len(events) + 1 \in 1..Len(events') /\ e.kind = "new" /\ e.path = disk'[i].path
              /\ g[Len(events) + 1][e.path] = disk'[i].path
          BY <3>2, <4>2, <5>1 DEF ToBeIndexed, Places
        <5>3. Due(g, "new", i)'
          BY <5>1, <5>2 DEF Due
        <5>4. ~hasDocument(i)'
          BY <1>1, <4>2 DEF hasDocument
        <5> QED BY <5>3, <5>4 DEF IsFollowed, PathIsRight, WillBeAdded, WillBeRead
      <4>3. CASE ~(~hasDocument(i) /\ e = ToBeIndexed("new", disk'[i].path) /\ disk'[i].path \in Paths)
        BY <1>1, <2>1, <2>3, <3>1, <3>2, <4>1, <4>3, FileTold
      <4> QED BY <4>2, <4>3
    <3> QED BY <1>1, <3>2, <3>3
  <2> QED BY <2>2, <2>3
<1> QED BY <1>2, <1>3

LEMMA FollowsNext ==
  ASSUME Bounds, Types, Types', Turns, OnePathEach, TimesInv, FollowsInv, [Next]_vars PROVE FollowsInv'
<1> SUFFICES ASSUME missed' = {}, ~WillMiss'
             PROVE  /\ extracted' # Nothing => extracted'.same
                    /\ \E g : Replay(g)' /\ \A i \in Files : IsFollowed(g, i)'
  BY DEF FollowsInv
<1>1. missed = {}
  BY MissedStays
<1>2. (extracted # Nothing => extracted.same) /\ \E f : Replay(f) /\ \A i \in Files : IsFollowed(f, i)
  BY <1>1, WillMissStays DEF FollowsInv
<1>3. PICK f : Replay(f) /\ \A i \in Files : IsFollowed(f, i)
  BY <1>2
<1>4. CASE FileSystem
  BY <1>1, <1>2, <1>3, <1>4, FollowsFileSystem
<1>5. CASE Jobs
  BY <1>1, <1>3, <1>5, FollowsLook, FollowsRead, FollowsSchedule, FollowsFinish DEF Jobs
<1>6. CASE Contents
  BY <1>1, <1>2, <1>3, <1>6, FollowsExtract, FollowsContents DEF Contents
<1>7. CASE Tools
  BY <1>1, <1>2, <1>3, <1>7, FollowsTools DEF Tools
<1>8. CASE start \/ stop
  <2>1. CASE start
    BY <1>3, <2>1, FollowsStart
  <2>2. CASE stop
    BY <1>3, <2>2, FollowsStop
  <2> QED BY <1>8, <2>1, <2>2
<1>9. CASE indexFile
  BY <1>2, <1>3, <1>9, FollowsIndexFile
<1>10. CASE followMove
  BY <1>2, <1>3, <1>10, FollowsMove
<1>11. CASE UNCHANGED vars
  <2>1. UNCHANGED <<disk, doc, marked, events, lists, daemon, job, looked, extracted>>
    BY <1>11 DEF vars, files, index, indexers
  <2>2. \A i \in Files : IsFollowed(f, i)'
    BY <1>3, <2>1, OthersFollowed
  <2> QED BY <1>2, <1>3, <2>1, <2>2, ReplayStays
<1> QED BY <1>4, <1>5, <1>6, <1>7, <1>8, <1>9, <1>10, <1>11 DEF Next

LEMMA FollowsInit == Bounds => (Init => OnePathEach /\ FollowsInv)
<1> SUFFICES ASSUME Bounds, Init PROVE OnePathEach /\ FollowsInv
  OBVIOUS
<1>1. /\ \A i \in Files : disk[i] = Absent /\ doc[i] = Absent
      /\ extracted = Nothing /\ events = <<>>
  BY DEF Init
<1>2. OnePathEach
  BY <1>1 DEF OnePathEach
<1>3. PICK f : f = [n \in {0} |-> [p \in Places |-> p]]
  OBVIOUS
<1>4. Len(events) = 0 /\ 0..0 = {0} /\ 1..0 = {} /\ f[0] = [p \in Places |-> p] /\ Nowhere \in Places /\ Paths \subseteq Places
  BY <1>1, <1>3 DEF Places
<1>5. Replay(f)
  <2>1. \A p \in Places : f[0][p] = p
    BY <1>4
  <2>2. f \in [0..Len(events) -> [Places -> Places]]
    BY <1>3, <1>4
  <2> QED BY <1>4, <2>1, <2>2 DEF Replay
<1>6. \A i \in Files : IsFollowed(f, i)
  BY <1>1 DEF IsFollowed, PathIsRight, WillBeAdded, WillBeRead, hasDocument, Absent
<1> QED BY <1>1, <1>2, <1>5, <1>6 DEF FollowsInv

\* The inductive invariant of what becomes of each file that a document does not
\* yet agree with: an event, an item of a list or the job that runs will come to
\* it, at the path to which the moves under way take it.
THEOREM FollowsInvariant ==
  ASSUME Bounds PROVE Spec => [](Types /\ Turns /\ TimesInv /\ OnePathEach /\ FollowsInv)
<1>1. Init => Types /\ Turns /\ TimesInv /\ OnePathEach /\ FollowsInv
  BY TypesInit, TimesInit, FollowsInit
<1>2. Types /\ Turns /\ TimesInv /\ OnePathEach /\ FollowsInv /\ [Next]_vars
        => Types' /\ Turns' /\ TimesInv' /\ OnePathEach' /\ FollowsInv'
  BY TypesNext, TurnsNext, TimesNext, OnePathNext, FollowsNext
<1> QED BY <1>1, <1>2, PTL DEF Spec

\* When all lists are done with and none of the known races has happened, every
\* file has the document of its path and attributes, with its present contents or
\* a mark that they are to be read.
THEOREM FilesAreFollowed == ASSUME Bounds PROVE Spec => []DocumentsFollowFiles
<1>1. Types /\ Turns /\ FollowsInv => DocumentsFollowFiles
  <2> SUFFICES ASSUME Types, Turns, FollowsInv, AtRest, missed = {}, NEW i \in Files PROVE Agrees(i)
    BY DEF DocumentsFollowFiles
  <2>1. daemon = "on" /\ job = NoJob /\ lists = {} /\ events = <<>> /\ extracted = Nothing /\ looked = NoLook
    BY DEF AtRest, Turns, NoJob
  <2>2. Len(events) = 0 /\ 1..0 = {} /\ Left = {}
    BY <2>1 DEF Left, NoJob
  <2>3. PICK f : Replay(f) /\ IsFollowed(f, i)
    BY <2>2 DEF FollowsInv, WillMiss
  <2>4. \A kind : ~Due(f, kind, i)
    BY <2>1, <2>2 DEF Due
  <2>5. ~Unchecked(i)
    BY <2>1, <2>2 DEF Unchecked
  <2>6. hasDocument(i) => doc[i].path = disk[i].path
    <3>1. \A p \in Places : f[0][p] = p
      BY <2>2, <2>3 DEF Replay
    <3>2. doc[i].path \in Places
      BY Infos DEF Places
    <3> QED BY <2>3, <2>5, <3>1, <3>2 DEF IsFollowed, PathIsRight
  <2>7. disk[i] # Absent => hasDocument(i)
    BY <2>2, <2>3, <2>4 DEF IsFollowed, WillBeAdded
  <2>8. disk[i] # Absent => ~Stale(i) /\ doc[i].xattr = disk[i].xattr
    BY <2>3, <2>4, <2>7 DEF IsFollowed, WillBeRead
  <2> QED BY <2>6, <2>7, <2>8, Infos DEF Agrees, Stale, Read, hasDocument
<1> QED BY <1>1, FollowsInvariant, PTL

\* Everything that the run asks of the jobs, for any files, paths and times.
THEOREM JobsFollowFiles == ASSUME Bounds PROVE Spec => []IndexFollowsFiles
<1>1. TypeOK /\ DocumentsFollowFiles /\ TimesTell => IndexFollowsFiles
  BY DEF IndexFollowsFiles
<1> QED BY <1>1, TypeCorrect, FilesAreFollowed, EqualTimesTell, PTL
=============================================================================
