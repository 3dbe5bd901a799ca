------------------------------- MODULE Filters -------------------------------
(***************************************************************************)
(* The settings of baloofilerc besides the folders, from the file to the   *)
(* names that are excluded. `balooctl config` is a process of its own, with*)
(* two copies of the settings: the lists it prints and edits are those of  *)
(* IndexerConfig::Private::m_config, what it saves as it ends is m_settings.*)
(* The daemon reads the file when it starts and on updateConfig(); its     *)
(* RegExpCache turns the filters into regular expressions.                 *)
(*                                                                         *)
(* A name or a filter is the sequence of its characters. "(" stands for    *)
(* those that QRegularExpression takes for its own: an expression with one *)
(* is invalid and matches nothing.                                         *)
(***************************************************************************)
EXTENDS Naturals, SequencesExt, FiniteSetsExt, TLC

CONSTANTS
  Names,        \* names of files
  Defaults,     \* Defaults[r]: the default of every key in release r
  FilterList,   \* FilterList[r]: defaultExcludeFilterList()
  FilterVersion,\* FilterVersion[r]: defaultExcludeFilterListVersion()
  Commands,     \* <<tool, key, value>>: what `balooctl config` is asked to do
  Shells,       \* 1..n: where balooctl is run
  MaxCommands   \* bound: commands

VARIABLES
  release,      \* of the program that is installed
  entries,      \* of baloofilerc: a function of the keys that have one
  tool,         \* tool[s]: the process that shell s runs
  daemon,       \* FileIndexerConfig of the daemon
  wanted,       \* ghost: what the commands that succeeded, and releases, amount to
  unkept,       \* ghost: default filters of a release that a list of the user does not get
  overlapped,   \* ghost: keys that two commands dealt with at once
  unread,       \* ghost: keys changed since the daemon read the file
  commands      \* number of commands so far

vars == <<release, entries, tool, daemon, wanted, unkept, overlapped, unread, commands>>

Keys == DOMAIN Defaults[release]
Lists == {"filters", "mimetypes"}

KeyOf(command) == IF command[2] = "contentIndexing" THEN "onlyBasic" ELSE command[2]

Idle == [pc |-> "idle"]
Off == [running |-> FALSE]

-----------------------------------------------------------------------------
(* KConfigSkeleton: only what differs from what was read is written, and   *)
(* the entry of what is back at its default is removed.                    *)

load == [k \in Keys |-> IF k \in DOMAIN entries THEN entries[k] ELSE Defaults[release][k]]

\* Mutant: everything is written, as it was read.
save_All(settings, loaded) == [k \in {k \in Keys : settings[k] # Defaults[release][k]} |-> settings[k]]

save(settings, loaded) ==
  LET changed == {k \in Keys : settings[k] # loaded[k]}
      kept    == DOMAIN entries \ changed IN
    [k \in kept \cup {k \in changed : settings[k] # Defaults[release][k]} |->
       IF k \in kept THEN entries[k] ELSE settings[k]]

-----------------------------------------------------------------------------
(* RegExpCache: an expression is a sequence of <<what, how often>>.        *)

literals(f) == [i \in DOMAIN f |-> <<f[i], "once">>]
anything == <<<<"any", "often">>>>

\* f.replace(): "." is escaped, "?" and "*" become "." and ".*"
converted(f) ==
  [i \in DOMAIN f |-> IF f[i] = "?" THEN <<"any", "once">>
                      ELSE IF f[i] = "*" THEN <<"any", "often">> ELSE <<f[i], "once">>]

valid(e) == \A i \in DOMAIN e : e[i][1] # "("

\* e from its i-th part on, with s from its j-th character on
matches(e, s) ==
  LET from[i \in 1..Len(e) + 1, j \in 1..Len(s) + 1] ==
        IF i > Len(e) THEN j > Len(s)
        ELSE \/ e[i][2] = "often" /\ from[i + 1, j]
             \/ /\ j <= Len(s) /\ e[i][1] \in {"any", s[j]}
                /\ IF e[i][2] = "often" THEN from[i, j + 1] ELSE from[i + 1, j + 1] IN
    from[1, 1]

wild(f) == \E i \in DOMAIN f : f[i] \in {"*", "?"}

\* suffixOnlyRe: "*.foo"
isSuffix(f) == Len(f) > 2 /\ f[1] = "*" /\ f[2] = "." /\ \A i \in 3..Len(f) : f[i] \notin {".", "*", "?"}

NoCache == [exact |-> {}, suffixes |-> {}, other |-> {}]

\* Mutant: m_exactMatches is not cleared.
rebuildCacheFromFilterList_Exact(cache, filters) ==
  [exact    |-> cache.exact \cup {f \in ToSet(filters) : ~wild(f)},
   suffixes |-> {SubSeq(f, 3, Len(f)) : f \in {g \in ToSet(filters) : isSuffix(g)}},
   other    |-> {converted(f) : f \in {g \in ToSet(filters) : wild(g) /\ ~isSuffix(g)}}]

\* Mutant: a suffix ends at its first dot, or at its last.
rebuildCacheFromFilterList_Dots(cache, filters) ==
  [exact    |-> {f \in ToSet(filters) : ~wild(f)},
   suffixes |-> {SubSeq(f, 3, Len(f)) : f \in {g \in ToSet(filters) : Len(g) > 2 /\ g[1] = "*"}},
   other    |-> {}]

rebuildCacheFromFilterList(cache, filters) ==
  [exact    |-> {f \in ToSet(filters) : ~wild(f)},
   suffixes |-> {SubSeq(f, 3, Len(f)) : f \in {g \in ToSet(filters) : isSuffix(g)}},
   other    |-> {converted(f) : f \in {g \in ToSet(filters) : wild(g) /\ ~isSuffix(g)}}]

\* "^.*\.(foo|bar)$", one expression for all suffixes; without any it is "^.*\.()$".
suffixMatch(suffixes, s) ==
  LET alternatives == IF suffixes = {} THEN {<<>>} ELSE suffixes IN
    /\ \A a \in alternatives : valid(literals(a))
    /\ \E a \in alternatives : matches(anything \o <<<<".", "once">>>> \o literals(a), s)

exactMatch(cache, s) ==
  \/ s \in cache.exact
  \/ suffixMatch(cache.suffixes, s)
  \/ \E e \in cache.other : valid(e) /\ matches(e, s)

-----------------------------------------------------------------------------
(* FileIndexerConfig. *)

\* "make sure we always keep the latest default exclude filters": those of this release
\* are added to a list of an older one. What is set here is not saved.
updateExcludeFilters(settings) ==
  IF settings.version < FilterVersion[release]
  THEN [settings EXCEPT !.filters = @ \o SelectSeq(FilterList[release], LAMBDA f : f \notin ToSet(settings.filters)),
                        !.version = FilterVersion[release]]
  ELSE settings

buildMimeTypeCache(settings) == ToSet(settings.mimetypes)

cached(cache, settings) ==
  [running |-> TRUE, settings |-> settings, filters |-> rebuildCacheFromFilterList(cache, settings.filters),
   mimetypes |-> buildMimeTypeCache(settings), hidden |-> settings.hidden, onlyBasic |-> settings.onlyBasic]

\* It begins with m_settings->load(): whatever was set before and not saved is gone, what
\* updateExcludeFilters() added too.
forceConfigUpdate(cache, settings) == cached(cache, load)

FileIndexerConfig == forceConfigUpdate(NoCache, updateExcludeFilters(load))

Init ==
  /\ release = 1 /\ entries = <<>>
  /\ tool = [s \in Shells |-> Idle] /\ daemon = Off
  /\ wanted = [k \in Keys |-> IF k \in Lists THEN ToSet(Defaults[1][k]) ELSE Defaults[1][k]]
  /\ unkept = {} /\ overlapped = {} /\ unread = {} /\ commands = 0

\* The daemon starts, or ends with the session.
StartDaemon ==
  /\ ~daemon.running /\ daemon' = FileIndexerConfig /\ unread' = {}
  /\ UNCHANGED <<release, entries, tool, wanted, unkept, overlapped, commands>>

StopDaemon ==
  /\ daemon.running /\ daemon' = Off
  /\ UNCHANGED <<release, entries, tool, wanted, unkept, overlapped, unread, commands>>

\* MainHub::updateConfig(), which IndexerConfig::refresh() asks for
updateConfig ==
  /\ daemon.running /\ unread # {}
  /\ daemon' = forceConfigUpdate(daemon.filters, daemon.settings) /\ unread' = {}
  /\ UNCHANGED <<release, entries, tool, wanted, unkept, overlapped, commands>>

\* The migrator of the daemon notes the version of the database.
setDatabaseVersion(version) ==
  /\ daemon.running /\ daemon.settings.dbVersion # version
  /\ LET settings == [daemon.settings EXCEPT !.dbVersion = version] IN
       /\ daemon' = [daemon EXCEPT !.settings = settings]
       /\ entries' = save(settings, daemon.settings)
       /\ wanted' = [wanted EXCEPT !.dbVersion = version]
  /\ UNCHANGED <<release, tool, unkept, overlapped, unread, commands>>

\* The next release is installed while no program of this one runs. Lists of the user stay
\* as they are, but that of the filters is meant to get the new defaults.
Upgrade ==
  /\ release = 1 /\ release' = 2
  /\ ~daemon.running /\ \A s \in Shells : tool[s] = Idle
  /\ LET own  == DOMAIN entries \cap Lists
         more == IF "filters" \in own THEN ToSet(FilterList[2]) \ wanted.filters ELSE {} IN
       /\ wanted' = [k \in Keys |-> CASE k = "filters" /\ k \in own -> wanted[k] \cup more
                                     [] k \in Lists \ own          -> ToSet(Defaults[2][k])
                                     [] OTHER                      -> wanted[k]]
       /\ unkept' = more
  /\ UNCHANGED <<entries, tool, daemon, overlapped, unread, commands>>

-----------------------------------------------------------------------------
(* balooctl config *)

\* IndexerConfig: m_config is made first, then m_settings. Shells do not differ: the
\* first that is free is used.
ConfigCommand(s, command) ==
  /\ tool[s] = Idle /\ \A o \in 1..s - 1 : tool[o] # Idle
  /\ commands < MaxCommands
  /\ tool' = [tool EXCEPT ![s] = [pc |-> "made", command |-> command, config |-> FileIndexerConfig.settings]]
  /\ commands' = commands + 1
  /\ UNCHANGED <<release, entries, daemon, wanted, unkept, overlapped, unread>>

\* IndexerConfig: lists come from m_config, the others and all changes are m_settings'.
get(config, settings, key) == IF key \in Lists THEN config[key] ELSE settings[key]
set(settings, key, value) == [settings EXCEPT ![key] = value]

\* Each gives the exit code, what is printed, and the settings.
refused(settings) == [code |-> 1, printed |-> 0, settings |-> settings]
changed(settings, key, value) == [code |-> 0, printed |-> 0, settings |-> set(settings, key, value)]

ls(config, settings, key) == [code |-> 0, printed |-> get(config, settings, key), settings |-> settings]

rm(config, settings, key, value) ==
  IF ~Contains(config[key], value) THEN refused(settings)
  ELSE changed(settings, key, SelectSeq(config[key], LAMBDA v : v # value))

add(config, settings, key, value) ==
  IF Contains(config[key], value) THEN refused(settings)
  ELSE changed(settings, key, Append(config[key], value))

\* "contentIndexing" is the opposite of the setting.
setValue(settings, key, value) ==
  IF key = "contentIndexing" THEN changed(settings, "onlyBasic", ~value) ELSE changed(settings, key, value)

result(config, settings, command) ==
  LET key == command[2] value == command[3] IN
    CASE command[1] = "add" -> add(config, settings, key, value)
      [] command[1] = "rm"  -> rm(config, settings, key, value)
      [] command[1] = "set" -> setValue(settings, key, value)
      [] OTHER              -> ls(config, settings, key)

exec(s) ==
  /\ tool[s].pc = "made"
  /\ tool' = [tool EXCEPT ![s] = result(tool[s].config, load, tool[s].command)
                                   @@ [pc |-> "done", command |-> tool[s].command, loaded |-> load]]
  /\ UNCHANGED <<release, entries, daemon, wanted, unkept, overlapped, unread, commands>>

\* ~IndexerConfig() saves m_settings as the process ends.
exit(s) ==
  /\ tool[s].pc = "done"
  /\ LET t == tool[s] key == KeyOf(t.command) value == t.command[3]
         done == t.code = 0 /\ t.command[1] # "list" IN
       /\ entries' = save(t.settings, t.loaded)
       /\ unkept' = IF done /\ t.command[1] = "add" /\ key = "filters" THEN unkept \ {value} ELSE unkept
       /\ wanted' = IF ~done THEN wanted
                    ELSE [wanted EXCEPT ![key] = CASE t.command[1] = "add" -> @ \cup {value}
                                                   [] t.command[1] = "rm"  -> @ \ {value}
                                                   [] OTHER                -> t.settings[key]]
       /\ overlapped' = IF \E o \in Shells \ {s} : tool[o] # Idle /\ KeyOf(tool[o].command) = key
                        THEN overlapped \cup {key} ELSE overlapped
       /\ unread' = IF t.settings # t.loaded THEN unread \cup {key} ELSE unread
  /\ tool' = [tool EXCEPT ![s] = Idle]
  /\ UNCHANGED <<release, daemon, commands>>

Next ==
  \/ StartDaemon \/ StopDaemon \/ updateConfig \/ Upgrade
  \/ setDatabaseVersion(1)
  \/ \E s \in Shells : \/ \E c \in Commands : ConfigCommand(s, c)
                       \/ exec(s)
                       \/ exit(s)

Spec == Init /\ [][Next]_vars

-----------------------------------------------------------------------------
(* Properties. *)

\* What a filter means: name is cut into one piece for every character of it.
Meant(f, name) ==
  \E cut \in [0..Len(f) -> 0..Len(name)] :
    /\ cut[0] = 0 /\ cut[Len(f)] = Len(name)
    /\ \A i \in DOMAIN f :
         /\ cut[i - 1] <= cut[i]
         /\ f[i] # "*" => cut[i] = cut[i - 1] + 1 /\ f[i] \in {"?", name[cut[i]]}

Special(f) == \E i \in DOMAIN f : f[i] = "("

\* "^.*\.()$", of a list without suffixes, excludes names that end in a dot.
Dotted(filters, name) == Last(name) = "." /\ ~\E f \in filters : isSuffix(f)

\* The filters that the settings keep. The gap is named: to a list of the user the new
\* defaults of a release are added and, before anyone uses them, dropped again.
Kept == wanted.filters \ unkept

\* Names are excluded as the filters say that the user asked for: no command, start of
\* the daemon or new release loses one or brings back one that was removed, as long as
\* no wildcard filter has characters that mean something to regular expressions.
FiltersExcludeWhatTheySay ==
  daemon.running /\ "filters" \notin overlapped \cup unread /\ ~(\E f \in Kept : wild(f) /\ Special(f)) =>
    \A n \in Names : Dotted(Kept, n) \/ (exactMatch(daemon.filters, n) <=> \E f \in Kept : Meant(f, n))

\* The other settings the daemon goes by are those of the commands, too.
DaemonObeys ==
  daemon.running =>
    /\ "mimetypes" \notin overlapped \cup unread => daemon.mimetypes = wanted.mimetypes
    /\ \A k \in {"hidden", "onlyBasic"} \ (overlapped \cup unread) : daemon[k] = wanted[k]

\* Of commands that deal with different keys none undoes what another one did, and what
\* a command prints is so.
CommandsAreKept ==
  \A k \in Keys \ (overlapped \cup {"version"}) :
    LET now(v) == IF k \in Lists THEN ToSet(v) ELSE v
        asked  == IF k = "filters" THEN Kept ELSE wanted[k] IN
      /\ now(load[k]) = asked
      /\ \A s \in Shells : tool[s].pc = "done" /\ tool[s].command[1] = "list" /\ KeyOf(tool[s].command) = k =>
           now(tool[s].printed) = asked

FiltersHold == FiltersExcludeWhatTheySay /\ DaemonObeys /\ CommandsAreKept
=============================================================================
