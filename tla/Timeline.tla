------------------------------- MODULE Timeline -------------------------------
(***************************************************************************)
(* The KIO worker that shows files by the day of their last change         *)
(* (kio_timeline.cpp, timelinetools.cpp), with the filter by date of a     *)
(* search (searchstore.cpp). Each month and day of a listing is a search   *)
(* of its own, and the date is asked for again and again.                  *)
(*                                                                         *)
(* The calendar is scaled: a year has two months of two days, and three in *)
(* the second month of odd years. Day 0 is the first of January 1970. A    *)
(* path is a sequence of "/" and names, each a tuple that begins with what *)
(* it is.                                                                  *)
(***************************************************************************)
EXTENDS Integers, Sequences, SequencesExt

CONSTANTS
  Files,
  Typed,         \* paths that a user opens by hand
  Seconds,       \* of a day
  Offset,        \* of the time zone, to the east
  MaxDay,        \* bound: the last day
  MaxTime,       \* 2^32
  MaxTouches     \* bound: files that change while they are shown

VARIABLES
  today,
  mtime,
  path,          \* what is opened
  redirects,     \* how often that was somewhere else
  listing,       \* what the worker has still to do
  listed,        \* what it has shown
  unsure,        \* files that changed meanwhile
  turned,        \* midnight came meanwhile
  touches

vars == <<today, mtime, path, redirects, listing, listed, unsure, turned, touches>>

-----------------------------------------------------------------------------
(* QDate *)

NoDate == [y |-> 0, m |-> 0, d |-> 0]
DaysIn(y, m) == IF m = 2 /\ y % 2 = 1 THEN 3 ELSE 2
IsValid(date) == date.m \in 1..2 /\ date.d \in 1..DaysIn(date.y, date.m) /\ date.y >= 0

Days(y, m, d) == 4 * y + y \div 2 + 2 * (m - 1) + d - 1
DayNumber(date) == Days(date.y, date.m, date.d)
DateOf(n) ==
  LET y    == CHOOSE y \in (n \div 5)..(n \div 4) : Days(y, 1, 1) <= n /\ n < Days(y + 1, 1, 1)
      past == n - Days(y, 1, 1)
  IN  IF past < 2 THEN [y |-> y, m |-> 1, d |-> past + 1] ELSE [y |-> y, m |-> 2, d |-> past - 1]

\* The last day of a month stands for those that it does not have.
InMonth(y, m, d) == [y |-> y, m |-> m, d |-> IF d > DaysIn(y, m) THEN DaysIn(y, m) ELSE d]
AddYears(date, n) == InMonth(date.y + n, date.m, date.d)
AddMonths(date, n) == LET k == 2 * date.y + date.m - 1 + n IN InMonth(k \div 2, (k % 2) + 1, date.d)
AddDays(date, n) == DateOf(DayNumber(date) + n)

startOfDay(date) == DayNumber(date) * Seconds - Offset
endOfDay(date) == startOfDay(date) + Seconds - 1

-----------------------------------------------------------------------------
(* timelinetools.cpp *)

Slash == <<"/">>
Sections(p) == SelectSeq(p, LAMBDA t : t # Slash)
Chopped(p) == IF p # <<>> /\ Last(p) = Slash THEN Front(p) ELSE p

canonicalizeTimelineUrl(p) ==
  LET single  == IF \E n \in 1..(Len(p) - 1) : p[n] = Slash /\ p[n + 1] = Slash
                 THEN LET s == Sections(p)
                      IN  IF s = <<>> THEN <<Slash>> ELSE [n \in 1..(2 * Len(s)) |-> IF n % 2 = 1 THEN Slash ELSE s[n \div 2]]
                 ELSE p
      chopped == IF Len(single) > 1 THEN Chopped(single) ELSE single
  IN  IF chopped = <<>> \/ Head(chopped) # Slash THEN <<Slash>> \o chopped ELSE chopped

\* A day may come with years, months and days to be added to it.
applyRelativeDateModificators(date, rel) == AddDays(AddMonths(AddYears(date, rel.years), rel.months), rel.days)

Folder(type, date) == [type |-> type, date |-> date]
NoFolder == Folder("none", NoDate)

IsDate(t) == t[1] \in {"month", "day"}

\* Names that begin with "today" are all today.
parseTimelineUrl(url) ==
  LET p  == Chopped(url)
      s  == Sections(p)
      at == IF IsDate(Last(s)) THEN Len(s) ELSE Len(s) - 1
      t  == s[at]
  IN  CASE p = <<>> -> Folder("root", NoDate)
        [] Len(p) > 1 /\ p[2][1] \in {"today", "todays"} -> Folder("day", DateOf(today))
        [] p = <<Slash, <<"calendar">>>> -> Folder("calendar", NoDate)
        [] OTHER ->
             IF at = 0 \/ ~IsDate(t) THEN NoFolder
             ELSE IF t[1] = "month"
                  THEN IF t[3] \in 1..2 THEN Folder("month", [y |-> t[2], m |-> t[3], d |-> 1]) ELSE NoFolder
             ELSE LET date == [y |-> t[2], m |-> t[3], d |-> t[4]]
                  IN  IF ~IsValid(date) THEN NoFolder
                      ELSE Folder("day", applyRelativeDateModificators(date, t[5]))

-----------------------------------------------------------------------------
(* The filter by date of constructQuery(); 0 stands for any month or day. *)

\* Mutant: every month has as many days as the first.
EndDate_ShortMonth(y, m, d) ==
  IF m = 0 THEN [y |-> y, m |-> 2, d |-> DaysIn(y, 2)]
  ELSE [y |-> y, m |-> m, d |-> IF d = 0 THEN DaysIn(y, 1) ELSE d]

EndDate(y, m, d) ==
  IF m = 0 THEN [y |-> y, m |-> 2, d |-> DaysIn(y, 2)]
  ELSE [y |-> y, m |-> m, d |-> IF d = 0 THEN DaysIn(y, m) ELSE d]

StartDate(y, m, d) == [y |-> y, m |-> IF m = 0 THEN 1 ELSE m, d |-> IF d = 0 THEN 1 ELSE d]

\* mTimeRangeIter() takes both ends as quint32.
FilesIn(y, m, d) ==
  LET start == startOfDay(StartDate(y, m, d)) % MaxTime
      end   == endOfDay(EndDate(y, m, d)) % MaxTime
  IN  {f \in Files : start <= mtime[f] /\ mtime[f] <= end}

-----------------------------------------------------------------------------
(* The worker. *)

Nothing == [type |-> "nothing", year |-> 0, month |-> 0, next |-> 0, last |-> 0]
Idle == listing = Nothing

\* listDir(): a path that is not canonical is opened again as what it should be.
open(p) ==
  /\ path' = p /\ listed' = {} /\ unsure' = {} /\ turned' = FALSE
  /\ IF canonicalizeTimelineUrl(p) # p
     THEN listing' = [Nothing EXCEPT !.type = "redirect"]
     ELSE LET folder == parseTimelineUrl(p)
          IN  listing' = CASE folder.type = "calendar" -> [Nothing EXCEPT !.type = "year"]
                           [] folder.type = "month" ->
                                [Nothing EXCEPT !.type = "days", !.year = folder.date.y, !.month = folder.date.m,
                                                !.next = 1, !.last = DaysIn(folder.date.y, folder.date.m)]
                           [] folder.type = "day" ->
                                [Nothing EXCEPT !.type = "files", !.year = folder.date.y, !.month = folder.date.m,
                                                !.next = folder.date.d]
                           [] OTHER -> Nothing
  /\ UNCHANGED <<today, mtime, touches>>

openUrl(p) == Idle /\ open(p) /\ redirects' = 0

redirect == listing.type = "redirect" /\ open(canonicalizeTimelineUrl(path)) /\ redirects' = redirects + 1

World == <<today, mtime, touches, path, redirects, unsure, turned>>

\* listThisYearsMonths(): the date is asked for twice.
readYear ==
  /\ listing.type = "year"
  /\ listing' = [listing EXCEPT !.type = "month", !.year = DateOf(today).y]
  /\ UNCHANGED <<World, listed>>

readMonth ==
  /\ listing.type = "month"
  /\ listing' = [listing EXCEPT !.type = "months", !.next = 1, !.last = DateOf(today).m]
  /\ UNCHANGED <<World, listed>>

Advanced == listing' = IF listing.next < listing.last THEN [listing EXCEPT !.next = @ + 1] ELSE Nothing

listMonth ==
  /\ listing.type = "months"
  /\ listed' = listed \cup (IF FilesIn(listing.year, listing.next, 0) # {} THEN {<<"month", listing.year, listing.next>>} ELSE {})
  /\ Advanced /\ UNCHANGED World

Unmoved == [years |-> 0, months |-> 0, days |-> 0]

\* listDays(), filesInDate()
listDay ==
  /\ listing.type = "days"
  /\ LET date == [y |-> listing.year, m |-> listing.month, d |-> listing.next]
     IN  listed' = listed \cup (IF DayNumber(date) <= today /\ FilesIn(date.y, date.m, date.d) # {}
                                THEN {<<"day", date.y, date.m, date.d, Unmoved>>} ELSE {})
  /\ Advanced /\ UNCHANGED World

listFiles ==
  /\ listing.type = "files"
  /\ listed' = {<<"file", f>> : f \in FilesIn(listing.year, listing.month, listing.next)}
  /\ listing' = Nothing /\ UNCHANGED World

-----------------------------------------------------------------------------
(* The world. *)

LastTime == (MaxDay + 1) * Seconds - Offset - 1

touch(f) ==
  /\ ~Idle /\ touches < MaxTouches /\ touches' = touches + 1
  /\ \E t \in 0..LastTime : mtime' = [mtime EXCEPT ![f] = t]
  /\ unsure' = unsure \cup {f}
  /\ UNCHANGED <<today, path, redirects, listing, listed, turned>>

\* No listing takes more than a day.
midnight ==
  /\ ~Idle /\ ~turned /\ today < MaxDay /\ today' = today + 1 /\ turned' = TRUE
  /\ UNCHANGED <<mtime, path, redirects, listing, listed, unsure, touches>>

Init ==
  /\ today \in Days(1, 1, 1)..(MaxDay - 1) /\ mtime \in [Files -> 0..LastTime]
  /\ path = <<Slash>> /\ redirects = 0 /\ listing = Nothing /\ listed = {} /\ unsure = {}
  /\ turned = FALSE /\ touches = 0

\* What is listed is opened below the path that it is listed in.
Entries == {<<>>} \cup {path \o <<Slash, t>> : t \in {u \in listed : IsDate(u)}}

Next ==
  \/ \E p \in Typed : openUrl(p)
  \/ \E p \in Entries \ {<<>>} : openUrl(p)
  \/ redirect \/ readYear \/ readMonth \/ listMonth \/ listDay \/ listFiles
  \/ (\E f \in Files : touch(f)) \/ midnight

Spec == Init /\ [][Next]_vars

-----------------------------------------------------------------------------

\* The day of a file's last change, where the user is
DayOf(f) == DateOf((mtime[f] + Offset) \div Seconds)
Steady == Files \ unsure

\* What was a day's end when the listing began
Ended == IF turned THEN today - 1 ELSE today

AfterEpoch(y, m, d) == startOfDay(StartDate(y, m, d)) >= 0

ShowsMonths ==
  LET year == DateOf(today).y
  IN  /\ \A f \in Steady :
           LET date == DayOf(f)
           IN  /\ date.y = year /\ DateOf(Ended).y = year /\ date.m <= DateOf(Ended).m
               /\ AfterEpoch(date.y, date.m, 0)
               => <<"month", date.y, date.m>> \in listed
      /\ \A t \in listed : unsure # {} \/ \E f \in Files : DayOf(f).y = t[2] /\ DayOf(f).m = t[3]

ShowsDays(month) ==
  /\ \A f \in Steady :
       LET date == DayOf(f)
       IN  /\ date.y = month.y /\ date.m = month.m /\ DayNumber(date) <= Ended
           /\ AfterEpoch(date.y, date.m, date.d)
           => <<"day", date.y, date.m, date.d, Unmoved>> \in listed
  /\ \A t \in listed :
       LET date == [y |-> t[2], m |-> t[3], d |-> t[4]]
       IN  DayNumber(date) <= today /\ (unsure # {} \/ \E f \in Files : DayOf(f) = date)

ShowsFiles(date) ==
  AfterEpoch(date.y, date.m, date.d) /\ ~turned =>
    \A f \in Steady : <<"file", f>> \in listed <=> DayOf(f) = date

\* The calendar shows the months of this year up to the present one that have
\* files, a month its days that have, and a day its files, to the second. What
\* changes meanwhile and what midnight brings may be missed. (At New Year the
\* months of the old year may end with January: year and month are asked for one
\* after the other. The first day of 1970 may begin before time 0, which is a
\* quint32: it is empty then.) A path is redirected once at most, and what is
\* listed opens what it stands for.
ShowsFilesByDay ==
  LET folder == parseTimelineUrl(path)
  IN  /\ redirects <= 1
      /\ Idle => CASE folder.type = "calendar" -> ShowsMonths
                   [] folder.type = "month"    -> ShowsDays(folder.date)
                   [] folder.type = "day"      -> ShowsFiles(folder.date)
                   [] OTHER                    -> listed = {}
      /\ \A t \in listed : IsDate(t) =>
           LET below == path \o <<Slash, t>>
           IN  /\ canonicalizeTimelineUrl(below) = below
               /\ parseTimelineUrl(below) = Folder(t[1], [y |-> t[2], m |-> t[3], d |-> IF t[1] = "day" THEN t[4] ELSE 1])
=============================================================================
