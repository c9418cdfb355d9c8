------------------------------ MODULE Schedule ------------------------------
(***************************************************************************)
(* Overlaps between weekly meetings (domain/offerings/schedule.py).        *)
(*                                                                         *)
(* A date is a number, and date 0 is the first day of a week.  A meeting   *)
(* is a record: its section, its day of the week, its hours [starts,       *)
(* ends), the offset of its time zone from UTC (None if the zone is not    *)
(* known), and the dates [first, last] it is limited to, each possibly     *)
(* None.  A term is a record [first, last].  Daylight saving is left out:  *)
(* a zone has one offset.                                                  *)
(***************************************************************************)
EXTENDS Integers, FiniteSetsExt

CONSTANT None

WeekDays == 0..6
Hours    == 24

\* The dates of a meeting are those of the term, cut to its own limits.
EffectiveRange(m, term) ==
    [first |-> IF m.first = None THEN term.first ELSE Max({term.first, m.first}),
     last  |-> IF m.last = None  THEN term.last  ELSE Min({term.last, m.last})]

\* The first date of the range on the day of the meeting, and every seventh on.
Occurrences(m, term) ==
    LET range  == EffectiveRange(m, term)
        cursor == range.first + ((m.day - range.first) % 7)
    IN IF m.day \in WeekDays THEN {d \in cursor..range.last : (d - cursor) % 7 = 0} ELSE {}

\* The zone is looked up only for a meeting whose range is not empty.
ZoneMissing(m, term) ==
    /\ m.day \in WeekDays /\ m.zone = None
    /\ EffectiveRange(m, term).first <= EffectiveRange(m, term).last

Instant(date, hour, zone) == date * Hours + hour - zone

\* Mutant: meetings are compared on the same date only, whatever their zones.
OverlapOnOneDate(l, r, d, e) ==
    d = e /\ l.starts < r.ends /\ r.starts < l.ends

Overlap(l, r, d, e) ==
    /\ (IF d < e THEN e - d ELSE d - e) <= 1
    /\ Instant(d, l.starts, l.zone) < Instant(e, r.ends, r.zone)
    /\ Instant(e, r.starts, r.zone) < Instant(d, l.ends, l.zone)

Conflict(l, r, term) ==
    /\ l.section # r.section
    /\ \E d \in Occurrences(l, term), e \in Occurrences(r, term) : Overlap(l, r, d, e)

ScheduleState(meetings, term) ==
    IF \E m \in meetings : ZoneMissing(m, term) THEN "UNKNOWN"
    ELSE IF \E l, r \in meetings : Conflict(l, r, term) THEN "CONFLICT"
    ELSE "SCHEDULABLE"

-----------------------------------------------------------------------------
(* What is compared.                                                       *)

\* Meetings as the catalogue holds them: hours of one day, and an offset that is in
\* use somewhere.
IsMeeting(m) ==
    /\ m.day \in Int /\ m.first \in Int \cup {None} /\ m.last \in Int \cup {None}
    /\ m.starts \in 0..Hours /\ m.ends \in 0..Hours /\ m.starts < m.ends
    /\ m.zone \in (-12)..14 \cup {None}

IsTerm(term) == term.first \in Int /\ term.last \in Int

\* Dates further apart than one are not compared.
ZonesClose(meetings) ==
    \A l, r \in meetings : l.zone # None /\ r.zone # None => l.zone - r.zone <= Hours

-----------------------------------------------------------------------------
(* What the verdict means.                                                 *)

\* The meeting takes place at the hour that begins at the instant.
Meets(m, instant, term) ==
    \E d \in term.first..term.last :
        /\ d % 7 = m.day
        /\ m.first = None \/ m.first <= d
        /\ m.last = None \/ d <= m.last
        /\ d * Hours + m.starts <= instant + m.zone /\ instant + m.zone < d * Hours + m.ends

\* Two sections meet at one hour of the term.
SectionsMeet(meetings, term) ==
    \E h \in ((term.first - 1) * Hours)..((term.last + 2) * Hours), l, r \in meetings :
        l.section # r.section /\ Meets(l, h, term) /\ Meets(r, h, term)

\* The meetings of a term are said to be in conflict, or not, as they are.
SaysWhatIs(state, meetings, term) ==
    CASE state = "CONFLICT"    -> SectionsMeet(meetings, term)
      [] state = "SCHEDULABLE" -> ~SectionsMeet(meetings, term)
      [] OTHER                 -> \E m \in meetings : m.zone = None
=============================================================================
