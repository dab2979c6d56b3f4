----------------------------- MODULE SlotSearch -----------------------------
(***************************************************************************)
(* Searching for free appointment times: the native search, which walks    *)
(* the artist's weekly hours on the studio's clock, and the Square search, *)
(* which turns the requested dates into an interval, splits it into        *)
(* windows Square accepts, asks for each and filters the answers.          *)
(*                                                                         *)
(* Instants are natural numbers of one unit; a calendar day has DayLen of  *)
(* them.  The studio's clock runs ahead by "shift" from instant "at" on: a *)
(* positive shift skips clock times, a negative one repeats them, as the   *)
(* changes to and from daylight saving time do; "east" says that the clock  *)
(* is ahead of UTC.  The windows' limits of a day and of 31 days become    *)
(* DayLen and MaxDays days.  Parsing of dates, sorting, the cut after      *)
(* twenty results and logging are left out.                                *)
(***************************************************************************)
EXTENDS Integers, Sequences, FiniteSets, SequencesExt, FiniteSetsExt

CONSTANTS DayLen,    \* units of time in a calendar day
          MaxDays,   \* longest window Square accepts, in days
          LastTime,  \* instants considered: 0 .. LastTime
          Queries    \* the searches explored

ASSUME SlotBounds == /\ DayLen \in Nat \ {0} /\ MaxDays \in Nat /\ MaxDays >= 2
                     /\ LastTime \in Nat

\* What the routes let in: hours of one weekday that do not overlap, in no
\* particular order (native-calendar-policy.ts:2), a length and a step; and a zone
\* whose clock never goes back to the day before.
ZoneFits(zone) ==
    /\ zone.at \in Nat /\ zone.shift \in -DayLen .. DayLen /\ zone.at + zone.shift \in Nat
    /\ zone.east \in BOOLEAN
    /\ zone.at > 0 => (zone.at - 1) \div DayLen <= (zone.at + zone.shift) \div DayLen

HoursApart(rules) ==
    \A i, j \in DOMAIN rules :
        i # j /\ rules[i].day = rules[j].day => rules[i].to <= rules[j].from \/ rules[j].to <= rules[i].from

NativeFits(q) ==
    /\ q.rules \in Seq([day : 0 .. 6, from : 0 .. DayLen, to : 0 .. DayLen]) /\ HoursApart(q.rules)
    /\ q.from \in Nat /\ q.to \in 1 .. LastTime /\ q.duration \in Nat \ {0} /\ q.step \in Nat \ {0}

SquareFits(q) == q.fromDate \in Nat /\ q.toDate \in Nat /\ q.open \subseteq Nat

ASSUME QueriesFit == \A q \in Queries :
    /\ ZoneFits(q.zone) /\ q.now \in Nat
    /\ \/ q.kind = "native" /\ NativeFits(q)
       \/ q.kind = "square" /\ SquareFits(q)

VARIABLES query,   \* the search: its kind and everything it reads
          stage,   \* how far it has come
          cursor,  \* where its loop stands
          windows, \* Square: the windows to ask for
          found,   \* Square: the starts kept of the answers
          slots    \* native: the starts found so far, as they were found

svars == <<query, stage, cursor, windows, found, slots>>

MaxRange == MaxDays * DayLen

-----------------------------------------------------------------------------
\* The studio's clock.
ClockAt(zone, u) == IF u < zone.at THEN u ELSE u + zone.shift
DateAt(zone, u) == ClockAt(zone, u) \div DayLen

\* localDateTimeToUtc: the instant the clock shows that time, -1 when it never does.
\* Its search begins at that time in UTC, so that of a time that is shown twice it
\* finds the first where the clock is behind UTC, the second where it is ahead.
InstantOf(zone, clock) ==
    LET shown == {u \in 0 .. LastTime + DayLen : ClockAt(zone, u) = clock}
    IN  IF shown = {} THEN -1 ELSE IF zone.east THEN Max(shown) ELSE Min(shown)

Intersect(aFrom, aTo, bFrom, bTo) == aFrom < bTo /\ aTo > bFrom

SlotInit ==
    /\ query \in Queries
    /\ stage = "start"
    /\ cursor = [date |-> 0, rule |-> 1, minute |-> 0, from |-> 0, to |-> 0]
    /\ windows = <<>>
    /\ found = {}
    /\ slots = <<>>

-----------------------------------------------------------------------------
\* getAvailableSlots with a time zone: date by date, rule by rule, in steps.
LastDate == DateAt(query.zone, query.to - 1)

StartNative ==
    /\ query.kind = "native" /\ stage = "start"
    /\ cursor' = [cursor EXCEPT !.date = DateAt(query.zone, query.from), !.minute = -1]
    /\ stage' = "walk"
    /\ UNCHANGED <<query, windows, found, slots>>

\* The time with its buffers meets nothing busy.
Unoccupied(start) ==
    \A b \in query.busy :
        ~Intersect(start - query.before, start + query.duration + query.after,
                   b.from, b.to)

Bookable(start) ==
    /\ start # -1
    /\ start >= query.from /\ start + query.duration <= query.to
    /\ start >= query.now
    /\ Unoccupied(start)

RuleHere == query.rules[cursor.rule]

\* The next rule: entered when it is of that weekday, passed over when it is not.
EnterRule ==
    /\ stage = "walk" /\ cursor.date <= LastDate
    /\ cursor.minute = -1 /\ cursor.rule <= Len(query.rules)
    /\ cursor' = IF RuleHere.day = cursor.date % 7 THEN [cursor EXCEPT !.minute = RuleHere.from]
                                                   ELSE [cursor EXCEPT !.rule = @ + 1]
    /\ UNCHANGED <<query, stage, windows, found, slots>>

TryMinute ==
    LET start == InstantOf(query.zone, cursor.date * DayLen + cursor.minute)
    IN  /\ stage = "walk" /\ cursor.minute # -1
        /\ IF cursor.minute + query.duration <= RuleHere.to
           THEN /\ cursor' = [cursor EXCEPT !.minute = @ + query.step]
                /\ slots' = IF Bookable(start) THEN Append(slots, start) ELSE slots
           ELSE /\ cursor' = [cursor EXCEPT !.rule = @ + 1, !.minute = -1]
                /\ UNCHANGED slots
        /\ UNCHANGED <<query, stage, windows, found>>

NextDate ==
    /\ stage = "walk" /\ cursor.date <= LastDate
    /\ cursor.minute = -1 /\ cursor.rule > Len(query.rules)
    /\ cursor' = [cursor EXCEPT !.date = @ + 1, !.rule = 1]
    /\ UNCHANGED <<query, stage, windows, found, slots>>

FinishWalk ==
    /\ stage = "walk" /\ cursor.date > LastDate
    /\ stage' = "done"
    /\ UNCHANGED <<query, cursor, windows, found, slots>>

-----------------------------------------------------------------------------
\* resolveSquareDateWindow for two dates: a single date lasts until the next one
\* begins, a date that has passed is refused, today starts now.  A date whose midnight
\* the clock skips is no valid instant, and the search fails.
ResolveDates ==
    LET from == InstantOf(query.zone, query.fromDate * DayLen)
        lastDay == IF query.toDate = query.fromDate THEN query.fromDate + 1 ELSE query.toDate
        to == InstantOf(query.zone, lastDay * DayLen)
        today == DateAt(query.zone, query.now)
        begin == IF query.fromDate = today THEN Max({from, query.now}) ELSE from
    IN  /\ query.kind = "square" /\ stage = "start"
        /\ IF from = -1 \/ to = -1 \/ query.fromDate < today \/ to <= begin
           THEN stage' = "refused" /\ UNCHANGED cursor
           ELSE /\ stage' = "split"
                /\ cursor' = [cursor EXCEPT !.from = begin, !.to = to, !.minute = begin]
        /\ UNCHANGED <<query, windows, found, slots>>

Window(from, to) == [from |-> from, to |-> to]

\* A request shorter than a day is widened at its end.
WidenShort ==
    /\ stage = "split"
    /\ cursor.to - cursor.from < DayLen
    /\ windows' = <<Window(cursor.from, Max({cursor.to, cursor.from + DayLen}))>>
    /\ stage' = "ask"
    /\ UNCHANGED <<query, cursor, found, slots>>

\* Faulty variant: a remainder of less than a day becomes a window of its own.
RemainderNever(left) == FALSE
RemainderShort(left) == left < DayLen /\ windows # <<>>

\* buildSquareSearchWindows: full windows, and a short remainder that takes what it
\* lacks from the window before it.
SplitRange ==
    LET left == cursor.to - cursor.minute
        end == Min({cursor.minute + MaxRange, cursor.to})
        seam == cursor.to - DayLen
    IN  /\ stage = "split"
        /\ cursor.to - cursor.from >= DayLen
        /\ IF left = 0
           THEN stage' = "ask" /\ UNCHANGED <<cursor, windows>>
           ELSE /\ UNCHANGED stage
                /\ windows' = IF RemainderShort(left)
                              THEN Front(windows) \o
                                   <<Window(Last(windows).from, seam), Window(seam, cursor.to)>>
                              ELSE Append(windows, Window(cursor.minute, end))
                /\ cursor' = [cursor EXCEPT
                       !.minute = IF RemainderShort(left) THEN cursor.to ELSE end]
        /\ UNCHANGED <<query, found, slots>>

\* translateSquareAvailability keeps what starts inside the request; equal starts of
\* two windows count once.
InRequest(start) == start >= cursor.from /\ start < cursor.to

\* searchAvailability: what Square has open in a window.
OpenIn(w) == {u \in query.open : u >= w.from /\ u < w.to}

AskWindow ==
    /\ stage = "ask" /\ cursor.rule <= Len(windows)
    /\ found' = found \cup {u \in OpenIn(windows[cursor.rule]) : InRequest(u)}
    /\ cursor' = [cursor EXCEPT !.rule = @ + 1]
    /\ UNCHANGED <<query, stage, windows, slots>>

FinishAsking ==
    /\ stage = "ask" /\ cursor.rule > Len(windows)
    /\ stage' = "done"
    /\ UNCHANGED <<query, cursor, windows, found, slots>>

SlotNext == \/ StartNative \/ EnterRule \/ TryMinute \/ NextDate \/ FinishWalk
            \/ ResolveDates \/ WidenShort \/ SplitRange \/ AskWindow \/ FinishAsking

SlotSpec == SlotInit /\ [][SlotNext]_svars

-----------------------------------------------------------------------------
SlotTypeOK ==
    /\ stage \in {"start", "walk", "split", "ask", "done", "refused"}
    /\ \A i \in DOMAIN slots : slots[i] \in 0 .. LastTime + DayLen
    /\ \A i \in DOMAIN windows : windows[i].from < windows[i].to

\* Of two instants at which the clock shows the same, the one that counts.
Preferred(u, v) == IF query.zone.east THEN u >= v ELSE u <= v

\* An instant is free for the native search by the clock on the wall: the studio's
\* clock shows a step of that weekday's hours, of two such instants it is the one
\* that counts, the appointment and its buffers fit.
WallClockFree(u) ==
    LET clock == ClockAt(query.zone, u)
        minute == clock % DayLen
    IN  /\ \E i \in DOMAIN query.rules :
              LET r == query.rules[i]
              IN  /\ r.day = (clock \div DayLen) % 7
                  /\ minute \in {r.from + k * query.step : k \in 0 .. DayLen}
                  /\ minute + query.duration <= r.to
        /\ \A v \in 0 .. LastTime + DayLen : ClockAt(query.zone, v) = clock => Preferred(u, v)
        /\ Bookable(u)

\* The native search offers exactly the free times and none twice, across changes of
\* the clock and the ends of the request (availability.ts:26-57).
NativeSlotsExact ==
    query.kind = "native" /\ stage = "done" =>
        /\ ToSet(slots) = {u \in 0 .. LastTime : WallClockFree(u)}
        /\ \A i, j \in DOMAIN slots : slots[i] = slots[j] => i = j
        /\ \A i \in DOMAIN slots, b \in query.busy :
               ~Intersect(slots[i] - query.before,
                          slots[i] + query.duration + query.after, b.from, b.to)

\* The windows asked of Square leave no gap in the request, do not overlap, and keep
\* Square's limits of a day and MaxDays; the answers kept are those inside it, so that
\* no open time is missed at a seam or offered beyond the dates asked for
\* (square/time.ts:70-92, provider.ts:6-26,103-126).
SquareSearchExact ==
    query.kind = "square" /\ stage = "done" =>
        /\ windows[1].from = cursor.from /\ Last(windows).to >= cursor.to
        /\ \A i \in DOMAIN windows :
               /\ windows[i].to - windows[i].from \in DayLen .. MaxRange
               /\ i > 1 => windows[i].from = windows[i - 1].to
        /\ found = {u \in query.open : InRequest(u)}

\* What the run checks of the searches: exactly the free times are offered.
SlotsSafe == SlotTypeOK /\ NativeSlotsExact /\ SquareSearchExact
=============================================================================
