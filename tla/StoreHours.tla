----------------------------- MODULE StoreHours -----------------------------
(***************************************************************************)
(* The opening hours of one store: what a request to save them, whole or   *)
(* in part, does to the row, and what reading them answers.                *)
(*                                                                         *)
(* A save is one transaction: the row it reads is that of its snapshot     *)
(* (Begin), and every column is written (Commit). The row of the store,    *)
(* which every save updates, lets one Commit run at a time.                *)
(***************************************************************************)
EXTENDS Integers, FiniteSets

CONSTANTS
    Day,
    OpenByDefault,  \* days of Day that operate when nothing is said
    Time,           \* times of a day that are used, numbers in their order
    Null,
    Keep,           \* a field the request leaves out
    NoHours,        \* the store has no row
    Dto,            \* requests that are sent, besides those that send back
                    \* what was read
    Editor          \* requests served at the same time

VARIABLES
    hours,      \* the row of store_operating_hours
    saving      \* what each editor is in the middle of

hoursVars == <<hours, saving>>

Moment == Time \union {Null}
DayHours == [open : Moment, close : Moment, operating : BOOLEAN \union {Null}]
Break == [start : Time, end : Time]

\* break_times is JSON with the days that have a break, or NULL if none has;
\* public_holiday_hours is JSON too.
BreakTimes == {Null} \union UNION {[D -> Break] : D \in (SUBSET Day) \ {{}}}

Hours == [days : [Day -> DayHours], breaks : BreakTimes,
          holiday : DayHours \union {Null}, is24 : BOOLEAN]

\* A request: each field of each day may be left out, each part too.
DayDto == [open : Moment \union {Keep}, close : Moment \union {Keep},
           operating : BOOLEAN \union {Keep}]
BreakDto == [start : Moment, end : Moment]
OperationDto ==
    [days : [Day -> DayDto],
     breaks : [Day -> BreakDto \union {Null}] \union {Keep},
     holiday : DayDto \union {Null, Keep}, is24 : BOOLEAN \union {Keep}]

ASSUME HoursAssumption ==
    /\ OpenByDefault \subseteq Day
    /\ Time \subseteq Nat /\ Null \notin Time /\ Keep \notin Time
    /\ Null # Keep /\ Null \notin BOOLEAN /\ Keep \notin BOOLEAN
    /\ Null \notin BreakDto /\ NoHours \notin Hours
    /\ Dto \subseteq OperationDto

NotEditing == [op |-> "idle"]

HoursTypeOK ==
    /\ hours \in Hours \union {NoHours}
    /\ \A w \in Editor : saving[w] # NotEditing =>
          saving[w].dto \in OperationDto /\ saving[w].seen \in Hours \union {NoHours}

HoursInit ==
    /\ hours = NoHours
    /\ saving = [w \in Editor |-> NotEditing]

----------------------------------------------------------------------------
(* Reading *)

\* Faulty: a day on which the store is closed has no hours.
ToOpenDayHours(day) ==
    IF day.operating = TRUE THEN day
    ELSE [open |-> Null, close |-> Null, operating |-> FALSE]

\* isOperating ?? false
toDayHours(day) == [day EXCEPT !.operating = (@ = TRUE)]

toBreakTimes(breaks) ==
    [d \in Day |-> IF breaks # Null /\ d \in DOMAIN breaks THEN breaks[d] ELSE Null]

\* isOperating !== false
toPublicHoliday(holiday) ==
    IF holiday = Null THEN Null ELSE [holiday EXCEPT !.operating = (@ # FALSE)]

toResponse(row) ==
    [days |-> [d \in Day |-> toDayHours(row.days[d])],
     breaks |-> toBreakTimes(row.breaks),
     holiday |-> toPublicHoliday(row.holiday),
     is24 |-> row.is24]

----------------------------------------------------------------------------
(* Saving *)

OrElse(value, otherwise) == IF value = Keep THEN otherwise ELSE value

NoDay == [open |-> Null, close |-> Null, operating |-> Null]

\* Faulty: what the request leaves out becomes the default.
ResolveDayAnew(dto, old, d) ==
    [open |-> OrElse(dto.open, Null), close |-> OrElse(dto.close, Null),
     operating |-> OrElse(dto.operating, d \in OpenByDefault)]

\* resolveTime, resolveCloseTime and the day's isOperating.
resolveDay(dto, old, d) ==
    [open |-> OrElse(dto.open, old.open), close |-> OrElse(dto.close, old.close),
     operating |-> OrElse(dto.operating, IF old.operating # Null THEN old.operating
                                         ELSE d \in OpenByDefault)]

\* A break without a start or an end is none.
WithBreak(breaks) ==
    {d \in Day : breaks[d] # Null /\ breaks[d].start # Null /\ breaks[d].end # Null}

\* Faulty: a break is written whole or in part.
WriteEveryBreak(breaks) ==
    IF WithBreak(breaks) = {} THEN Null
    ELSE [d \in {d \in Day : breaks[d] # Null} |-> breaks[d]]

\* All breaks are written anew: a day that is left out has none.
buildBreakTimes(breaks) ==
    IF WithBreak(breaks) = {} THEN Null
    ELSE [d \in WithBreak(breaks) |-> breaks[d]]

BreaksInOrder(breaks) ==
    \A d \in WithBreak(breaks) : breaks[d].start < breaks[d].end

buildPublicHoliday(day) ==
    [open |-> OrElse(day.open, Null), close |-> OrElse(day.close, Null),
     operating |-> OrElse(day.operating, TRUE)]

HolidayInOrder(day) ==
    LET h == buildPublicHoliday(day) IN
    h.operating /\ h.open # Null /\ h.close # Null => h.open < h.close

\* The requests that are served: another one is refused, or, with null for the
\* public holiday, fails. Either way the transaction is rolled back.
Acceptable(dto) ==
    /\ dto.breaks # Keep => BreaksInOrder(dto.breaks)
    /\ dto.holiday # Keep => dto.holiday # Null /\ HolidayInOrder(dto.holiday)

upsertedHours(dto, existing) ==
    LET old == IF existing # NoHours THEN existing
               ELSE [days |-> [d \in Day |-> NoDay],
                     breaks |-> Null, holiday |-> Null,
                     is24 |-> FALSE] IN
    [days |-> [d \in Day |-> resolveDay(dto.days[d], old.days[d], d)],
     breaks |-> IF dto.breaks = Keep THEN old.breaks ELSE buildBreakTimes(dto.breaks),
     holiday |-> IF dto.holiday = Keep THEN old.holiday
                 ELSE buildPublicHoliday(dto.holiday),
     is24 |-> OrElse(dto.is24, old.is24)]

BeginSaveHours(w, dto, mirror) ==
    /\ saving[w] = NotEditing
    /\ Acceptable(dto)
    /\ saving' = [saving EXCEPT ![w] =
          [op |-> "save", dto |-> dto, seen |-> hours, mirror |-> mirror]]
    /\ UNCHANGED hours

\* The response is sent back as it was read; a store without public holiday
\* hours leaves that field out.
BeginSaveResponse(w) ==
    /\ hours # NoHours
    /\ LET r == toResponse(hours) IN
       BeginSaveHours(w, [r EXCEPT !.holiday = IF @ = Null THEN Keep ELSE @], TRUE)

\* Two saves that both found no row: the second INSERT is refused.
upsertOperatingHours(w) ==
    /\ saving[w] # NotEditing
    /\ saving[w].seen = NoHours => hours = NoHours
    /\ hours' = upsertedHours(saving[w].dto, saving[w].seen)
    /\ saving' = [saving EXCEPT ![w] = NotEditing]

AbortSave(w) ==
    /\ saving[w] # NotEditing
    /\ saving' = [saving EXCEPT ![w] = NotEditing]
    /\ UNCHANGED hours

HoursNext ==
    \E w \in Editor :
       \/ \E dto \in Dto : BeginSaveHours(w, dto, FALSE)
       \/ BeginSaveResponse(w)
       \/ upsertOperatingHours(w)
       \/ AbortSave(w)

HoursSpec == HoursInit /\ [][HoursNext]_hoursVars

----------------------------------------------------------------------------
Saves(w) == saving[w] # NotEditing /\ saving'[w] = NotEditing

Names(dto, d) ==
    \E field \in DOMAIN dto.days[d] : dto.days[d][field] # Keep

\* Saving one day's hours leaves the others as they were, unless another save
\* was committed since this one had read them (store-settings.service.ts,
\* upsertOperatingHours and resolveTime).
OtherDaysKept ==
    hours # NoHours =>
        \A d \in Day : hours'.days[d] # hours.days[d] =>
            \E w \in Editor : /\ Saves(w)
                              /\ \/ Names(saving[w].dto, d)
                                 \/ saving[w].seen # hours

\* Whoever sends back the hours that were read changes nothing, if nothing was
\* saved in between (store-settings.mapper.ts and store-settings.service.ts,
\* which each convert every field).
SavingWhatWasReadIsNoChange ==
    hours' # hours =>
        \E w \in Editor : Saves(w) /\ (~saving[w].mirror \/ saving[w].seen # hours)

\* A save changes what it was asked to change, and nothing else.
SaveIsExact == OtherDaysKept /\ SavingWhatWasReadIsNoChange

\* Every save of opening hours is exact (store-settings.service.ts,
\* upsertOperatingHours).
SavesAreExact == [][SaveIsExact]_hoursVars
=============================================================================
