------------------------------ MODULE Reminders ------------------------------
(***************************************************************************)
(* JobsService: the daily reminders.  At 8 the booking job reminds of the  *)
(* confirmed bookings of the next 24 hours, at 9 the travel job of the     *)
(* trips that start tomorrow.  Each job loads what is due, then the active *)
(* members of one trip after the other, and saves one notification per     *)
(* member.  The first error ends the run; no later run makes up for it.    *)
(* Trips and bookings appear, and bookings change, at any moment, also     *)
(* between a run's query and its notifications.                            *)
(* Moments are minutes since midnight UTC of day 0.                        *)
(***************************************************************************)
EXTENDS Integers

CONSTANTS
  Travels,       \* trips
  Stays,         \* bookings
  StartDays,     \* bound: days on which trips start
  StartMoments,  \* bound: moments at which bookings start
  Everybody,     \* members of the trips
  Active,        \* those with status ACTIVE
  Clocks,        \* the server's minutes ahead of UTC, on each day
  MaxDelay,      \* minutes that a run may begin after its hour
  LastDay,       \* bound: days that pass
  MaxChanges,    \* bound: trips created and bookings saved
  MaxFails,      \* bound: runs that fail
  Nothing

\* The time zones of the world are whole quarters of an hour from UTC.
ASSUME RemindersAssumption ==
  /\ Travels \cap Stays = {} /\ Nothing \notin Travels \cup Stays
  /\ Active \subseteq Everybody
  /\ StartDays \subseteq Int /\ StartMoments \subseteq Int
  /\ LastDay \in Nat /\ MaxChanges \in Nat /\ MaxFails \in Nat
  /\ MaxDelay \in 0..14
  /\ \A c \in Clocks : \A d \in 0..LastDay + 1 : c[d] \in -720..840 /\ c[d] % 15 = 0

VARIABLES
  today,
  utcOffset,  \* per day: the server's minutes ahead of UTC
  standing,   \* trips that there are; bookings that are CONFIRMED
  starts,     \* trips: the day they start; bookings: the moment
  changes,    \* history: trips created and bookings saved
  steady,     \* history: the first day whose run begins after the last change
  ran,        \* per job: the last day it ran on
  run,        \* per job: what it has still to do
  reminders,  \* per trip or booking and member: the days of their reminders
  fails

remVars == <<today, utcOffset, standing, starts, changes, steady, ran, run, reminders, fails>>

Jobs == {"travel", "booking"}
Subjects == Travels \cup Stays
Job(s) == IF s \in Travels THEN "travel" ELSE "booking"

NoRun == [todo |-> {}, subject |-> Nothing, members |-> {}]
Run == [todo : SUBSET Subjects, subject : Subjects \cup {Nothing}, members : SUBSET Everybody]

RemindersInit ==
  /\ today = 0
  /\ utcOffset \in Clocks
  /\ standing = {}
  /\ starts = [s \in Subjects |-> 0]
  /\ changes = 0
  /\ steady = [s \in Subjects |-> 0]
  /\ ran = [j \in Jobs |-> -1]
  /\ run = [j \in Jobs |-> NoRun]
  /\ reminders = [s \in Subjects |-> [m \in Everybody |-> {}]]
  /\ fails = 0

-----------------------------------------------------------------------------
Hour == 60
Day == 24 * Hour

\* A moment of the server's clock, and the day that toISOString() shows then.
Instant(day, minute) == Day * day + minute - utcOffset[day]
UtcDay(moment) == moment \div Day

\* startDate = dateStr, when the job looks at the clock at 9 or a little later.
TravelDue(delay) ==
  {t \in Travels \cap standing : starts[t] = UtcDay(Instant(today + 1, 9 * Hour + delay))}

\* Mutant: a window of 25 hours.
BookingDueLonger(delay) ==
  LET now == Instant(today, 8 * Hour + delay)
  IN {b \in Stays \cap standing : now <= starts[b] /\ starts[b] <= now + Day + Hour}

\* CONFIRMED, and startsAt between now and in24h, both included.
BookingDue(delay) ==
  LET now == Instant(today, 8 * Hour + delay)
  IN {b \in Stays \cap standing : now <= starts[b] /\ starts[b] <= now + Day}

Start(j, due) ==
  /\ ran[j] < today
  /\ ran' = [ran EXCEPT ![j] = today]
  /\ run' = [run EXCEPT ![j] = [NoRun EXCEPT !.todo = due]]
  /\ UNCHANGED <<today, utcOffset, standing, starts, changes, steady, reminders, fails>>

SendTravelReminders == \E delay \in 0..MaxDelay : Start("travel", TravelDue(delay))
SendBookingReminders == \E delay \in 0..MaxDelay : Start("booking", BookingDue(delay))

\* The active members of the next trip.
LoadMembers(j, s) ==
  /\ run[j].subject = Nothing
  /\ s \in run[j].todo
  /\ run' = [run EXCEPT ![j] = [todo |-> run[j].todo \ {s}, subject |-> s, members |-> Active]]
  /\ UNCHANGED <<today, utcOffset, standing, starts, changes, steady, ran, reminders, fails>>

\* notificationsService.create() for one member.
Remind(j, m) ==
  /\ m \in run[j].members
  /\ reminders' = [reminders EXCEPT ![run[j].subject][m] = @ \cup {today}]
  /\ run' = [run EXCEPT ![j].members = @ \ {m}]
  /\ UNCHANGED <<today, utcOffset, standing, starts, changes, steady, ran, fails>>

NextSubject(j) ==
  /\ run[j].subject # Nothing /\ run[j].members = {}
  /\ run' = [run EXCEPT ![j].subject = Nothing]
  /\ UNCHANGED <<today, utcOffset, standing, starts, changes, steady, ran, reminders, fails>>

\* An error is logged and ends the run; or the server is down when it is due.
JobFails(j) ==
  /\ fails < MaxFails
  /\ run[j] # NoRun \/ ran[j] < today
  /\ ran' = [ran EXCEPT ![j] = today]
  /\ run' = [run EXCEPT ![j] = NoRun]
  /\ fails' = fails + 1
  /\ UNCHANGED <<today, utcOffset, standing, starts, changes, steady, reminders>>

\* A change counts from the next run on: today's may have made its query.
Change(s, start) ==
  /\ changes < MaxChanges
  /\ starts' = [starts EXCEPT ![s] = start]
  /\ changes' = changes + 1
  /\ steady' = [steady EXCEPT ![s] = IF ran[Job(s)] < today THEN today ELSE today + 1]
  /\ UNCHANGED <<today, utcOffset, ran, run, reminders, fails>>

\* A trip keeps its startDate.
NewTrip(t, start) ==
  /\ t \notin standing
  /\ standing' = standing \cup {t}
  /\ Change(t, start)

(* createBooking, updateBooking, and the simulation and the application of  *)
(* a rebooking save any status and any startsAt.                            *)
SaveBooking(b, start) ==
  /\ standing' \in {standing \cup {b}, standing \ {b}}
  /\ Change(b, start)

\* A run ends before the next one is due.
NextDay ==
  /\ today < LastDay
  /\ \A j \in Jobs : ran[j] = today /\ run[j] = NoRun
  /\ today' = today + 1
  /\ UNCHANGED <<utcOffset, standing, starts, changes, steady, ran, run, reminders, fails>>

RemindersNext ==
  \/ SendTravelReminders \/ SendBookingReminders
  \/ \E j \in Jobs :
       \/ \E s \in Subjects : LoadMembers(j, s)
       \/ \E m \in Everybody : Remind(j, m)
       \/ NextSubject(j) \/ JobFails(j)
  \/ \E t \in Travels, d \in StartDays : NewTrip(t, d)
  \/ \E b \in Stays, moment \in StartMoments : SaveBooking(b, moment)
  \/ NextDay

-----------------------------------------------------------------------------
RemindersTypeOK ==
  /\ today \in 0..LastDay
  /\ utcOffset \in Clocks
  /\ standing \subseteq Subjects
  /\ starts \in [Subjects -> Int]
  /\ changes \in 0..MaxChanges
  /\ steady \in [Subjects -> 0..LastDay + 1]
  /\ ran \in [Jobs -> -1..LastDay]
  /\ run \in [Jobs -> Run]
  /\ reminders \in [Subjects -> [Everybody -> SUBSET (0..LastDay)]]
  /\ fails \in 0..MaxFails

(* The trips that the run of a day looks for: those of the next day, except *)
(* that ten hours and more ahead of UTC, 9 in the morning is still the day  *)
(* before, so that a trip is announced on the day it starts.                *)
TravelDay(d) == IF utcOffset[d + 1] <= 9 * Hour THEN d + 1 ELSE d

(* The run of day d finds s however late it begins; or if it begins at some *)
(* minute after the hour.                                                   *)
SurelyDue(s, d) ==
  /\ s \in standing
  /\ s \in Travels => starts[s] = TravelDay(d)
  /\ s \in Stays => starts[s] - Instant(d, 8 * Hour) \in MaxDelay..Day
PossiblyDue(s, d) ==
  /\ s \in standing
  /\ s \in Travels => starts[s] = TravelDay(d)
  /\ s \in Stays => starts[s] - Instant(d, 8 * Hour) \in 0..Day + MaxDelay

RunOver(j, d) == d < today \/ (d = today /\ ran[j] = d /\ run[j] = NoRun)

ClockUnchanged == \A c, d \in 0..LastDay + 1 : utcOffset[c] = utcOffset[d]

\* Starts that two daily runs may find, or none: the minutes after 8.
OnTheHour(b) ==
  \E d \in 0..LastDay + 1 : starts[b] - Instant(d, 8 * Hour) \in 0..MaxDelay

\* A booking that starts between the first run after its last change and today's.
BetweenRuns(b) ==
  /\ steady[b] <= today
  /\ Instant(steady[b], 8 * Hour) < starts[b] /\ starts[b] < Instant(today, 8 * Hour)
  /\ ~OnTheHour(b)

(* "trips starting tomorrow", "bookings in the next 24 hours".  Only active *)
(* members are reminded.  What runs send that began after the last change   *)
(* of a trip or a booking is right: it is there (CONFIRMED) and in the      *)
(* run's window.  If no run failed, nobody active is left out by a run      *)
(* that surely finds it.  On a clock that is not changed the windows        *)
(* neither overlap nor leave a gap, but for bookings that start in the      *)
(* minutes after 8: at most one reminder, and at least one of a booking     *)
(* that starts between two runs.                                            *)
RemindedOnce ==
  \A s \in Subjects, m \in Everybody :
    LET days == {d \in reminders[s][m] : d >= steady[s]} IN
    /\ m \notin Active => reminders[s][m] = {}
    /\ \A d \in days : PossiblyDue(s, d)
    /\ \A d, e \in days : d # e => ~ClockUnchanged \/ (s \in Stays /\ OnTheHour(s))
    /\ m \in Active /\ fails = 0 =>
         /\ \A d \in steady[s]..today :
              SurelyDue(s, d) /\ RunOver(Job(s), d) => d \in reminders[s][m]
         /\ s \in Stays \cap standing /\ ClockUnchanged /\ BetweenRuns(s) => days # {}
=============================================================================
