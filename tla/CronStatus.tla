----------------------------- MODULE CronStatus -----------------------------
(***************************************************************************)
(* scripts/cron_snapshot.py and GET /v1/ops/cron: what the admin page says   *)
(* of a job of the host's crontab, from the job's schedule and the time its  *)
(* log was last written.  Time is in minutes of a small calendar without     *)
(* months; a field of a schedule is how it is written and what it lists.     *)
(* Macros, tails and the history of dated logs are left out.                 *)
(***************************************************************************)
EXTENDS Integers, FiniteSets

CONSTANTS
  HourLen, DayLen, MonthLen, WeekLen, \* minutes, minutes, days, days
  Schedules,                          \* [minute, hour, dom, dow] of [form, lists]
  Grace, Stale, Horizon,              \* MISSED_GRACE, _CRON_STALE_SEC, horizon_days
  MaxTime, MaxStops

VARIABLES
  job,    \* the line of the crontab: its schedule, and whether it has a log
  t,      \* now
  cron,   \* whether cron runs
  mtime,  \* when the log was last written, or Never
  mark,   \* whether the log's tail has an error marker
  alive,  \* whether the job's process is there
  snap,   \* logs/cron_status.json
  due,    \* history: when cron should last have started the job
  missed, \* history: it did not start then
  stops
vars == <<job, t, cron, mtime, mark, alive, snap, due, missed, stops>>

Never == -1
Day(u) == u \div DayLen
\* What a field asks of minute u, hour, day of the month and day of the week.
Value(f, u) == CASE f = "minute" -> u % HourLen [] f = "hour" -> (u % DayLen) \div HourLen
                 [] f = "dom" -> (Day(u) % MonthLen) + 1 [] f = "dow" -> Day(u) % WeekLen
\* _expand: only a bare `*' is unrestricted.
Free(s, f) == s[f].form = "*"
Ok(s, f, u) == Free(s, f) \/ Value(f, u) \in s[f].lists
\* matches: with both days restricted, either may match.
MutMatches(s, u) == Ok(s, "minute", u) /\ Ok(s, "hour", u) /\ Ok(s, "dom", u) /\ Ok(s, "dow", u)
Matches(s, u) ==
  /\ Ok(s, "minute", u) /\ Ok(s, "hour", u)
  /\ IF ~Free(s, "dom") /\ ~Free(s, "dow") THEN Ok(s, "dom", u) \/ Ok(s, "dow", u) ELSE Ok(s, "dom", u) /\ Ok(s, "dow", u)
\* prev_expected: the last match of the horizon, the current minute included.
PrevExpected(s, u) ==
  LET past == {v \in 0..u : v > u - Horizon /\ Matches(s, v)} IN
  IF past = {} THEN Never ELSE CHOOSE v \in past : \A w \in past : w <= v
\* Vixie cron itself: a field that begins with `*', `*/n' too, counts as unrestricted.
Starred(s, f) == s[f].form \in {"*", "*/n"}
Starts(s, u) ==
  /\ Ok(s, "minute", u) /\ Ok(s, "hour", u)
  /\ IF Starred(s, "dom") \/ Starred(s, "dow") THEN Ok(s, "dom", u) /\ Ok(s, "dow", u) ELSE Ok(s, "dom", u) \/ Ok(s, "dow", u)
\* A log written up to a minute before the time expected counts as that run's.
Late(expected) == mtime = Never \/ mtime < expected - 1
\* build: the status of the job, the first that applies.
StatusNow ==
  LET expected == PrevExpected(job.sched, t) IN
  IF alive THEN "running"
  ELSE IF expected # Never /\ t - expected > Grace /\ (~job.log \/ Late(expected)) THEN IF job.log THEN "missed" ELSE "unknown"
  ELSE IF ~job.log THEN "unknown" ELSE IF mtime # Never /\ mark THEN "failed" ELSE IF mtime = Never THEN "unknown" ELSE "ok"

TypeOK == t \in 0..MaxTime /\ mtime \in Never..MaxTime /\ snap.status \in {"none", "running", "missed", "unknown", "failed", "ok"}
Init ==
  /\ job \in [sched : Schedules, log : BOOLEAN] /\ t = 0 /\ cron = TRUE /\ mtime = Never /\ mark = FALSE /\ alive = FALSE
  /\ snap = [at |-> 0, status |-> "none"] /\ due = Never /\ missed = FALSE /\ stops = 0

\* A minute passes; cron starts what its schedule asks for, and a job that starts writes its log.
Tick ==
  LET now == t + 1  starts == Starts(job.sched, now) IN
  /\ t < MaxTime /\ t' = now
  /\ due' = IF starts THEN now ELSE due
  /\ missed' = IF starts THEN ~cron ELSE missed
  /\ IF starts /\ cron THEN mtime' = (IF job.log THEN now ELSE mtime) /\ alive' \in BOOLEAN /\ mark' \in BOOLEAN ELSE UNCHANGED <<mtime, alive, mark>>
  /\ UNCHANGED <<job, cron, snap, stops>>
\* A job ends, its last line in the log.
End ==
  /\ alive /\ alive' = FALSE /\ mtime' = (IF job.log THEN t ELSE mtime) /\ mark' \in BOOLEAN
  /\ UNCHANGED <<job, t, cron, snap, due, missed, stops>>
Stop == cron /\ stops < MaxStops /\ cron' = FALSE /\ stops' = stops + 1 /\ UNCHANGED <<job, t, mtime, mark, alive, snap, due, missed>>
\* cron_snapshot.py, started by a crontab line that still works.
Snapshot == snap' = [at |-> t, status |-> StatusNow] /\ snap' # snap /\ UNCHANGED <<job, t, cron, mtime, mark, alive, due, missed, stops>>
Next == Tick \/ End \/ Stop \/ Snapshot
Spec == Init /\ [][Next]_vars

-----------------------------------------------------------------------------
\* What the page shows: the snapshot, and whether it is too old to go by.
Page == [status |-> snap.status, stale |-> t - snap.at > Stale]
\* A job cron has started every time it should have is never called missed: the
\* two readings of a schedule agree, at the ends of days and with both days given.
NoFalseAlarmStep == ~missed => snap' = snap \/ snap'.status # "missed"
NoFalseAlarm == [][NoFalseAlarmStep]_vars
\* A logged job that did not start when it last should have, longer than the grace
\* ago, is called missed by every snapshot after, unless its log was written in the
\* minute before.
AlarmRaisedStep == missed /\ job.log /\ ~alive /\ mtime < due - 1 /\ t - due > Grace /\ t - due < Horizon =>
                     snap' = snap \/ snap'.status = "missed"
AlarmRaised == [][AlarmRaisedStep]_vars
=============================================================================
