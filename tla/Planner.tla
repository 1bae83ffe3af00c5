------------------------------ MODULE Planner ------------------------------
(***************************************************************************)
(* The query planner (apps/api/app/query): a question is read by patterns,   *)
(* in a fixed order, into a plan (an intent with a range of days, a source   *)
(* and an axis), and the plan is executed.  A question is the phrases it     *)
(* holds, and at most one literal span and one relative time phrase; Marks   *)
(* says which patterns a phrase matches.  Days are numbered from 2000-01-01, *)
(* a Saturday, as 0.                                                         *)
(***************************************************************************)
EXTENDS Integers, FiniteSets

CONSTANT Questions  \* [words, span, rel, year, today]: the phrases a question holds, its literal
                    \* span [form, from, to] with dates <<year, month, day>>, its relative time
                    \* phrase [kind, n, recent] (recent: spelled with that word, of the last 90
                    \* days when it stands alone), the first year written with the word for
                    \* year, in the span or not, or 0, and the day it is asked on

VARIABLES q, plan, out
vars == <<q, plan, out>>
today == q.today

Absent == [kind |-> "none", n |-> 0, recent |-> FALSE]
-----------------------------------------------------------------------------
(* The calendar of datetime.date. *)
Leap(y) == y % 4 = 0 /\ (y % 100 # 0 \/ y % 400 = 0)
DaysIn(y, m) == IF m = 2 THEN (IF Leap(y) THEN 29 ELSE 28) ELSE IF m \in {4, 6, 9, 11} THEN 30 ELSE 31
Valid(t) == t[2] \in 1..12 /\ t[3] \in 1..DaysIn(t[1], t[2])
MonthStart(y, m) == 365 * (y - 2000) + ((y - 1997) \div 4) + ((367 * m - 362) \div 12) - (IF m <= 2 THEN 0 ELSE IF Leap(y) THEN 1 ELSE 2)
Number(t) == MonthStart(t[1], t[2]) + t[3] - 1
Years == 2022..2026
DateOf(n) ==
  LET y == CHOOSE y \in Years : n \in MonthStart(y, 1)..(MonthStart(y + 1, 1) - 1)
      m == CHOOSE m \in 1..12 : n - MonthStart(y, m) \in 0..(DaysIn(y, m) - 1)
  IN  <<y, m, n - MonthStart(y, m) + 1>>
Weekday(n) == (n + 5) % 7

-----------------------------------------------------------------------------
(* query/time_range.py *)
Days(a, b) == [from |-> a, to |-> b]
Ordered(a, b) == IF a <= b THEN Days(a, b) ELSE Days(b, a)
NoDays == Days(0, -1)
FirstOf(t) == Number(<<t[1], t[2], 1>>)
MutLastOf(t) == Number(<<t[1], (t[2] % 12) + 1, 1>>) - 1
LastOf(t) == Number(<<t[1] + (IF t[2] = 12 THEN 1 ELSE 0), (t[2] % 12) + 1, 1>>) - 1
MonthRange(s) ==
  IF ~(s.from[2] \in 1..12 /\ s.to[2] \in 1..12) THEN NoDays
  ELSE IF LastOf(s.to) < FirstOf(s.from) THEN Days(FirstOf(s.to), LastOf(s.from)) ELSE Days(FirstOf(s.from), LastOf(s.to))
parse_absolute_range(s) ==
  CASE s.form = "days" -> IF Valid(s.from) /\ Valid(s.to) THEN Ordered(Number(s.from), Number(s.to)) ELSE NoDays
    [] s.form = "months" -> MonthRange(s)
    [] s.form = "mixed" -> MonthRange([s EXCEPT !.from = s.to])  \* a day to a whole month: the month
    [] OTHER -> NoDays
\* A date and a "from" or "until" that make no span: half a span, or an impossible date.
Attempt(s) == s.form \in {"days", "half", "date", "mixed"}
Broken(s) == s.form \in {"days", "half"}
Since(n) == Days(today - n + 1, today)
Bound(n, max) == IF n < 1 THEN 1 ELSE IF n > max THEN max ELSE n
RelativeDays(r) ==
  LET t == DateOf(today)
      monday == today - Weekday(today)
      first == FirstOf(t)
      before == DateOf(first - 1)
  IN  CASE r.kind = "today" -> Days(today, today)
        [] r.kind = "yesterday" -> Days(today - 1, today - 1)
        [] r.kind = "this_week" -> Days(monday, today)
        [] r.kind = "last_week" -> Days(monday - 7, monday - 1)
        [] r.kind = "this_month" -> Days(first, today)
        [] r.kind = "last_month" -> Days(FirstOf(before), first - 1)
        [] r.kind = "this_year" -> Days(Number(<<t[1], 1, 1>>), today)
        [] r.kind = "last_year" -> Days(Number(<<t[1] - 1, 1, 1>>), Number(<<t[1] - 1, 12, 31>>))
        [] r.kind = "last_30" -> Since(30)
        [] r.kind = "last_90" -> Since(90)
        [] r.kind = "last_n_days" -> Since(Bound(r.n, 366))
        [] r.kind = "last_n_weeks" -> Since(7 * Bound(r.n, 52))
        [] OTHER -> NoDays
parse_relative_range ==
  IF parse_absolute_range(q.span) # NoDays THEN parse_absolute_range(q.span)
  ELSE IF Broken(q.span) THEN NoDays ELSE RelativeDays(q.rel)
has_unparsed_date_span == Attempt(q.span) /\ parse_relative_range = NoDays

-----------------------------------------------------------------------------
(* The patterns. *)
Marks == [
  listed |-> {"list"}, count |-> {"count", "analytics"}, tickets |-> {"list", "support"}, tech |-> {"support", "tech"},
  techjobs |-> {"list", "support", "tech", "jobs"}, trouble |-> {"trouble"}, swim |-> {"swim"},
  kinds |-> {"analytics", "kinds", "typed"}, axis |-> {"analytics", "axis"}, status |-> {"analytics", "status"}, owner |-> {"analytics", "owner"},
  yearly |-> {"analytics", "yearly"}, monthly |-> {"analytics", "monthly"}, share |-> {"analytics", "share"}, title |-> {"title"},
  notice |-> {"notice"}, redis |-> {"entity"}, units |-> {"capacity", "rules"}, effort |-> {"capacity"}, cases |-> {"cases"},
  similar |-> {"similar", "trouble"}, prevent |-> {"prevent"}, all |-> {"all"}, check |-> {"check", "list"}, groups |-> {"analytics", "kinds", "groups"}]
Has(mark) == \E w \in q.words : mark \in Marks[w]
Source == IF Has("swim") THEN "incident_reports" ELSE "support_history"
resolve_date_field(source) == IF source = "incident_reports" THEN "reported" ELSE "Created"
extract_component == IF Has("tech") /\ ~Has("swim") THEN "tech" ELSE "none"
Nothing == [intent |-> "none"]
With(intent, mode, group, source, component, days) ==
  [intent |-> intent, mode |-> mode, group |-> group, source |-> source, component |-> component, days |-> days]
detect_time_scoped_list ==
  IF parse_relative_range = NoDays \/ ~(Has("list") \/ Has("count") \/ Has("support") \/ Has("swim")) THEN Nothing
  ELSE With("time_scoped_list", "list", "none", Source, extract_component, parse_relative_range)
detect_capacity_intent == IF Has("capacity") /\ (Has("cases") => Has("rules")) THEN With("capacity", "rules", "none", "none", "none", NoDays) ELSE Nothing

\* query/analytics_intent.py
Jira == {"component", "status", "assignee"}
Axis ==
  CASE Has("yearly") -> "year" [] ~Has("yearly") /\ Has("monthly") -> "month"
    [] ~Has("yearly") /\ ~Has("monthly") -> IF Has("axis") THEN "component" ELSE IF Has("kinds") THEN "issue_type" ELSE IF Has("status") THEN "status"
         ELSE IF Has("owner") THEN "assignee" ELSE IF Has("share") /\ ~Has("entity") THEN "component" ELSE IF Has("jobs") THEN "issue_type" ELSE "total"
Group(axis) == IF Has("swim") /\ axis \in Jira THEN "total" ELSE axis
Guess(asked) == IF Has("tech") THEN "tech" ELSE IF Has("trouble") /\ asked THEN "trouble" ELSE "none"
Component(axis) ==
  LET c == IF Has("swim") THEN "none" ELSE Guess(Has("count") \/ Has("share"))
  IN  IF c = "tech" /\ (axis = "issue_type" \/ (axis = "component" /\ Has("kinds"))) THEN "none" ELSE c
YearOf(y) == Days(Number(<<y, 1, 1>>), Number(<<y, 12, 31>>))
_parse_calendar_year == IF q.year # 0 THEN YearOf(q.year) ELSE IF q.rel.kind = "this_year" THEN YearOf(DateOf(today)[1]) ELSE NoDays
\* Without a range of its own: the year, and in an aggregate the word for recent.
FallbackDays(mode) ==
  IF _parse_calendar_year # NoDays THEN _parse_calendar_year ELSE IF q.rel.recent /\ mode = "aggregate" THEN Since(90) ELSE NoDays
detect_analytics_intent ==
  IF ~(Has("analytics") \/ Has("title")) \/ (Has("notice") /\ ~(Has("count") \/ Has("share"))) THEN Nothing
  ELSE IF Has("title") /\ ~(Has("count") \/ Has("share") \/ Has("yearly"))
  THEN With("analytics", "title_tokens", "token", Source, IF Has("swim") THEN "none" ELSE Guess(TRUE), NoDays)
  ELSE LET group == Group(Axis)
           mode == IF Has("entity") /\ (Has("share") \/ Has("count")) THEN "entity_share" ELSE "aggregate"
       IN  With("analytics", mode, IF mode = "aggregate" THEN group ELSE "total", Source, Component(group),
             IF parse_relative_range # NoDays THEN parse_relative_range ELSE FallbackDays(mode))

\* query/prevention.py, query/exhaustive.py and the planner's own.
Plain(intent, source) == With(intent, "text", "none", source, "none", NoDays)
detect_similar_incident_intent == IF Has("similar") THEN Plain("similar_incident", "none") ELSE Nothing
detect_prevention_intent == IF Has("prevent") THEN Plain("prevention", "none") ELSE Nothing
detect_exhaustive_intent ==
  IF Has("all") /\ ~Has("prevent") /\ ~Has("typed") THEN Plain("exhaustive", IF Has("swim") THEN "incident_reports" ELSE IF Has("tech") \/ Has("support") THEN "support_history" ELSE "none") ELSE Nothing
detect_checklist_intent == IF Has("check") THEN Plain("checklist", "none") ELSE Nothing
detect_entity_aggregate_intent == IF Has("groups") THEN With("entity_aggregate", "aggregate", "component", "support_history", "none", NoDays) ELSE Nothing

-----------------------------------------------------------------------------
(* query/planner.py: plan_query, execute_plan, route_query *)
Or(a, b) == IF a # Nothing THEN a ELSE b
Literal == IF parse_absolute_range(q.span) # NoDays THEN detect_time_scoped_list ELSE Nothing
plan_query ==
  Or(Literal, Or(detect_capacity_intent, Or(detect_analytics_intent, Or(detect_time_scoped_list, Or(detect_similar_incident_intent,
  Or(detect_prevention_intent, Or(detect_exhaustive_intent, Or(detect_checklist_intent, Or(detect_entity_aggregate_intent, Plain("hybrid_search", "none"))))))))))
\* The handler a plan is given to and what it filters by; without an embedding the two
\* searches go on with their words alone.
run_prevention == [calls |-> {"similar_incidents", "list_checkitems"}, days |-> NoDays]
run_exhaustive(vec) == [calls |-> {"multi_hybrid_search"} \cup vec, days |-> NoDays]
Analysis == [calls |-> {CASE plan.mode = "title_tokens" -> "title_token_stats" [] plan.mode = "entity_share" -> "entity_share" [] OTHER -> "aggregate_tickets"},
             days |-> IF plan.mode = "title_tokens" THEN NoDays ELSE plan.days]
Listing == [calls |-> {"list_tickets"}, days |-> plan.days]
Handled(vec) ==
  CASE plan.intent = "capacity" -> [calls |-> {"estimate_capacity"}, days |-> NoDays]
    [] plan.intent = "analytics" -> Analysis
    [] plan.intent = "time_scoped_list" -> Listing
    [] plan.intent = "similar_incident" -> [calls |-> {"similar_incidents"}, days |-> NoDays]
    [] plan.intent = "prevention" -> run_prevention
    [] plan.intent = "checklist" -> [calls |-> {"list_checkitems"}, days |-> NoDays]
    [] plan.intent = "entity_aggregate" -> [calls |-> {"aggregate_tickets"}, days |-> NoDays]
    [] OTHER -> run_exhaustive(vec)
Init == q \in Questions /\ plan = Nothing /\ out = Nothing
Plan == plan = Nothing /\ plan' = plan_query /\ UNCHANGED <<q, out>>
Execute ==
  /\ plan # Nothing /\ out = Nothing
  /\ \E handled \in {Handled({}), Handled({"vector"}), [calls |-> {}, days |-> plan.days]} :  \* the last with execute=False
       out' = [handled |-> handled, field |-> resolve_date_field(plan.source), unrecognized |-> has_unparsed_date_span]
  /\ UNCHANGED <<q, plan>>
Next == Plan \/ Execute
Spec == Init /\ [][Next]_vars

-----------------------------------------------------------------------------
TypeOK == q \in Questions /\ plan.intent \in {"none", "capacity", "analytics", "time_scoped_list", "similar_incident", "prevention", "exhaustive", "checklist", "entity_aggregate", "hybrid_search"}
\* What the words of a range mean, day by day.
Week(n) == (n + 5) \div 7
Month(n) == 12 * DateOf(n)[1] + DateOf(n)[2]
MonthOf(t) == 12 * t[1] + t[2]
Between(n, a, b) == (a <= n /\ n <= b) \/ (b <= n /\ n <= a)
InSpan(s, n) == IF s.form = "months" THEN Between(Month(n), MonthOf(s.from), MonthOf(s.to)) ELSE Between(n, Number(s.from), Number(s.to))
InPhrase(r, n) ==
  CASE r.kind = "today" -> n = today
    [] r.kind = "yesterday" -> n + 1 = today
    [] r.kind = "this_week" -> Week(n) = Week(today) /\ n <= today
    [] r.kind = "last_week" -> Week(n) + 1 = Week(today)
    [] r.kind = "this_month" -> Month(n) = Month(today) /\ n <= today
    [] r.kind = "last_month" -> Month(n) + 1 = Month(today)
    [] r.kind = "this_year" -> DateOf(n)[1] = DateOf(today)[1] /\ n <= today
    [] r.kind = "last_year" -> DateOf(n)[1] + 1 = DateOf(today)[1]
    [] r.kind = "last_30" -> today - n \in 0..29
    [] r.kind = "last_90" -> today - n \in 0..89
    [] r.kind = "last_n_days" -> today - n \in 0..(Bound(r.n, 366) - 1)
    [] r.kind = "last_n_weeks" -> today - n \in 0..(7 * Bound(r.n, 52) - 1)
    [] OTHER -> FALSE
Whole(s) == (s.form = "days" /\ Valid(s.from) /\ Valid(s.to)) \/ (s.form = "months" /\ s.from[2] \in 1..12 /\ s.to[2] \in 1..12)
Asked(n) == IF Whole(q.span) THEN InSpan(q.span, n) ELSE IF q.rel # Absent /\ ~Broken(q.span) THEN InPhrase(q.rel, n) ELSE q.year = DateOf(n)[1]
\* What the analytics take out of a broken span against time_range.py:165, and the span
\* of which one end is taken.
Salvaged == (Broken(q.span) /\ q.year = 0 /\ plan.intent = "analytics" /\ (q.rel.recent \/ q.rel.kind = "this_year")) \/ q.span.form = "mixed"
\* A plan that filters by days takes those the question names and no others: over the
\* ends of months, leap days and years, with the ends of a span in either order, the
\* literal span before any relative word.  A span that makes no sense is not taken for
\* a relative word beside it (time_range.py:165's comment) but at most, by the
\* analytics, for the year it names.  Excepted is what is Salvaged.
RangeIsMeant == plan # Nothing /\ plan.days # NoDays /\ ~Salvaged =>
  /\ Asked(plan.days.from) /\ Asked(plan.days.to) /\ ~Asked(plan.days.from - 1) /\ ~Asked(plan.days.to + 1) /\ plan.days.from <= plan.days.to
  /\ Broken(q.span) => Whole(q.span) \/ plan.intent = "analytics"
\* A question about SWIM that is counted or listed is asked of the incident reports, and
\* never by Jira's Component, Status or Assignee, whose keys those documents lack.
SwimStays == plan # Nothing /\ Has("swim") /\ plan.intent \in {"analytics", "time_scoped_list"} =>
  plan.source = "incident_reports" /\ plan.component = "none" /\ plan.group \notin Jira
\* Refuted: no word beside a broken span becomes the range.  An aggregate takes "recent" for
\* the last 90 days, and "this year" for the calendar year.
NoWordOfABrokenSpan == plan # Nothing /\ Broken(q.span) /\ ~Whole(q.span) /\ q.year = 0 => plan.days = NoDays
\* Refuted: with the note that no filter by dates is applied (planner.py:477) none is.
UnrecognizedUnfiltered == out # Nothing /\ out.unrecognized => out.handled.days = NoDays
\* Refuted: a range that was understood reaches the handler.  Capacity, similar incidents,
\* prevention, exhaustive lists, checklists and searches drop it without a word.
RangeReachesHandler == out # Nothing /\ Whole(q.span) => out.handled.days # NoDays \/ out.unrecognized
=============================================================================
