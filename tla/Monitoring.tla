------------------------------ MODULE Monitoring ------------------------------
(***************************************************************************)
(* The metrics and the alerts of one product (modules/monitoring and the    *)
(* worker's uptime probes, anomaly scans and nightly rollups).              *)
(*                                                                         *)
(* A job is one request of a client's system or one job of a queue; it runs *)
(* one awaited database call per step, beside every other job.  An ingest   *)
(* looks for an open alert in one call and creates one in the next.  The    *)
(* rollup looks at the day before the one it happens to run on, and deletes *)
(* the raw points that are too old; a worker that does not run, or a job    *)
(* that dies, is not made up for.                                           *)
(***************************************************************************)
EXTENDS Naturals, FiniteSets

CONSTANTS
  Metric,     \* the names of metrics
  Uptime,     \* the metric uptime
  Rule,       \* the runbooks with the trigger metric_threshold
  RuleMetric, \* RuleMetric[r]: AutomationRunbook.metricName
  Window,     \* Window[r]: AutomationRunbook.durationSec, in days
  History,    \* bound: the points of a metric the anomaly detector wants (10)
  Retention,  \* bound: the days raw points are kept (30)
  MaxDay,     \* bound: days are 0..MaxDay
  MaxAlerts,  \* bound: alerts are 1..MaxAlerts, by createdAt
  Job,        \* the jobs and requests ever started
  Loads       \* bound: what one behaviour mixes, the kinds of its jobs and its days

ASSUME UptimeAssumption == Uptime \in Metric
ASSUME RuleAssumption ==
  /\ RuleMetric \in [Rule -> Metric]
  /\ Window \in [Rule -> Nat]
  /\ Rule \cap {"probe", "scan"} = {}
ASSUME BoundsAssumption ==
  /\ \A l \in Loads : l.days \in 0..MaxDay
  /\ History \in Nat \ {0} /\ Retention \in Nat \ {0, 1}
  /\ MaxDay \in Nat /\ MaxAlerts \in Nat

VARIABLES
  load,       \* the load of this behaviour: [kinds |-> ..., days |-> ...]
  today,      \* the day, UTC
  raw,        \* raw[m][d]: the rows of MonitoringMetric with a timestamp of day d
  rollup,     \* rollup[m][d]: the points the MonitoringMetricDaily row stands for
  alert,      \* alert[i]: metric, status, day and origin of the alert
  told,       \* the alerts the organisation has a notification of
  job,        \* job[j]: next call and locals
  counts,     \* counts[j]: the points of its day that rollup j has read
  total,      \* history: all the points of day d ever stored
  late,       \* history: those stored after the day, when it had been aggregated
  aggregated, \* history: the days a rollup has aggregated
  neglected,  \* history: the days whose rollup did not run or died
  muted,      \* history: the alerts whose creator died before it told anybody
  overtaken,  \* history: the jobs about to create an alert when another of the
              \* metric came into being
  raced       \* history: the alerts created by an overtaken job

metrics == <<raw, rollup, total, late, aggregated, neglected>>
alerts  == <<alert, told, muted, overtaken, raced>>
jobs    == <<job, counts>>
vars    == <<load, today, metrics, alerts, jobs>>

Day    == 0..MaxDay
Alert  == 1..MaxAlerts
Origin == Rule \cup {"probe", "scan"}
Status == {"OPEN", "attended"} \* attended: ACKNOWLEDGED or RESOLVED

NoAlert == [metric |-> Uptime, status |-> "none", at |-> 0, by |-> "probe"]
NoCounts == [m \in Metric |-> 0]
Locals(pc, day, breached, todo, on, id) ==
  [pc |-> pc, day |-> day, breached |-> breached, todo |-> todo, on |-> on, id |-> id]
Idle(pc) == Locals(pc, 0, {}, {}, "probe", 0)

-----------------------------------------------------------------------------

Raised(i) == alert[i].status # "none"
MetricOf(origin) == IF origin = "probe" THEN Uptime ELSE RuleMetric[origin]

Plus(f, ms, d) ==
  [m \in Metric |-> [e \in Day |-> IF m \in ms /\ e = d THEN f[m][e] + 1 ELSE f[m][e]]]

\* createMany: a point bears the timestamp its sender gave it.
StorePoints(ms, d) ==
  /\ raw'   = Plus(raw, ms, d)
  /\ total' = Plus(total, ms, d)
  /\ late'  = IF d < today /\ d \in aggregated THEN Plus(late, ms, d) ELSE late

Begin(j, kind, fields) ==
  /\ kind \in load.kinds
  /\ job[j].pc = "idle"
  /\ job' = [job EXCEPT ![j] = fields]

\* Faulty: the evaluation returns where it should continue.
ReturnEarly(j, r) ==
  job' = [job EXCEPT ![j] = Locals("done", job[j].day, job[j].breached, {}, "probe", 0)]

\* On to the next point and rule of the batch.
Proceed(j, r) ==
  LET rest == job[j].todo \ {r} IN
  job' = [job EXCEPT ![j] = Locals(IF rest = {} THEN "done" ELSE "check",
                                   job[j].day, job[j].breached, rest, "probe", 0)]

End(j, pc) == job' = [job EXCEPT ![j] = Idle(pc)]

-----------------------------------------------------------------------------
(* Ingests and the rules *)

\* MonitoringService.ingest stores the points; breached are the enabled rules
\* whose threshold a point of the batch exceeds.
Ingest(j, m, d, breached) ==
  /\ Begin(j, IF breached = {} THEN "batch" ELSE "breach",
           Locals(IF breached = {} THEN "done" ELSE "check", today, breached, breached,
                  "probe", 0))
  /\ StorePoints({m}, d)
  /\ UNCHANGED <<load, today, rollup, aggregated, neglected, alerts, counts>>

\* Faulty: the alert of another rule does not count.
RecentOfTheRule(r, i) ==
  /\ alert[i].status = "OPEN"
  /\ alert[i].by = r
  /\ today <= alert[i].at + Window[r]

\* evaluateRules: an open alert of the metric, whatever created it, no older
\* than the rule's window.
Recent(r, i) ==
  /\ alert[i].status = "OPEN"
  /\ alert[i].metric = RuleMetric[r]
  /\ today <= alert[i].at + Window[r]

SkipDuplicate(j, r) ==
  /\ job[j].pc = "check" /\ r \in job[j].todo
  /\ \E i \in Alert : Recent(r, i)
  /\ Proceed(j, r)
  /\ UNCHANGED <<load, today, metrics, alerts, counts>>

FindNoDuplicate(j, r) ==
  /\ job[j].pc = "check" /\ r \in job[j].todo
  /\ \A i \in Alert : ~Recent(r, i)
  /\ job' = [job EXCEPT ![j] = Locals("create", @.day, @.breached, @.todo, r, 0)]
  /\ UNCHANGED <<load, today, metrics, alerts, counts>>

\* The row of an alert; a job about to create one of the metric is overtaken.
InsertAlert(j, i, m, origin) ==
  /\ ~Raised(i)
  /\ \A k \in Alert : k < i => Raised(k)
  /\ alert' = [alert EXCEPT ![i] = [metric |-> m, status |-> "OPEN", at |-> today,
                                    by |-> origin]]
  /\ overtaken' = (overtaken \ {j}) \cup
       {k \in Job \ {j} : job[k].pc = "create" /\ MetricOf(job[k].on) = m}

\* AlertsService.create stores the alert ...
CreateAlert(j, i) ==
  /\ job[j].pc = "create"
  /\ InsertAlert(j, i, MetricOf(job[j].on), job[j].on)
  /\ raced' = IF j \in overtaken THEN raced \cup {i} ELSE raced
  /\ job' = [job EXCEPT ![j] = Locals("notify", @.day, @.breached, @.todo, @.on, i)]
  /\ UNCHANGED <<load, today, metrics, told, muted, counts>>

\* ... and notifies the organisation.
Notify(j) ==
  /\ job[j].pc = "notify"
  /\ told' = told \cup {job[j].id}
  /\ Proceed(j, job[j].on)
  /\ UNCHANGED <<load, today, metrics, alert, muted, overtaken, raced, counts>>

-----------------------------------------------------------------------------
(* Uptime probes and anomaly scans *)

\* The probe stores its point and, when the product is down, has an alert
\* created without looking for an open one.
Probe(j, up) ==
  /\ Begin(j, "probe", Idle(IF up THEN "done" ELSE "create"))
  /\ StorePoints({Uptime}, today)
  /\ UNCHANGED <<load, today, rollup, aggregated, neglected, alerts, counts>>

\* The detector names some of the metrics with enough recent points.
Scan(j, anomalies) ==
  /\ anomalies # {}
  /\ \A m \in anomalies : raw[m][today] >= History
  /\ Begin(j, "scan", Locals("scan", 0, {}, anomalies, "probe", 0))
  /\ UNCHANGED <<load, today, metrics, alerts, counts>>

\* The worker writes the alert itself: nobody is notified.
RecordAnomaly(j, m, i) ==
  /\ job[j].pc = "scan" /\ m \in job[j].todo
  /\ InsertAlert(j, i, m, "scan")
  /\ LET rest == job[j].todo \ {m} IN
     job' = [job EXCEPT ![j] = Locals(IF rest = {} THEN "done" ELSE "scan",
                                      0, {}, rest, "probe", 0)]
  /\ UNCHANGED <<load, today, metrics, told, muted, raced, counts>>

\* acknowledge and resolve write by id, whatever the status was.
Attend(i) ==
  /\ Raised(i)
  /\ alert' = [alert EXCEPT ![i].status = "attended"]
  /\ UNCHANGED <<load, today, metrics, told, muted, overtaken, raced, jobs>>

-----------------------------------------------------------------------------
(* The nightly rollup *)

\* Faulty: the day that has only begun.
RolledDayNow == today

\* The day before the one the job runs on.
RolledDay == today - 1

\* groupBy: no row for a metric without points.
Aggregate(j) ==
  /\ today > 0
  /\ Begin(j, "rollup", Locals("roll", RolledDay, {}, {m \in Metric : raw[m][RolledDay] > 0},
                              "probe", 0))
  /\ counts' = [counts EXCEPT ![j] = [m \in Metric |-> raw[m][RolledDay]]]
  /\ aggregated' = aggregated \cup {RolledDay}
  /\ UNCHANGED <<load, today, raw, rollup, total, late, neglected, alerts>>

\* Faulty: the daily row is added to.
UpsertAdding(j, m) ==
  /\ job[j].pc = "roll" /\ m \in job[j].todo
  /\ rollup' = [rollup EXCEPT ![m][job[j].day] = @ + counts[j][m]]
  /\ job' = [job EXCEPT ![j] = Locals("roll", @.day, {}, @.todo \ {m}, "probe", 0)]
  /\ UNCHANGED <<load, today, raw, total, late, aggregated, neglected, alerts, counts>>

\* The daily row is written anew from what the job has read.
Upsert(j, m) ==
  /\ job[j].pc = "roll" /\ m \in job[j].todo
  /\ rollup' = [rollup EXCEPT ![m][job[j].day] = counts[j][m]]
  /\ job' = [job EXCEPT ![j] = Locals("roll", @.day, {}, @.todo \ {m}, "probe", 0)]
  /\ UNCHANGED <<load, today, raw, total, late, aggregated, neglected, alerts, counts>>

\* Faulty: one day too many.
ExpiredADayEarly(d, wholeDay) ==
  IF wholeDay THEN d + Retention <= today + 1 ELSE d + Retention <= today

\* The moment of Retention days ago lies in a day whose points are all older
\* (wholeDay) or all younger.
Expired(d, wholeDay) ==
  IF wholeDay THEN d + Retention <= today ELSE d + Retention < today

Prune(j, wholeDay) ==
  /\ job[j].pc = "roll" /\ job[j].todo = {}
  /\ raw' = [m \in Metric |-> [d \in Day |-> IF Expired(d, wholeDay) THEN 0 ELSE raw[m][d]]]
  /\ End(j, "done")
  /\ counts' = [counts EXCEPT ![j] = NoCounts]
  /\ UNCHANGED <<load, today, rollup, total, late, aggregated, neglected, alerts>>

\* A call is rejected or the process dies; none of the jobs is tried again.
Fail(j) ==
  /\ job[j].pc \notin {"idle", "done", "dead"}
  /\ neglected' = IF job[j].pc = "roll" THEN neglected \cup {job[j].day} ELSE neglected
  /\ muted'     = IF job[j].pc = "notify" THEN muted \cup {job[j].id} ELSE muted
  /\ End(j, "dead")
  /\ counts' = [counts EXCEPT ![j] = NoCounts]
  /\ overtaken' = overtaken \ {j}
  /\ UNCHANGED <<load, today, raw, rollup, total, late, aggregated, alert, told, raced>>

NextDay ==
  /\ today < load.days
  /\ today' = today + 1
  /\ neglected' = IF today > 0 /\ today - 1 \notin aggregated
                  THEN neglected \cup {today - 1} ELSE neglected
  /\ UNCHANGED <<load, raw, rollup, total, late, aggregated, alerts, jobs>>

-----------------------------------------------------------------------------

Nothing == [m \in Metric |-> [d \in Day |-> 0]]

Init ==
  /\ load \in Loads
  /\ today = 0
  /\ raw = Nothing /\ rollup = Nothing /\ total = Nothing /\ late = Nothing
  /\ alert = [i \in Alert |-> NoAlert]
  /\ job = [j \in Job |-> Idle("idle")]
  /\ counts = [j \in Job |-> NoCounts]
  /\ told = {} /\ muted = {} /\ overtaken = {} /\ raced = {}
  /\ aggregated = {} /\ neglected = {}

Begins(j) ==
  \/ \E m \in Metric, d \in 0..today, breached \in SUBSET Rule :
       /\ \A r \in breached : RuleMetric[r] = m
       /\ breached # {} => d = today
       /\ Ingest(j, m, d, breached)
  \/ \E up \in BOOLEAN : Probe(j, up)
  \/ \E anomalies \in SUBSET Metric : Scan(j, anomalies)
  \/ Aggregate(j)

Continues(j) ==
  \/ \E r \in Rule : SkipDuplicate(j, r) \/ FindNoDuplicate(j, r)
  \/ \E i \in Alert : CreateAlert(j, i)
  \/ Notify(j)
  \/ \E m \in Metric, i \in Alert : RecordAnomaly(j, m, i)
  \/ \E m \in Metric : Upsert(j, m)
  \/ \E wholeDay \in BOOLEAN : Prune(j, wholeDay)

Next ==
  \/ NextDay
  \/ \E i \in Alert : Attend(i)
  \/ \E j \in Job : Begins(j) \/ Continues(j) \/ Fail(j)

Spec == Init /\ [][Next]_vars

-----------------------------------------------------------------------------
(* Properties *)

Counts == [Metric -> [Day -> Nat]]

Jobs == [pc : {"idle", "check", "create", "notify", "scan", "roll", "done", "dead"},
         day : Day, breached : SUBSET Rule, todo : SUBSET (Rule \cup Metric),
         on : Origin, id : Alert \cup {0}]

AlertRow == [metric : Metric, status : Status \cup {"none"}, at : Day, by : Origin]

RowTypes ==
  /\ load \in Loads /\ today \in Day
  /\ alert \in [Alert -> AlertRow]
  /\ told \subseteq Alert /\ muted \subseteq Alert /\ raced \subseteq Alert
  /\ overtaken \subseteq Job
  /\ aggregated \subseteq Day /\ neglected \subseteq Day

CountTypes == raw \in Counts /\ rollup \in Counts /\ total \in Counts /\ late \in Counts

JobTypes == job \in [Job -> Jobs] /\ counts \in [Job -> [Metric -> Nat]]

\* The tables and the jobs' locals keep their types; only alerts that were
\* raised are told, and a point is no more often in the table than it was stored.
TypeOK ==
  /\ RowTypes /\ CountTypes /\ JobTypes
  /\ \A i \in told : Raised(i)
  /\ \A m \in Metric, d \in Day : raw[m][d] <= total[m][d]

\* The dedupe window (alerts.service.ts:22): of two alerts open at once the later
\* one was raised by a rule although the earlier one lay in its window only if
\* another alert came into being between the search and the insert.
DuplicatesNeedARace ==
  \A i, k \in Alert :
    /\ i < k
    /\ alert[i].status = "OPEN" /\ alert[k].status = "OPEN"
    /\ alert[i].metric = alert[k].metric
    /\ alert[k].by \in Rule /\ alert[k].at <= alert[i].at + Window[alert[k].by]
    => k \in raced

\* The organisation was notified of alert i, is about to be, or will never be:
\* its creator died, or was an anomaly scan.
ToldOrExcused(i) ==
  \/ i \in told \cup muted
  \/ alert[i].by = "scan"
  \/ \E k \in Job : job[k].pc = "notify" /\ job[k].id = i

Answered(j, r) ==
  \E i \in Alert :
    /\ Raised(i) /\ ToldOrExcused(i)
    /\ alert[i].metric = RuleMetric[r]
    /\ job[j].day <= alert[i].at + Window[r]

\* evaluateRules: when an ingest has run to its end, each threshold its batch
\* exceeded is covered by an alert of its window, and the organisation has been
\* told of it unless an anomaly scan raised it or its creator did not get so far.
BreachesAnswered ==
  \A j \in Job : job[j].pc = "done" => \A r \in job[j].breached : Answered(j, r)

RollupInFlight(d) == \E j \in Job : job[j].pc = "roll" /\ job[j].day = d

\* The retention (worker index.ts:212): once raw points of a day are deleted, the
\* daily row counts every one of them that was stored in time, unless no rollup
\* ran on the day after, or one died or is still at work.
DeletedPointsAreCounted ==
  \A m \in Metric, d \in Day :
    raw[m][d] # total[m][d] =>
      \/ total[m][d] <= rollup[m][d] + late[m][d]
      \/ d \in neglected \/ RollupInFlight(d)

\* The 30 days the dashboard's uptime and the reports look back on
\* (monitoring.service.ts:99) are whole: the retention never reaches into them.
DashboardIsWhole ==
  \A m \in Metric, d \in Day : today < d + Retention => raw[m][d] = total[m][d]

\* Every replica of the worker has its own cron, so a day is rolled up more than once,
\* also at the same time: as long as no point of the day came in after the first of
\* these rollups, the others leave its daily row as it is.
RollupIsIdempotent ==
  [][\A m \in Metric, d \in Day :
       rollup[m][d] > 0 /\ late'[m][d] = 0 => rollup'[m][d] = rollup[m][d]]_vars

-----------------------------------------------------------------------------
(* The inductive invariant *)

\* What a job works on suits its step.
JobsFit ==
  \A j \in Job :
    /\ job[j].day <= today
    /\ job[j].pc \in {"check", "create", "notify"} => job[j].todo \subseteq Rule
    /\ job[j].pc \in {"scan", "roll"} => job[j].todo \subseteq Metric
    /\ job[j].pc \in {"create", "notify"} => job[j].on \in Rule \cup {"probe"}
    /\ job[j].pc \in {"scan", "roll"} => job[j].breached = {}
    /\ job[j].pc = "done" => job[j].todo = {}
    /\ job[j].pc = "notify" =>
         /\ job[j].id \in Alert /\ Raised(job[j].id)
         /\ alert[job[j].id].metric = MetricOf(job[j].on)
         /\ job[j].day <= alert[job[j].id].at

\* Alerts are raised in the order of their numbers, and every one is accounted for.
AlertsInOrder ==
  /\ \A i, k \in Alert : i < k /\ Raised(k) => Raised(i)
  /\ \A i \in Alert : alert[i].at <= today
  /\ \A i \in told : Raised(i)

AlertsAccounted == \A i \in Alert : Raised(i) => ToldOrExcused(i)

\* Since the search of a job that was not overtaken, no alert came into its window.
SearchStands ==
  \A j \in Job, i \in Alert :
    /\ job[j].pc = "create" /\ job[j].on \in Rule /\ j \notin overtaken
    /\ alert[i].status = "OPEN" /\ alert[i].metric = RuleMetric[job[j].on]
    => alert[i].at + Window[job[j].on] < today

\* The breaches of a batch that were dealt with have their alert.
Covered(j, r) ==
  \E i \in Alert : /\ Raised(i) /\ alert[i].metric = RuleMetric[r]
                   /\ job[j].day <= alert[i].at + Window[r]
BreachesCovered ==
  \A j \in Job : job[j].pc # "dead" =>
    \A r \in job[j].breached \ job[j].todo : Covered(j, r)

DaysInOrder ==
  /\ \A d \in aggregated : d < today
  /\ \A d \in Day : d + 2 <= today => d \in aggregated \cup neglected
  /\ \A m \in Metric, d \in Day : raw[m][d] <= total[m][d]

\* What a rollup at work has read, and has written already, covers its day.
RollupsCover ==
  \A j \in Job : job[j].pc = "roll" =>
    /\ job[j].day \in aggregated
    /\ \A m \in Metric : total[m][job[j].day] <= counts[j][m] + late[m][job[j].day]
    /\ \A m \in Metric \ job[j].todo :
         total[m][job[j].day] <= rollup[m][job[j].day] + late[m][job[j].day]

DaysCovered ==
  \A d \in aggregated :
    \/ d \in neglected \/ RollupInFlight(d)
    \/ \A m \in Metric : total[m][d] <= rollup[m][d] + late[m][d]

\* A daily row and what a rollup at work has read stand for all the points of the day
\* but, at most, the late ones.
RollupsExact ==
  /\ \A m \in Metric, d \in Day : rollup[m][d] > 0 =>
       /\ d \in aggregated
       /\ rollup[m][d] <= total[m][d] /\ total[m][d] <= rollup[m][d] + late[m][d]
  /\ \A j \in Job : job[j].pc = "roll" =>
       \A m \in Metric : counts[j][m] <= total[m][job[j].day]

MonitoringInv ==
  /\ RowTypes /\ CountTypes /\ JobTypes /\ JobsFit
  /\ AlertsInOrder /\ AlertsAccounted /\ SearchStands /\ DuplicatesNeedARace
  /\ BreachesCovered
  /\ DaysInOrder /\ DashboardIsWhole /\ RollupsCover /\ DaysCovered

=============================================================================
