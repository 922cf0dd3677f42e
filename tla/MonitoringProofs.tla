--------------------------- MODULE MonitoringProofs ---------------------------
(***************************************************************************)
(* Proofs about Monitoring: the inductive invariant MonitoringInv and what  *)
(* follows from it.  One lemma per conjunct; one step per action.           *)
(***************************************************************************)
EXTENDS Monitoring, TLAPS

\* What the types of the tables and of the locals say of their fields.
AlertFields ==
  /\ today \in Nat /\ load \in Loads /\ alert \in [Alert -> AlertRow]
  /\ \A i \in Alert : /\ alert[i].at \in Nat /\ alert[i].metric \in Metric
                      /\ alert[i].by \in Origin
JobFields ==
  /\ job \in [Job -> Jobs]
  /\ \A j \in Job : job[j].day \in Nat /\ job[j].day \in Day /\ job[j].on \in Origin

CountFields ==
  /\ today \in Day /\ aggregated \subseteq Day
  /\ \A m \in Metric, d \in Day : /\ raw[m][d] \in Nat /\ total[m][d] \in Nat
                                  /\ late[m][d] \in Nat /\ rollup[m][d] \in Nat
  /\ \A j \in Job, m \in Metric : counts[j][m] \in Nat

LEMMA CountTyping == ASSUME RowTypes, CountTypes, JobTypes PROVE CountFields
  BY DEF RowTypes, CountTypes, JobTypes, Counts, CountFields

LEMMA Typing == ASSUME RowTypes, JobTypes PROVE AlertFields /\ JobFields
  BY UptimeAssumption, RuleAssumption, BoundsAssumption
  DEF RowTypes, JobTypes, AlertFields, JobFields, AlertRow, Jobs, Day, Alert

\* What Plus adds up to.
LEMMA PlusCounts ==
  ASSUME NEW f \in Counts, NEW ms \in SUBSET Metric, NEW d
  PROVE  /\ Plus(f, ms, d) \in Counts
         /\ \A m \in Metric, e \in Day :
              Plus(f, ms, d)[m][e] = IF m \in ms /\ e = d THEN f[m][e] + 1 ELSE f[m][e]
<1>1. \A m \in Metric, e \in Day : f[m][e] \in Nat
  BY DEF Counts
<1>2. \A m \in Metric, e \in Day :
        Plus(f, ms, d)[m][e] = IF m \in ms /\ e = d THEN f[m][e] + 1 ELSE f[m][e]
  BY DEF Plus
<1>3. \A m \in Metric, e \in Day : Plus(f, ms, d)[m][e] \in Nat
  BY <1>1, <1>2
<1>4. Plus(f, ms, d) \in Counts
  BY <1>1 DEF Plus, Counts
<1>5. QED
  BY <1>2, <1>4

\* StorePoints adds a point to all three counts, or, in time, to the first two.
Stored(ms, d) ==
  /\ raw' \in Counts /\ total' \in Counts /\ late' \in Counts
  /\ \A n \in Metric, e \in Day : n \in ms /\ e = d =>
       /\ raw'[n][e] = raw[n][e] + 1 /\ total'[n][e] = total[n][e] + 1
       /\ d < today /\ d \in aggregated => late'[n][e] = late[n][e] + 1
       /\ late'[n][e] = late[n][e] \/ late'[n][e] = late[n][e] + 1
  /\ \A n \in Metric, e \in Day : ~(n \in ms /\ e = d) =>
       raw'[n][e] = raw[n][e] /\ total'[n][e] = total[n][e] /\ late'[n][e] = late[n][e]

LEMMA StoreCounts ==
  ASSUME CountTypes, NEW ms \in SUBSET Metric, NEW d, StorePoints(ms, d)
  PROVE  Stored(ms, d)
<1>1. /\ raw' \in Counts /\ total' \in Counts /\ late' \in Counts
      /\ \A m \in Metric, e \in Day :
           /\ raw'[m][e]   = IF m \in ms /\ e = d THEN raw[m][e] + 1 ELSE raw[m][e]
           /\ total'[m][e] = IF m \in ms /\ e = d THEN total[m][e] + 1 ELSE total[m][e]
           /\ late'[m][e]  = IF m \in ms /\ e = d /\ d < today /\ d \in aggregated
                             THEN late[m][e] + 1 ELSE late[m][e]
  BY PlusCounts DEF StorePoints, CountTypes
<1>2. QED
  BY <1>1 DEF Stored

\* The jobs' locals keep their types.
LEMMA JobTypesStep == ASSUME MonitoringInv, [Next]_vars PROVE JobTypes'
<1> USE UptimeAssumption, RuleAssumption, BoundsAssumption
        DEF metrics, alerts, jobs, Locals, JobTypes, JobsFit, RowTypes, Jobs, NoCounts, Origin, Day
<1>a. RowTypes /\ CountTypes /\ JobTypes /\ JobsFit
  BY Typing, CountTyping DEF MonitoringInv
<1>1. ASSUME NextDay PROVE JobTypes'
  BY <1>a, <1>1 DEF NextDay
<1>2. ASSUME NEW i \in Alert, Attend(i) PROVE JobTypes'
  BY <1>a, <1>2 DEF Attend
<1>3. ASSUME NEW j \in Job, NEW m \in Metric, NEW d \in 0..today,
             NEW breached \in SUBSET Rule, \A r \in breached : RuleMetric[r] = m,
             Ingest(j, m, d, breached) PROVE JobTypes'
  BY <1>a, <1>3 DEF Ingest, Begin
<1>4. ASSUME NEW j \in Job, NEW up \in BOOLEAN, Probe(j, up) PROVE JobTypes'
  BY <1>a, <1>4 DEF Probe, Begin, Idle
<1>5. ASSUME NEW j \in Job, NEW anomalies \in SUBSET Metric, Scan(j, anomalies) PROVE JobTypes'
  BY <1>a, <1>5 DEF Scan, Begin
<1>6. ASSUME NEW j \in Job, Aggregate(j) PROVE JobTypes'
  <2>0. today - 1 \in Day /\ \A m \in Metric : raw[m][today - 1] \in Nat
    BY <1>a, <1>6 DEF Aggregate, CountTypes, Counts
  <2>1. counts' \in [Job -> [Metric -> Nat]]
    BY <1>a, <2>0, <1>6 DEF Aggregate, Begin, RolledDay
  <2>2. job' \in [Job -> Jobs]
    BY <1>a, <1>6 DEF Aggregate, Begin, RolledDay
  <2>3. QED
    BY <2>1, <2>2
<1>7. ASSUME NEW j \in Job, NEW r \in Rule, SkipDuplicate(j, r) PROVE JobTypes'
  BY <1>a, <1>7 DEF SkipDuplicate, Proceed, Recent
<1>8. ASSUME NEW j \in Job, NEW r \in Rule, FindNoDuplicate(j, r) PROVE JobTypes'
  BY <1>a, <1>8 DEF FindNoDuplicate, Recent
<1>9. ASSUME NEW j \in Job, NEW i \in Alert, CreateAlert(j, i) PROVE JobTypes'
  BY <1>a, <1>9 DEF CreateAlert, InsertAlert
<1>10. ASSUME NEW j \in Job, Notify(j) PROVE JobTypes'
  BY <1>a, <1>10 DEF Notify, Proceed
<1>11. ASSUME NEW j \in Job, NEW m \in Metric, NEW i \in Alert,
             RecordAnomaly(j, m, i) PROVE JobTypes'
  BY <1>a, <1>11 DEF RecordAnomaly, InsertAlert
<1>12. ASSUME NEW j \in Job, NEW m \in Metric, Upsert(j, m) PROVE JobTypes'
  BY <1>a, <1>12 DEF Upsert
<1>13. ASSUME NEW j \in Job, NEW wholeDay \in BOOLEAN, Prune(j, wholeDay) PROVE JobTypes'
  BY <1>a, <1>13 DEF Prune, Expired, End, Idle
<1>14. ASSUME NEW j \in Job, Fail(j) PROVE JobTypes'
  BY <1>a, <1>14 DEF Fail, End, Idle
<1>15. CASE UNCHANGED vars
  BY <1>a, <1>15 DEF vars
<1>16. QED
  BY <1>1, <1>2, <1>3, <1>4, <1>5, <1>6, <1>7, <1>8, <1>9, <1>10, <1>11, <1>12, <1>13, <1>14, <1>15
  DEF Next, Begins, Continues

\* The tables keep their types.
LEMMA RowTypesStep == ASSUME MonitoringInv, [Next]_vars PROVE RowTypes'
<1> USE UptimeAssumption, RuleAssumption, BoundsAssumption
        DEF metrics, alerts, jobs, Locals, AlertFields, JobFields, Raised, MetricOf, RowTypes, JobsFit, AlertRow, Origin, Status, Day
<1>a. RowTypes /\ JobTypes /\ JobsFit /\ AlertFields /\ JobFields
  BY Typing, CountTyping DEF MonitoringInv
<1>1. ASSUME NextDay PROVE RowTypes'
  <2>1. today' \in Day /\ load' \in Loads
    BY <1>a, <1>1 DEF NextDay
  <2>2. aggregated' \subseteq Day /\ neglected' \subseteq Day
    BY <1>a, <1>1 DEF NextDay
  <2>3. /\ alert' = alert /\ told' = told /\ muted' = muted
        /\ raced' = raced /\ overtaken' = overtaken
    BY <1>1 DEF NextDay
  <2>4. QED
    BY <1>a, <2>1, <2>2, <2>3
<1>2. ASSUME NEW i \in Alert, Attend(i) PROVE RowTypes'
  BY <1>a, <1>2 DEF Attend
<1>3. ASSUME NEW j \in Job, NEW m \in Metric, NEW d \in 0..today,
             NEW breached \in SUBSET Rule, \A r \in breached : RuleMetric[r] = m,
             Ingest(j, m, d, breached) PROVE RowTypes'
  BY <1>a, <1>3 DEF Ingest, Begin
<1>4. ASSUME NEW j \in Job, NEW up \in BOOLEAN, Probe(j, up) PROVE RowTypes'
  BY <1>a, <1>4 DEF Probe, Begin, Idle
<1>5. ASSUME NEW j \in Job, NEW anomalies \in SUBSET Metric, Scan(j, anomalies) PROVE RowTypes'
  BY <1>a, <1>5 DEF Scan, Begin
<1>6. ASSUME NEW j \in Job, Aggregate(j) PROVE RowTypes'
  BY <1>a, <1>6 DEF Aggregate, Begin, RolledDay
<1>7. ASSUME NEW j \in Job, NEW r \in Rule, SkipDuplicate(j, r) PROVE RowTypes'
  BY <1>a, <1>7 DEF SkipDuplicate, Proceed, Recent
<1>8. ASSUME NEW j \in Job, NEW r \in Rule, FindNoDuplicate(j, r) PROVE RowTypes'
  BY <1>a, <1>8 DEF FindNoDuplicate
<1>9. ASSUME NEW j \in Job, NEW i \in Alert, CreateAlert(j, i) PROVE RowTypes'
  BY <1>a, <1>9 DEF CreateAlert, InsertAlert
<1>10. ASSUME NEW j \in Job, Notify(j) PROVE RowTypes'
  BY <1>a, <1>10 DEF Notify, Proceed
<1>11. ASSUME NEW j \in Job, NEW m \in Metric, NEW i \in Alert,
             RecordAnomaly(j, m, i) PROVE RowTypes'
  BY <1>a, <1>11 DEF RecordAnomaly, InsertAlert
<1>12. ASSUME NEW j \in Job, NEW m \in Metric, Upsert(j, m) PROVE RowTypes'
  BY <1>a, <1>12 DEF Upsert
<1>13. ASSUME NEW j \in Job, NEW wholeDay \in BOOLEAN, Prune(j, wholeDay) PROVE RowTypes'
  BY <1>a, <1>13 DEF Prune, Expired, End, Idle
<1>14. ASSUME NEW j \in Job, Fail(j) PROVE RowTypes'
  <2>1. neglected' \subseteq Day
    BY <1>a, <1>14 DEF Fail
  <2>2. muted' \subseteq Alert /\ overtaken' \subseteq Job
    BY <1>a, <1>14 DEF Fail
  <2>3. UNCHANGED <<load, today, alert, told, raced, aggregated>>
    BY <1>14 DEF Fail
  <2>4. QED
    BY <1>a, <2>1, <2>2, <2>3
<1>15. CASE UNCHANGED vars
  BY <1>a, <1>15 DEF vars
<1>16. QED
  BY <1>1, <1>2, <1>3, <1>4, <1>5, <1>6, <1>7, <1>8, <1>9, <1>10, <1>11, <1>12, <1>13, <1>14, <1>15
  DEF Next, Begins, Continues

\* The counts of points keep their types.
LEMMA CountTypesStep == ASSUME MonitoringInv, [Next]_vars PROVE CountTypes'
<1> USE UptimeAssumption, RuleAssumption, BoundsAssumption
        DEF metrics, alerts, jobs, Locals, JobFields, CountTypes
<1>a. CountTypes /\ JobTypes /\ JobFields
  BY Typing, CountTyping DEF MonitoringInv
<1>1. ASSUME NextDay PROVE CountTypes'
  BY <1>a, <1>1 DEF NextDay
<1>2. ASSUME NEW i \in Alert, Attend(i) PROVE CountTypes'
  BY <1>a, <1>2 DEF Attend
<1>3. ASSUME NEW j \in Job, NEW m \in Metric, NEW d \in 0..today,
             NEW breached \in SUBSET Rule, \A r \in breached : RuleMetric[r] = m,
             Ingest(j, m, d, breached) PROVE CountTypes'
  BY <1>a, <1>3, StoreCounts DEF Ingest, Stored
<1>4. ASSUME NEW j \in Job, NEW up \in BOOLEAN, Probe(j, up) PROVE CountTypes'
  BY <1>a, <1>4, StoreCounts DEF Probe, Stored
<1>5. ASSUME NEW j \in Job, NEW anomalies \in SUBSET Metric, Scan(j, anomalies) PROVE CountTypes'
  BY <1>a, <1>5 DEF Scan, Begin
<1>6. ASSUME NEW j \in Job, Aggregate(j) PROVE CountTypes'
  BY <1>a, <1>6 DEF Aggregate, Begin, RolledDay
<1>7. ASSUME NEW j \in Job, NEW r \in Rule, SkipDuplicate(j, r) PROVE CountTypes'
  BY <1>a, <1>7 DEF SkipDuplicate, Proceed, Recent
<1>8. ASSUME NEW j \in Job, NEW r \in Rule, FindNoDuplicate(j, r) PROVE CountTypes'
  BY <1>a, <1>8 DEF FindNoDuplicate, Recent
<1>9. ASSUME NEW j \in Job, NEW i \in Alert, CreateAlert(j, i) PROVE CountTypes'
  BY <1>a, <1>9 DEF CreateAlert, InsertAlert
<1>10. ASSUME NEW j \in Job, Notify(j) PROVE CountTypes'
  BY <1>a, <1>10 DEF Notify, Proceed
<1>11. ASSUME NEW j \in Job, NEW m \in Metric, NEW i \in Alert,
             RecordAnomaly(j, m, i) PROVE CountTypes'
  BY <1>a, <1>11 DEF RecordAnomaly, InsertAlert
<1>12. ASSUME NEW j \in Job, NEW m \in Metric, Upsert(j, m) PROVE CountTypes'
  <2>1. job[j].day \in Day /\ counts[j][m] \in Nat /\ m \in Metric
    BY <1>a DEF JobTypes
  <2>2. \A f \in Counts, e \in Day, n \in Nat : [f EXCEPT ![m][e] = n] \in Counts
    BY DEF Counts
  <2>3. QED
    BY <1>a, <2>1, <2>2, <1>12 DEF Upsert
<1>13. ASSUME NEW j \in Job, NEW wholeDay \in BOOLEAN, Prune(j, wholeDay) PROVE CountTypes'
  BY <1>a, <1>13 DEF Prune, Counts
<1>14. ASSUME NEW j \in Job, Fail(j) PROVE CountTypes'
  BY <1>a, <1>14 DEF Fail, End, Idle
<1>15. CASE UNCHANGED vars
  BY <1>a, <1>15 DEF vars
<1>16. QED
  BY <1>1, <1>2, <1>3, <1>4, <1>5, <1>6, <1>7, <1>8, <1>9, <1>10, <1>11, <1>12, <1>13, <1>14, <1>15
  DEF Next, Begins, Continues

\* What a job works on suits its step.
LEMMA JobsFitStep == ASSUME MonitoringInv, [Next]_vars PROVE JobsFit'
<1> USE UptimeAssumption, RuleAssumption, BoundsAssumption
        DEF metrics, alerts, jobs, Locals, AlertFields, JobFields, Raised, MetricOf, JobsFit, AlertsInOrder
<1>a. AlertFields /\ JobFields /\ AlertsInOrder /\ JobsFit
  BY Typing, CountTyping DEF MonitoringInv
<1>1. ASSUME NextDay PROVE JobsFit'
  BY <1>a, <1>1 DEF NextDay
<1>2. ASSUME NEW i \in Alert, Attend(i) PROVE JobsFit'
  BY <1>a, <1>2 DEF Attend
<1>3. ASSUME NEW j \in Job, NEW m \in Metric, NEW d \in 0..today,
             NEW breached \in SUBSET Rule, \A r \in breached : RuleMetric[r] = m,
             Ingest(j, m, d, breached) PROVE JobsFit'
  BY <1>a, <1>3 DEF Ingest, Begin
<1>4. ASSUME NEW j \in Job, NEW up \in BOOLEAN, Probe(j, up) PROVE JobsFit'
  BY <1>a, <1>4 DEF Probe, Begin, Idle
<1>5. ASSUME NEW j \in Job, NEW anomalies \in SUBSET Metric, Scan(j, anomalies) PROVE JobsFit'
  BY <1>a, <1>5 DEF Scan, Begin
<1>6. ASSUME NEW j \in Job, Aggregate(j) PROVE JobsFit'
  BY <1>a, <1>6 DEF Aggregate, Begin, RolledDay
<1>7. ASSUME NEW j \in Job, NEW r \in Rule, SkipDuplicate(j, r) PROVE JobsFit'
  BY <1>a, <1>7 DEF SkipDuplicate, Proceed, Recent
<1>8. ASSUME NEW j \in Job, NEW r \in Rule, FindNoDuplicate(j, r) PROVE JobsFit'
  BY <1>a, <1>8 DEF FindNoDuplicate, Recent
<1>9. ASSUME NEW j \in Job, NEW i \in Alert, CreateAlert(j, i) PROVE JobsFit'
  BY <1>a, <1>9 DEF CreateAlert, InsertAlert
<1>10. ASSUME NEW j \in Job, Notify(j) PROVE JobsFit'
  BY <1>a, <1>10 DEF Notify, Proceed
<1>11. ASSUME NEW j \in Job, NEW m \in Metric, NEW i \in Alert,
             RecordAnomaly(j, m, i) PROVE JobsFit'
  BY <1>a, <1>11 DEF RecordAnomaly, InsertAlert
<1>12. ASSUME NEW j \in Job, NEW m \in Metric, Upsert(j, m) PROVE JobsFit'
  BY <1>a, <1>12 DEF Upsert
<1>13. ASSUME NEW j \in Job, NEW wholeDay \in BOOLEAN, Prune(j, wholeDay) PROVE JobsFit'
  BY <1>a, <1>13 DEF Prune, Expired, End, Idle
<1>14. ASSUME NEW j \in Job, Fail(j) PROVE JobsFit'
  BY <1>a, <1>14 DEF Fail, End, Idle
<1>15. CASE UNCHANGED vars
  BY <1>a, <1>15 DEF vars
<1>16. QED
  BY <1>1, <1>2, <1>3, <1>4, <1>5, <1>6, <1>7, <1>8, <1>9, <1>10, <1>11, <1>12, <1>13, <1>14, <1>15
  DEF Next, Begins, Continues

\* Alerts are numbered in the order they were raised in.
LEMMA OrderStep == ASSUME MonitoringInv, [Next]_vars PROVE AlertsInOrder'
<1> USE UptimeAssumption, RuleAssumption, BoundsAssumption
        DEF metrics, alerts, jobs, Locals, AlertFields, JobFields, Raised, MetricOf, AlertsInOrder, JobsFit, Alert
<1>a. RowTypes /\ AlertFields /\ JobFields /\ AlertsInOrder /\ JobsFit
  BY Typing, CountTyping DEF MonitoringInv
<1>1. ASSUME NextDay PROVE AlertsInOrder'
  BY <1>a, <1>1 DEF NextDay
<1>2. ASSUME NEW i \in Alert, Attend(i) PROVE AlertsInOrder'
  BY <1>a, <1>2 DEF Attend
<1>3. ASSUME NEW j \in Job, NEW m \in Metric, NEW d \in 0..today,
             NEW breached \in SUBSET Rule, \A r \in breached : RuleMetric[r] = m,
             Ingest(j, m, d, breached) PROVE AlertsInOrder'
  BY <1>a, <1>3 DEF Ingest, Begin
<1>4. ASSUME NEW j \in Job, NEW up \in BOOLEAN, Probe(j, up) PROVE AlertsInOrder'
  BY <1>a, <1>4 DEF Probe, Begin, Idle
<1>5. ASSUME NEW j \in Job, NEW anomalies \in SUBSET Metric, Scan(j, anomalies) PROVE AlertsInOrder'
  BY <1>a, <1>5 DEF Scan, Begin
<1>6. ASSUME NEW j \in Job, Aggregate(j) PROVE AlertsInOrder'
  BY <1>a, <1>6 DEF Aggregate, Begin, RolledDay
<1>7. ASSUME NEW j \in Job, NEW r \in Rule, SkipDuplicate(j, r) PROVE AlertsInOrder'
  BY <1>a, <1>7 DEF SkipDuplicate, Proceed, Recent
<1>8. ASSUME NEW j \in Job, NEW r \in Rule, FindNoDuplicate(j, r) PROVE AlertsInOrder'
  BY <1>a, <1>8 DEF FindNoDuplicate, Recent
<1>9. ASSUME NEW j \in Job, NEW i \in Alert, CreateAlert(j, i) PROVE AlertsInOrder'
  BY <1>a, <1>9 DEF CreateAlert, InsertAlert
<1>10. ASSUME NEW j \in Job, Notify(j) PROVE AlertsInOrder'
  BY <1>a, <1>10 DEF Notify, Proceed
<1>11. ASSUME NEW j \in Job, NEW m \in Metric, NEW i \in Alert,
             RecordAnomaly(j, m, i) PROVE AlertsInOrder'
  <2>1. ~Raised(i) /\ \A k \in Alert : k < i => Raised(k)
    BY <1>11 DEF RecordAnomaly, InsertAlert
  <2>2. \A k \in Alert : alert'[k] = IF k = i THEN [metric |-> m, status |-> "OPEN",
                                        at |-> today, by |-> "scan"] ELSE alert[k]
    BY <1>a, <1>11 DEF RecordAnomaly, InsertAlert
  <2>3. UNCHANGED <<told, today>>
    BY <1>11 DEF RecordAnomaly
  <2>4. \A p, q \in Alert : p < q /\ Raised(q)' => Raised(p)'
    BY <1>a, <2>1, <2>2
  <2>5. \A k \in Alert : alert'[k].at <= today'
    BY <1>a, <2>2, <2>3
  <2>6. \A k \in told' : Raised(k)'
    <3>1. \A k \in told : k \in Alert /\ alert[k].status # "none"
      BY <1>a DEF RowTypes
    <3>2. QED
      BY <2>2, <2>3, <3>1
  <2>7. QED
    BY <2>4, <2>5, <2>6
<1>12. ASSUME NEW j \in Job, NEW m \in Metric, Upsert(j, m) PROVE AlertsInOrder'
  BY <1>a, <1>12 DEF Upsert
<1>13. ASSUME NEW j \in Job, NEW wholeDay \in BOOLEAN, Prune(j, wholeDay) PROVE AlertsInOrder'
  BY <1>a, <1>13 DEF Prune, Expired, End, Idle
<1>14. ASSUME NEW j \in Job, Fail(j) PROVE AlertsInOrder'
  BY <1>a, <1>14 DEF Fail, End, Idle
<1>15. CASE UNCHANGED vars
  BY <1>a, <1>15 DEF vars
<1>16. QED
  BY <1>1, <1>2, <1>3, <1>4, <1>5, <1>6, <1>7, <1>8, <1>9, <1>10, <1>11, <1>12, <1>13, <1>14, <1>15
  DEF Next, Begins, Continues

\* Every alert was told, is being told, or is excused.
LEMMA AccountedStep == ASSUME MonitoringInv, [Next]_vars PROVE AlertsAccounted'
<1> USE UptimeAssumption, RuleAssumption, BoundsAssumption
        DEF metrics, alerts, jobs, Locals, AlertFields, JobFields, Raised, MetricOf, AlertsAccounted, ToldOrExcused
<1>a. AlertFields /\ JobFields /\ AlertsAccounted
  BY Typing, CountTyping DEF MonitoringInv
<1>1. ASSUME NextDay PROVE AlertsAccounted'
  BY <1>a, <1>1 DEF NextDay
<1>2. ASSUME NEW i \in Alert, Attend(i) PROVE AlertsAccounted'
  BY <1>a, <1>2 DEF Attend
<1>3. ASSUME NEW j \in Job, NEW m \in Metric, NEW d \in 0..today,
             NEW breached \in SUBSET Rule, \A r \in breached : RuleMetric[r] = m,
             Ingest(j, m, d, breached) PROVE AlertsAccounted'
  BY <1>a, <1>3 DEF Ingest, Begin
<1>4. ASSUME NEW j \in Job, NEW up \in BOOLEAN, Probe(j, up) PROVE AlertsAccounted'
  BY <1>a, <1>4 DEF Probe, Begin, Idle
<1>5. ASSUME NEW j \in Job, NEW anomalies \in SUBSET Metric, Scan(j, anomalies) PROVE AlertsAccounted'
  BY <1>a, <1>5 DEF Scan, Begin
<1>6. ASSUME NEW j \in Job, Aggregate(j) PROVE AlertsAccounted'
  BY <1>a, <1>6 DEF Aggregate, Begin, RolledDay
<1>7. ASSUME NEW j \in Job, NEW r \in Rule, SkipDuplicate(j, r) PROVE AlertsAccounted'
  BY <1>a, <1>7 DEF SkipDuplicate, Proceed, Recent
<1>8. ASSUME NEW j \in Job, NEW r \in Rule, FindNoDuplicate(j, r) PROVE AlertsAccounted'
  BY <1>a, <1>8 DEF FindNoDuplicate, Recent
<1>9. ASSUME NEW j \in Job, NEW i \in Alert, CreateAlert(j, i) PROVE AlertsAccounted'
  BY <1>a, <1>9 DEF CreateAlert, InsertAlert
<1>10. ASSUME NEW j \in Job, Notify(j) PROVE AlertsAccounted'
  BY <1>a, <1>10 DEF Notify, Proceed
<1>11. ASSUME NEW j \in Job, NEW m \in Metric, NEW i \in Alert,
             RecordAnomaly(j, m, i) PROVE AlertsAccounted'
  BY <1>a, <1>11 DEF RecordAnomaly, InsertAlert
<1>12. ASSUME NEW j \in Job, NEW m \in Metric, Upsert(j, m) PROVE AlertsAccounted'
  BY <1>a, <1>12 DEF Upsert
<1>13. ASSUME NEW j \in Job, NEW wholeDay \in BOOLEAN, Prune(j, wholeDay) PROVE AlertsAccounted'
  BY <1>a, <1>13 DEF Prune, Expired, End, Idle
<1>14. ASSUME NEW j \in Job, Fail(j) PROVE AlertsAccounted'
  BY <1>a, <1>14 DEF Fail, End, Idle
<1>15. CASE UNCHANGED vars
  BY <1>a, <1>15 DEF vars
<1>16. QED
  BY <1>1, <1>2, <1>3, <1>4, <1>5, <1>6, <1>7, <1>8, <1>9, <1>10, <1>11, <1>12, <1>13, <1>14, <1>15
  DEF Next, Begins, Continues

\* The result of a search stands until another alert comes into being.
LEMMA SearchStep == ASSUME MonitoringInv, [Next]_vars PROVE SearchStands'
<1> USE UptimeAssumption, RuleAssumption, BoundsAssumption
        DEF metrics, alerts, jobs, Locals, AlertFields, JobFields, Raised, MetricOf, AlertsInOrder, SearchStands
<1>a. AlertFields /\ JobFields /\ AlertsInOrder /\ SearchStands
  BY Typing, CountTyping DEF MonitoringInv
<1>1. ASSUME NextDay PROVE SearchStands'
  BY <1>a, <1>1 DEF NextDay
<1>2. ASSUME NEW i \in Alert, Attend(i) PROVE SearchStands'
  BY <1>a, <1>2 DEF Attend
<1>3. ASSUME NEW j \in Job, NEW m \in Metric, NEW d \in 0..today,
             NEW breached \in SUBSET Rule, \A r \in breached : RuleMetric[r] = m,
             Ingest(j, m, d, breached) PROVE SearchStands'
  BY <1>a, <1>3 DEF Ingest, Begin
<1>4. ASSUME NEW j \in Job, NEW up \in BOOLEAN, Probe(j, up) PROVE SearchStands'
  BY <1>a, <1>4 DEF Probe, Begin, Idle
<1>5. ASSUME NEW j \in Job, NEW anomalies \in SUBSET Metric, Scan(j, anomalies) PROVE SearchStands'
  BY <1>a, <1>5 DEF Scan, Begin
<1>6. ASSUME NEW j \in Job, Aggregate(j) PROVE SearchStands'
  BY <1>a, <1>6 DEF Aggregate, Begin, RolledDay
<1>7. ASSUME NEW j \in Job, NEW r \in Rule, SkipDuplicate(j, r) PROVE SearchStands'
  BY <1>a, <1>7 DEF SkipDuplicate, Proceed, Recent
<1>8. ASSUME NEW j \in Job, NEW r \in Rule, FindNoDuplicate(j, r) PROVE SearchStands'
  <2>1. \A i \in Alert : alert[i].status = "OPEN" /\ alert[i].metric = RuleMetric[r]
                        => alert[i].at + Window[r] < today
    BY <1>a, <1>8 DEF FindNoDuplicate, Recent
  <2>2. job' = [job EXCEPT ![j] = Locals("create", job[j].day, job[j].breached,
                                         job[j].todo, r, 0)]
    BY <1>8 DEF FindNoDuplicate
  <2>3. \A k \in Job : (job'[k].pc = job[k].pc /\ job'[k].on = job[k].on)
                        \/ (k = j /\ job'[k].on = r)
    <3>1. job'[j].on = r
      BY <1>a, <2>2
    <3>2. \A k \in Job \ {j} : job'[k] = job[k]
      BY <1>a, <2>2
    <3>3. TAKE k \in Job
    <3>4. CASE k = j
      BY <3>1, <3>4
    <3>5. CASE k # j
      BY <3>2, <3>5
    <3>6. QED
      BY <3>4, <3>5
  <2>4. UNCHANGED <<alert, today, overtaken>>
    BY <1>8 DEF FindNoDuplicate
  <2>5. QED
    BY <1>a, <2>1, <2>3, <2>4
<1>9. ASSUME NEW j \in Job, NEW i \in Alert, CreateAlert(j, i) PROVE SearchStands'
  BY <1>a, <1>9 DEF CreateAlert, InsertAlert
<1>10. ASSUME NEW j \in Job, Notify(j) PROVE SearchStands'
  BY <1>a, <1>10 DEF Notify, Proceed
<1>11. ASSUME NEW j \in Job, NEW m \in Metric, NEW i \in Alert,
             RecordAnomaly(j, m, i) PROVE SearchStands'
  BY <1>a, <1>11 DEF RecordAnomaly, InsertAlert
<1>12. ASSUME NEW j \in Job, NEW m \in Metric, Upsert(j, m) PROVE SearchStands'
  BY <1>a, <1>12 DEF Upsert
<1>13. ASSUME NEW j \in Job, NEW wholeDay \in BOOLEAN, Prune(j, wholeDay) PROVE SearchStands'
  BY <1>a, <1>13 DEF Prune, Expired, End, Idle
<1>14. ASSUME NEW j \in Job, Fail(j) PROVE SearchStands'
  <2>1. \A k \in Job \ {j} : job'[k] = job[k]
    BY <1>a, <1>14 DEF Fail, End
  <2>2. job'[j].pc = "dead"
    BY <1>a, <1>14 DEF Fail, End, Idle
  <2>3. UNCHANGED <<alert, today>> /\ overtaken' = overtaken \ {j}
    BY <1>14 DEF Fail
  <2>4. QED
    BY <1>a, <2>1, <2>2, <2>3
<1>15. CASE UNCHANGED vars
  BY <1>a, <1>15 DEF vars
<1>16. QED
  BY <1>1, <1>2, <1>3, <1>4, <1>5, <1>6, <1>7, <1>8, <1>9, <1>10, <1>11, <1>12, <1>13, <1>14, <1>15
  DEF Next, Begins, Continues

\* Duplicates need a race.
LEMMA DuplicatesStep == ASSUME MonitoringInv, [Next]_vars PROVE DuplicatesNeedARace'
<1> USE UptimeAssumption, RuleAssumption, BoundsAssumption
        DEF metrics, alerts, jobs, Locals, AlertFields, JobFields, Raised, MetricOf, AlertsInOrder, SearchStands, DuplicatesNeedARace, Alert
<1>a. AlertFields /\ JobFields /\ AlertsInOrder /\ SearchStands /\ DuplicatesNeedARace
  BY Typing, CountTyping DEF MonitoringInv
<1>1. ASSUME NextDay PROVE DuplicatesNeedARace'
  BY <1>a, <1>1 DEF NextDay
<1>2. ASSUME NEW i \in Alert, Attend(i) PROVE DuplicatesNeedARace'
  <2>1. \A k \in Alert : /\ alert'[k].metric = alert[k].metric /\ alert'[k].by = alert[k].by
                         /\ alert'[k].at = alert[k].at
                         /\ alert'[k].status = "OPEN" => alert[k].status = "OPEN"
    BY <1>a, <1>2 DEF Attend
  <2>2. raced' = raced
    BY <1>2 DEF Attend
  <2>3. QED
    BY <1>a, <2>1, <2>2
<1>3. ASSUME NEW j \in Job, NEW m \in Metric, NEW d \in 0..today,
             NEW breached \in SUBSET Rule, \A r \in breached : RuleMetric[r] = m,
             Ingest(j, m, d, breached) PROVE DuplicatesNeedARace'
  BY <1>a, <1>3 DEF Ingest, Begin
<1>4. ASSUME NEW j \in Job, NEW up \in BOOLEAN, Probe(j, up) PROVE DuplicatesNeedARace'
  BY <1>a, <1>4 DEF Probe, Begin, Idle
<1>5. ASSUME NEW j \in Job, NEW anomalies \in SUBSET Metric, Scan(j, anomalies) PROVE DuplicatesNeedARace'
  BY <1>a, <1>5 DEF Scan, Begin
<1>6. ASSUME NEW j \in Job, Aggregate(j) PROVE DuplicatesNeedARace'
  BY <1>a, <1>6 DEF Aggregate, Begin, RolledDay
<1>7. ASSUME NEW j \in Job, NEW r \in Rule, SkipDuplicate(j, r) PROVE DuplicatesNeedARace'
  BY <1>a, <1>7 DEF SkipDuplicate, Proceed, Recent
<1>8. ASSUME NEW j \in Job, NEW r \in Rule, FindNoDuplicate(j, r) PROVE DuplicatesNeedARace'
  BY <1>a, <1>8 DEF FindNoDuplicate, Recent
<1>9. ASSUME NEW j \in Job, NEW i \in Alert, CreateAlert(j, i) PROVE DuplicatesNeedARace'
  <2>1. ~Raised(i) /\ \A k \in Alert : k < i => Raised(k)
    BY <1>9 DEF CreateAlert, InsertAlert
  <2>2. \A k \in Alert : alert'[k] = IF k = i THEN [metric |-> MetricOf(job[j].on),
                                        status |-> "OPEN", at |-> today, by |-> job[j].on]
                                      ELSE alert[k]
    BY <1>a, <1>9 DEF CreateAlert, InsertAlert
  <2>3. /\ raced \subseteq raced'
        /\ j \in overtaken => i \in raced'
        /\ job[j].pc = "create"
    BY <1>9 DEF CreateAlert
  <2>4. \A k \in Alert : i < k => alert'[k].status # "OPEN"
    BY <1>a, <2>1, <2>2
  <2>5. ASSUME NEW k \in Alert, k < i, alert[k].status = "OPEN",
               alert[k].metric = MetricOf(job[j].on), job[j].on \in Rule,
               today <= alert[k].at + Window[job[j].on]
        PROVE  i \in raced'
    <3>1. job[j].on # "probe" /\ MetricOf(job[j].on) = RuleMetric[job[j].on]
      BY <2>5
    <3>2. Window[job[j].on] \in Nat
      BY <2>5
    <3>3. CASE j \notin overtaken
      BY <1>a, <2>3, <2>5, <3>1, <3>2, <3>3
    <3>4. CASE j \in overtaken
      BY <2>3, <3>4
    <3>5. QED
      BY <3>3, <3>4
  <2>6. ASSUME NEW p \in Alert, NEW q \in Alert, p < q,
               alert'[p].status = "OPEN", alert'[q].status = "OPEN",
               alert'[p].metric = alert'[q].metric, alert'[q].by \in Rule,
               alert'[q].at <= alert'[p].at + Window[alert'[q].by]
        PROVE  q \in raced'
    <3>1. p # i
      BY <2>4, <2>6
    <3>2. alert'[p] = alert[p]
      BY <2>2, <3>1
    <3>3. CASE q = i
      BY <2>2, <2>5, <2>6, <3>2, <3>3
    <3>4. CASE q # i
      BY <1>a, <2>2, <2>3, <2>6, <3>2, <3>4
    <3>5. QED
      BY <3>3, <3>4
  <2>7. QED
    BY <2>6
<1>10. ASSUME NEW j \in Job, Notify(j) PROVE DuplicatesNeedARace'
  BY <1>a, <1>10 DEF Notify, Proceed
<1>11. ASSUME NEW j \in Job, NEW m \in Metric, NEW i \in Alert,
             RecordAnomaly(j, m, i) PROVE DuplicatesNeedARace'
  BY <1>a, <1>11 DEF RecordAnomaly, InsertAlert
<1>12. ASSUME NEW j \in Job, NEW m \in Metric, Upsert(j, m) PROVE DuplicatesNeedARace'
  BY <1>a, <1>12 DEF Upsert
<1>13. ASSUME NEW j \in Job, NEW wholeDay \in BOOLEAN, Prune(j, wholeDay) PROVE DuplicatesNeedARace'
  BY <1>a, <1>13 DEF Prune, Expired, End, Idle
<1>14. ASSUME NEW j \in Job, Fail(j) PROVE DuplicatesNeedARace'
  BY <1>a, <1>14 DEF Fail, End, Idle
<1>15. CASE UNCHANGED vars
  BY <1>a, <1>15 DEF vars
<1>16. QED
  BY <1>1, <1>2, <1>3, <1>4, <1>5, <1>6, <1>7, <1>8, <1>9, <1>10, <1>11, <1>12, <1>13, <1>14, <1>15
  DEF Next, Begins, Continues

\* The breaches that were dealt with have their alert.
LEMMA CoveredStep == ASSUME MonitoringInv, [Next]_vars PROVE BreachesCovered'
<1> USE UptimeAssumption, RuleAssumption, BoundsAssumption
        DEF metrics, alerts, jobs, Locals, AlertFields, JobFields, Raised, MetricOf, JobsFit, AlertsInOrder, BreachesCovered, Covered
<1>a. AlertFields /\ JobFields /\ JobsFit /\ AlertsInOrder /\ BreachesCovered
  BY Typing, CountTyping DEF MonitoringInv
<1>1. ASSUME NextDay PROVE BreachesCovered'
  BY <1>a, <1>1 DEF NextDay
<1>2. ASSUME NEW i \in Alert, Attend(i) PROVE BreachesCovered'
  BY <1>a, <1>2 DEF Attend
<1>3. ASSUME NEW j \in Job, NEW m \in Metric, NEW d \in 0..today,
             NEW breached \in SUBSET Rule, \A r \in breached : RuleMetric[r] = m,
             Ingest(j, m, d, breached) PROVE BreachesCovered'
  BY <1>a, <1>3 DEF Ingest, Begin
<1>4. ASSUME NEW j \in Job, NEW up \in BOOLEAN, Probe(j, up) PROVE BreachesCovered'
  BY <1>a, <1>4 DEF Probe, Begin, Idle
<1>5. ASSUME NEW j \in Job, NEW anomalies \in SUBSET Metric, Scan(j, anomalies) PROVE BreachesCovered'
  BY <1>a, <1>5 DEF Scan, Begin
<1>6. ASSUME NEW j \in Job, Aggregate(j) PROVE BreachesCovered'
  BY <1>a, <1>6 DEF Aggregate, Begin, RolledDay
<1>7. ASSUME NEW j \in Job, NEW r \in Rule, SkipDuplicate(j, r) PROVE BreachesCovered'
  BY <1>a, <1>7 DEF SkipDuplicate, Proceed, Recent
<1>8. ASSUME NEW j \in Job, NEW r \in Rule, FindNoDuplicate(j, r) PROVE BreachesCovered'
  BY <1>a, <1>8 DEF FindNoDuplicate, Recent
<1>9. ASSUME NEW j \in Job, NEW i \in Alert, CreateAlert(j, i) PROVE BreachesCovered'
  BY <1>a, <1>9 DEF CreateAlert, InsertAlert
<1>10. ASSUME NEW j \in Job, Notify(j) PROVE BreachesCovered'
  <2>1. alert' = alert /\ job' = [job EXCEPT ![j] =
          Locals(IF job[j].todo \ {job[j].on} = {} THEN "done" ELSE "check", job[j].day,
                 job[j].breached, job[j].todo \ {job[j].on}, "probe", 0)]
    BY <1>10 DEF Notify, Proceed
  <2>2. \A k \in Job \ {j} : job'[k] = job[k]
    BY <1>a, <2>1
  <2>3. /\ job'[j].day = job[j].day /\ job'[j].breached = job[j].breached
        /\ job'[j].todo = job[j].todo \ {job[j].on}
    BY <1>a, <2>1
  <2>4. ASSUME NEW r \in job[j].breached, r = job[j].on, r \in Rule PROVE Covered(j, r)
    <3>1. /\ job[j].id \in Alert /\ Raised(job[j].id)
          /\ alert[job[j].id].metric = RuleMetric[r] /\ job[j].day <= alert[job[j].id].at
      BY <1>a, <2>4, <1>10 DEF Notify
    <3>2. job[j].day <= alert[job[j].id].at + Window[r]
      BY <1>a, <2>4, <3>1
    <3>3. QED
      BY <3>1, <3>2
  <2>5. \A r \in job[j].breached : r \in Rule
    BY <1>a DEF Jobs
  <2>6. QED
    BY <1>a, <2>1, <2>2, <2>3, <2>4, <2>5, <1>10 DEF Notify
<1>11. ASSUME NEW j \in Job, NEW m \in Metric, NEW i \in Alert,
             RecordAnomaly(j, m, i) PROVE BreachesCovered'
  BY <1>a, <1>11 DEF RecordAnomaly, InsertAlert
<1>12. ASSUME NEW j \in Job, NEW m \in Metric, Upsert(j, m) PROVE BreachesCovered'
  BY <1>a, <1>12 DEF Upsert
<1>13. ASSUME NEW j \in Job, NEW wholeDay \in BOOLEAN, Prune(j, wholeDay) PROVE BreachesCovered'
  BY <1>a, <1>13 DEF Prune, Expired, End, Idle
<1>14. ASSUME NEW j \in Job, Fail(j) PROVE BreachesCovered'
  BY <1>a, <1>14 DEF Fail, End, Idle
<1>15. CASE UNCHANGED vars
  BY <1>a, <1>15 DEF vars
<1>16. QED
  BY <1>1, <1>2, <1>3, <1>4, <1>5, <1>6, <1>7, <1>8, <1>9, <1>10, <1>11, <1>12, <1>13, <1>14, <1>15
  DEF Next, Begins, Continues

\* Days are aggregated or neglected when they are over.
LEMMA DaysStep == ASSUME MonitoringInv, [Next]_vars PROVE DaysInOrder'
<1> USE UptimeAssumption, RuleAssumption, BoundsAssumption
        DEF metrics, alerts, jobs, Locals, AlertFields, JobFields, CountFields, Day, DaysInOrder
<1>a. CountTypes /\ CountFields /\ AlertFields /\ JobFields /\ DaysInOrder
  BY Typing, CountTyping DEF MonitoringInv
<1>1. ASSUME NextDay PROVE DaysInOrder'
  <2>1. today' = today + 1 /\ UNCHANGED <<raw, total, aggregated>>
    BY <1>1 DEF NextDay
  <2>2. ASSUME NEW d \in Day, d + 2 <= today' PROVE d \in aggregated \cup neglected'
    <3>1. CASE d + 2 <= today
      BY <1>a, <3>1, <1>1 DEF NextDay
    <3>2. CASE d = today - 1
      BY <1>a, <3>2, <1>1 DEF NextDay
    <3>3. QED
      BY <1>a, <2>1, <2>2, <3>1, <3>2
  <2>3. \A d \in aggregated' : d < today'
    BY <1>a, <2>1
  <2>4. QED
    BY <1>a, <2>1, <2>2, <2>3
<1>2. ASSUME NEW i \in Alert, Attend(i) PROVE DaysInOrder'
  BY <1>a, <1>2 DEF Attend
<1>3. ASSUME NEW j \in Job, NEW m \in Metric, NEW d \in 0..today,
             NEW breached \in SUBSET Rule, \A r \in breached : RuleMetric[r] = m,
             Ingest(j, m, d, breached) PROVE DaysInOrder'
  <2> DEFINE ms == {m}
  <2>0. StorePoints(ms, d) /\ ms \in SUBSET Metric
    BY <1>3 DEF Ingest
  <2> HIDE DEF ms
  <2>1. Stored(ms, d)
    <3>1. CountTypes
      BY <1>a
    <3>2. QED
      BY <2>0, <3>1, StoreCounts
  <2>2. \A n \in Metric, e \in Day : /\ raw[n][e] \in Nat /\ total[n][e] \in Nat
                                     /\ late[n][e] \in Nat /\ rollup[n][e] \in Nat
    BY <1>a
  <2>3. UNCHANGED <<load, today, rollup, aggregated, neglected, counts>>
    BY <1>3 DEF Ingest
  <2>4. \A n \in Metric, e \in Day : raw'[n][e] <= total'[n][e]
    <3>1. TAKE n \in Metric, e \in Day
    <3>2. raw[n][e] <= total[n][e] /\ raw[n][e] \in Nat /\ total[n][e] \in Nat
      BY <1>a, <2>2
    <3>3. \/ raw'[n][e] = raw[n][e] /\ total'[n][e] = total[n][e]
          \/ raw'[n][e] = raw[n][e] + 1 /\ total'[n][e] = total[n][e] + 1
      BY <2>1, <3>2 DEF Stored
    <3>4. QED
      BY <3>2, <3>3
  <2>5. QED
    BY <1>a, <2>3, <2>4
<1>4. ASSUME NEW j \in Job, NEW up \in BOOLEAN, Probe(j, up) PROVE DaysInOrder'
  <2> DEFINE ms == {Uptime}
  <2>0. StorePoints(ms, today) /\ ms \in SUBSET Metric
    BY <1>4 DEF Probe
  <2> HIDE DEF ms
  <2>1. Stored(ms, today)
    <3>1. CountTypes
      BY <1>a
    <3>2. QED
      BY <2>0, <3>1, StoreCounts
  <2>2. \A n \in Metric, e \in Day : /\ raw[n][e] \in Nat /\ total[n][e] \in Nat
                                     /\ late[n][e] \in Nat /\ rollup[n][e] \in Nat
    BY <1>a
  <2>3. UNCHANGED <<load, today, rollup, aggregated, neglected, counts>>
    BY <1>4 DEF Probe
  <2>4. \A n \in Metric, e \in Day : raw'[n][e] <= total'[n][e]
    <3>1. TAKE n \in Metric, e \in Day
    <3>2. raw[n][e] <= total[n][e] /\ raw[n][e] \in Nat /\ total[n][e] \in Nat
      BY <1>a, <2>2
    <3>3. \/ raw'[n][e] = raw[n][e] /\ total'[n][e] = total[n][e]
          \/ raw'[n][e] = raw[n][e] + 1 /\ total'[n][e] = total[n][e] + 1
      BY <2>1, <3>2 DEF Stored
    <3>4. QED
      BY <3>2, <3>3
  <2>5. QED
    BY <1>a, <2>3, <2>4
<1>5. ASSUME NEW j \in Job, NEW anomalies \in SUBSET Metric, Scan(j, anomalies) PROVE DaysInOrder'
  BY <1>a, <1>5 DEF Scan, Begin
<1>6. ASSUME NEW j \in Job, Aggregate(j) PROVE DaysInOrder'
  BY <1>a, <1>6 DEF Aggregate, Begin, RolledDay
<1>7. ASSUME NEW j \in Job, NEW r \in Rule, SkipDuplicate(j, r) PROVE DaysInOrder'
  BY <1>a, <1>7 DEF SkipDuplicate, Proceed, Recent
<1>8. ASSUME NEW j \in Job, NEW r \in Rule, FindNoDuplicate(j, r) PROVE DaysInOrder'
  BY <1>a, <1>8 DEF FindNoDuplicate, Recent
<1>9. ASSUME NEW j \in Job, NEW i \in Alert, CreateAlert(j, i) PROVE DaysInOrder'
  BY <1>a, <1>9 DEF CreateAlert, InsertAlert
<1>10. ASSUME NEW j \in Job, Notify(j) PROVE DaysInOrder'
  BY <1>a, <1>10 DEF Notify, Proceed
<1>11. ASSUME NEW j \in Job, NEW m \in Metric, NEW i \in Alert,
             RecordAnomaly(j, m, i) PROVE DaysInOrder'
  BY <1>a, <1>11 DEF RecordAnomaly, InsertAlert
<1>12. ASSUME NEW j \in Job, NEW m \in Metric, Upsert(j, m) PROVE DaysInOrder'
  BY <1>a, <1>12 DEF Upsert
<1>13. ASSUME NEW j \in Job, NEW wholeDay \in BOOLEAN, Prune(j, wholeDay) PROVE DaysInOrder'
  <2>1. \A m \in Metric, d \in Day : raw'[m][d] = 0 \/ raw'[m][d] = raw[m][d]
    BY <1>a, <1>13 DEF Prune
  <2>2. \A m \in Metric, d \in Day : raw[m][d] \in Nat /\ total[m][d] \in Nat
    BY <1>a
  <2>3. UNCHANGED <<today, total, aggregated, neglected>>
    BY <1>13 DEF Prune
  <2>4. \A m \in Metric, d \in Day : raw'[m][d] <= total'[m][d]
    <3>1. TAKE m \in Metric, d \in Day
    <3>2. raw[m][d] <= total[m][d]
      BY <1>a
    <3>3. total'[m][d] = total[m][d]
      BY <2>3
    <3>4. QED
      BY <2>1, <2>2, <3>2, <3>3
  <2>5. QED
    BY <1>a, <2>3, <2>4
<1>14. ASSUME NEW j \in Job, Fail(j) PROVE DaysInOrder'
  BY <1>a, <1>14 DEF Fail, End, Idle
<1>15. CASE UNCHANGED vars
  BY <1>a, <1>15 DEF vars
<1>16. QED
  BY <1>1, <1>2, <1>3, <1>4, <1>5, <1>6, <1>7, <1>8, <1>9, <1>10, <1>11, <1>12, <1>13, <1>14, <1>15
  DEF Next, Begins, Continues

\* The retention keeps the last days whole.
LEMMA WholeStep == ASSUME MonitoringInv, [Next]_vars PROVE DashboardIsWhole'
<1> USE UptimeAssumption, RuleAssumption, BoundsAssumption
        DEF metrics, alerts, jobs, Locals, AlertFields, JobFields, CountFields, Day, DashboardIsWhole
<1>a. CountTypes /\ CountFields /\ AlertFields /\ JobFields /\ DashboardIsWhole
  BY Typing, CountTyping DEF MonitoringInv
<1>1. ASSUME NextDay PROVE DashboardIsWhole'
  BY <1>a, <1>1 DEF NextDay
<1>2. ASSUME NEW i \in Alert, Attend(i) PROVE DashboardIsWhole'
  BY <1>a, <1>2 DEF Attend
<1>3. ASSUME NEW j \in Job, NEW m \in Metric, NEW d \in 0..today,
             NEW breached \in SUBSET Rule, \A r \in breached : RuleMetric[r] = m,
             Ingest(j, m, d, breached) PROVE DashboardIsWhole'
  <2> DEFINE ms == {m}
  <2>0. StorePoints(ms, d) /\ ms \in SUBSET Metric
    BY <1>3 DEF Ingest
  <2> HIDE DEF ms
  <2>1. Stored(ms, d)
    <3>1. CountTypes
      BY <1>a
    <3>2. QED
      BY <2>0, <3>1, StoreCounts
  <2>2. \A n \in Metric, e \in Day : /\ raw[n][e] \in Nat /\ total[n][e] \in Nat
                                     /\ late[n][e] \in Nat /\ rollup[n][e] \in Nat
    BY <1>a
  <2>3. UNCHANGED <<load, today, rollup, aggregated, neglected, counts>>
    BY <1>3 DEF Ingest
  <2>4. QED
    BY <1>a, <2>1, <2>2, <2>3 DEF Stored
<1>4. ASSUME NEW j \in Job, NEW up \in BOOLEAN, Probe(j, up) PROVE DashboardIsWhole'
  <2> DEFINE ms == {Uptime}
  <2>0. StorePoints(ms, today) /\ ms \in SUBSET Metric
    BY <1>4 DEF Probe
  <2> HIDE DEF ms
  <2>1. Stored(ms, today)
    <3>1. CountTypes
      BY <1>a
    <3>2. QED
      BY <2>0, <3>1, StoreCounts
  <2>2. \A n \in Metric, e \in Day : /\ raw[n][e] \in Nat /\ total[n][e] \in Nat
                                     /\ late[n][e] \in Nat /\ rollup[n][e] \in Nat
    BY <1>a
  <2>3. UNCHANGED <<load, today, rollup, aggregated, neglected, counts>>
    BY <1>4 DEF Probe
  <2>4. QED
    BY <1>a, <2>1, <2>2, <2>3 DEF Stored
<1>5. ASSUME NEW j \in Job, NEW anomalies \in SUBSET Metric, Scan(j, anomalies) PROVE DashboardIsWhole'
  BY <1>a, <1>5 DEF Scan, Begin
<1>6. ASSUME NEW j \in Job, Aggregate(j) PROVE DashboardIsWhole'
  BY <1>a, <1>6 DEF Aggregate, Begin, RolledDay
<1>7. ASSUME NEW j \in Job, NEW r \in Rule, SkipDuplicate(j, r) PROVE DashboardIsWhole'
  BY <1>a, <1>7 DEF SkipDuplicate, Proceed, Recent
<1>8. ASSUME NEW j \in Job, NEW r \in Rule, FindNoDuplicate(j, r) PROVE DashboardIsWhole'
  BY <1>a, <1>8 DEF FindNoDuplicate, Recent
<1>9. ASSUME NEW j \in Job, NEW i \in Alert, CreateAlert(j, i) PROVE DashboardIsWhole'
  BY <1>a, <1>9 DEF CreateAlert, InsertAlert
<1>10. ASSUME NEW j \in Job, Notify(j) PROVE DashboardIsWhole'
  BY <1>a, <1>10 DEF Notify, Proceed
<1>11. ASSUME NEW j \in Job, NEW m \in Metric, NEW i \in Alert,
             RecordAnomaly(j, m, i) PROVE DashboardIsWhole'
  BY <1>a, <1>11 DEF RecordAnomaly, InsertAlert
<1>12. ASSUME NEW j \in Job, NEW m \in Metric, Upsert(j, m) PROVE DashboardIsWhole'
  BY <1>a, <1>12 DEF Upsert
<1>13. ASSUME NEW j \in Job, NEW wholeDay \in BOOLEAN, Prune(j, wholeDay) PROVE DashboardIsWhole'
  BY <1>a, <1>13 DEF Prune, Expired, End, Idle
<1>14. ASSUME NEW j \in Job, Fail(j) PROVE DashboardIsWhole'
  BY <1>a, <1>14 DEF Fail, End, Idle
<1>15. CASE UNCHANGED vars
  BY <1>a, <1>15 DEF vars
<1>16. QED
  BY <1>1, <1>2, <1>3, <1>4, <1>5, <1>6, <1>7, <1>8, <1>9, <1>10, <1>11, <1>12, <1>13, <1>14, <1>15
  DEF Next, Begins, Continues

\* A rollup at work covers its day.
LEMMA RollupsStep == ASSUME MonitoringInv, [Next]_vars PROVE RollupsCover'
<1> USE UptimeAssumption, RuleAssumption, BoundsAssumption
        DEF metrics, alerts, jobs, Locals, AlertFields, JobFields, CountFields, Day, JobsFit, DaysInOrder, DashboardIsWhole, RollupsCover
<1>a. CountTypes /\ CountFields /\ AlertFields /\ JobFields /\ JobTypes /\ JobsFit /\ DaysInOrder /\ DashboardIsWhole /\ RollupsCover
  BY Typing, CountTyping DEF MonitoringInv
<1>1. ASSUME NextDay PROVE RollupsCover'
  BY <1>a, <1>1 DEF NextDay
<1>2. ASSUME NEW i \in Alert, Attend(i) PROVE RollupsCover'
  BY <1>a, <1>2 DEF Attend
<1>3. ASSUME NEW j \in Job, NEW m \in Metric, NEW d \in 0..today,
             NEW breached \in SUBSET Rule, \A r \in breached : RuleMetric[r] = m,
             Ingest(j, m, d, breached) PROVE RollupsCover'
  <2> DEFINE ms == {m}
  <2>0. StorePoints(ms, d) /\ ms \in SUBSET Metric
    BY <1>3 DEF Ingest
  <2> HIDE DEF ms
  <2>1. Stored(ms, d)
    <3>1. CountTypes
      BY <1>a
    <3>2. QED
      BY <2>0, <3>1, StoreCounts
  <2>2. \A n \in Metric, e \in Day : /\ raw[n][e] \in Nat /\ total[n][e] \in Nat
                                     /\ late[n][e] \in Nat /\ rollup[n][e] \in Nat
    BY <1>a
  <2>3. UNCHANGED <<load, today, rollup, aggregated, neglected, counts>>
    BY <1>3 DEF Ingest
  <2>4. \A k \in Job : job'[k].pc = "roll" => job'[k] = job[k]
    BY <1>a, <1>3 DEF Ingest, Begin
  <2>5. \A k \in Job : job[k].pc = "roll" => job'[k] = job[k]
    BY <1>a, <1>3 DEF Ingest, Begin
  <2>6. ASSUME NEW k \in Job, job'[k].pc = "roll"
        PROVE  /\ job'[k].day \in aggregated'
               /\ \A n \in Metric : total'[n][job'[k].day] <= counts'[k][n] + late'[n][job'[k].day]
               /\ \A n \in Metric \ job'[k].todo :
                    total'[n][job'[k].day] <= rollup'[n][job'[k].day] + late'[n][job'[k].day]
    <3>1. job'[k] = job[k] /\ job[k].pc = "roll" /\ job[k].day \in Day
      BY <1>a, <2>4, <2>6
    <3>2. job[k].day \in aggregated /\ job[k].day < today
      BY <1>a, <3>1
    <3>3. \A n \in Metric : counts[k][n] \in Nat
      BY <1>a
    <3>4. \A n \in Metric : \/ total'[n][job[k].day] = total[n][job[k].day]
                               /\ late'[n][job[k].day] = late[n][job[k].day]
                            \/ total'[n][job[k].day] = total[n][job[k].day] + 1
                               /\ late'[n][job[k].day] = late[n][job[k].day] + 1
      BY <1>a, <2>1, <2>2, <3>1, <3>2 DEF Stored
    <3>5. /\ \A n \in Metric : total[n][job[k].day] <= counts[k][n] + late[n][job[k].day]
          /\ \A n \in Metric \ job[k].todo :
               total[n][job[k].day] <= rollup[n][job[k].day] + late[n][job[k].day]
      BY <1>a, <3>1
    <3>6. ASSUME NEW n \in Metric PROVE total'[n][job[k].day] <= counts[k][n] + late'[n][job[k].day]
      BY <2>2, <3>1, <3>3, <3>4, <3>5
    <3>7. ASSUME NEW n \in Metric \ job[k].todo
          PROVE  total'[n][job[k].day] <= rollup[n][job[k].day] + late'[n][job[k].day]
      BY <2>2, <3>1, <3>4, <3>5
    <3>8. QED
      BY <2>3, <3>1, <3>2, <3>6, <3>7
  <2>7. QED
    BY <2>6
<1>4. ASSUME NEW j \in Job, NEW up \in BOOLEAN, Probe(j, up) PROVE RollupsCover'
  <2> DEFINE ms == {Uptime}
  <2>0. StorePoints(ms, today) /\ ms \in SUBSET Metric
    BY <1>4 DEF Probe
  <2> HIDE DEF ms
  <2>1. Stored(ms, today)
    <3>1. CountTypes
      BY <1>a
    <3>2. QED
      BY <2>0, <3>1, StoreCounts
  <2>2. \A n \in Metric, e \in Day : /\ raw[n][e] \in Nat /\ total[n][e] \in Nat
                                     /\ late[n][e] \in Nat /\ rollup[n][e] \in Nat
    BY <1>a
  <2>3. UNCHANGED <<load, today, rollup, aggregated, neglected, counts>>
    BY <1>4 DEF Probe
  <2>4. \A k \in Job : job'[k].pc = "roll" => job'[k] = job[k]
    BY <1>a, <1>4 DEF Probe, Begin, Idle
  <2>5. \A k \in Job : job[k].pc = "roll" => job'[k] = job[k]
    BY <1>a, <1>4 DEF Probe, Begin, Idle
  <2>6. ASSUME NEW k \in Job, job'[k].pc = "roll"
        PROVE  /\ job'[k].day \in aggregated'
               /\ \A n \in Metric : total'[n][job'[k].day] <= counts'[k][n] + late'[n][job'[k].day]
               /\ \A n \in Metric \ job'[k].todo :
                    total'[n][job'[k].day] <= rollup'[n][job'[k].day] + late'[n][job'[k].day]
    <3>1. job'[k] = job[k] /\ job[k].pc = "roll" /\ job[k].day \in Day
      BY <1>a, <2>4, <2>6
    <3>2. job[k].day \in aggregated /\ job[k].day < today
      BY <1>a, <3>1
    <3>3. \A n \in Metric : counts[k][n] \in Nat
      BY <1>a
    <3>4. \A n \in Metric : \/ total'[n][job[k].day] = total[n][job[k].day]
                               /\ late'[n][job[k].day] = late[n][job[k].day]
                            \/ total'[n][job[k].day] = total[n][job[k].day] + 1
                               /\ late'[n][job[k].day] = late[n][job[k].day] + 1
      BY <1>a, <2>1, <2>2, <3>1, <3>2 DEF Stored
    <3>5. /\ \A n \in Metric : total[n][job[k].day] <= counts[k][n] + late[n][job[k].day]
          /\ \A n \in Metric \ job[k].todo :
               total[n][job[k].day] <= rollup[n][job[k].day] + late[n][job[k].day]
      BY <1>a, <3>1
    <3>6. ASSUME NEW n \in Metric PROVE total'[n][job[k].day] <= counts[k][n] + late'[n][job[k].day]
      BY <2>2, <3>1, <3>3, <3>4, <3>5
    <3>7. ASSUME NEW n \in Metric \ job[k].todo
          PROVE  total'[n][job[k].day] <= rollup[n][job[k].day] + late'[n][job[k].day]
      BY <2>2, <3>1, <3>4, <3>5
    <3>8. QED
      BY <2>3, <3>1, <3>2, <3>6, <3>7
  <2>7. QED
    BY <2>6
<1>5. ASSUME NEW j \in Job, NEW anomalies \in SUBSET Metric, Scan(j, anomalies) PROVE RollupsCover'
  BY <1>a, <1>5 DEF Scan, Begin
<1>6. ASSUME NEW j \in Job, Aggregate(j) PROVE RollupsCover'
  <2>1. today - 1 \in Day /\ today > 0
    BY <1>a, <1>6 DEF Aggregate
  <2>2. \A m \in Metric, d \in Day : /\ raw[m][d] \in Nat /\ total[m][d] \in Nat
                                     /\ late[m][d] \in Nat /\ rollup[m][d] \in Nat
    BY <1>a
  <2>3. \A m \in Metric : raw[m][today - 1] = total[m][today - 1]
    BY <1>a, <2>1
  <2>4. /\ job' = [job EXCEPT ![j] = Locals("roll", today - 1, {},
                     {m \in Metric : raw[m][today - 1] > 0}, "probe", 0)]
        /\ counts' = [counts EXCEPT ![j] = [m \in Metric |-> raw[m][today - 1]]]
        /\ aggregated' = aggregated \cup {today - 1}
        /\ UNCHANGED <<total, late, rollup>>
    BY <1>6 DEF Aggregate, Begin, RolledDay
  <2>5. /\ job'[j].day = today - 1 /\ job'[j].todo = {m \in Metric : raw[m][today - 1] > 0}
        /\ \A m \in Metric : counts'[j][m] = raw[m][today - 1]
    BY <1>a, <2>4 DEF JobTypes
  <2>6. \A k \in Job \ {j} : job'[k] = job[k] /\ counts'[k] = counts[k]
    BY <1>a, <2>4 DEF JobTypes
  <2>7. ASSUME NEW k \in Job, job'[k].pc = "roll"
        PROVE  /\ job'[k].day \in aggregated'
               /\ \A n \in Metric : total'[n][job'[k].day] <= counts'[k][n] + late'[n][job'[k].day]
               /\ \A n \in Metric \ job'[k].todo :
                    total'[n][job'[k].day] <= rollup'[n][job'[k].day] + late'[n][job'[k].day]
    <3>1. CASE k = j
      BY <2>1, <2>2, <2>3, <2>4, <2>5, <3>1
    <3>2. CASE k # j
      BY <1>a, <2>4, <2>6, <2>7, <3>2
    <3>3. QED
      BY <3>1, <3>2
  <2>8. QED
    BY <2>7
<1>7. ASSUME NEW j \in Job, NEW r \in Rule, SkipDuplicate(j, r) PROVE RollupsCover'
  BY <1>a, <1>7 DEF SkipDuplicate, Proceed, Recent
<1>8. ASSUME NEW j \in Job, NEW r \in Rule, FindNoDuplicate(j, r) PROVE RollupsCover'
  BY <1>a, <1>8 DEF FindNoDuplicate, Recent
<1>9. ASSUME NEW j \in Job, NEW i \in Alert, CreateAlert(j, i) PROVE RollupsCover'
  BY <1>a, <1>9 DEF CreateAlert, InsertAlert
<1>10. ASSUME NEW j \in Job, Notify(j) PROVE RollupsCover'
  BY <1>a, <1>10 DEF Notify, Proceed
<1>11. ASSUME NEW j \in Job, NEW m \in Metric, NEW i \in Alert,
             RecordAnomaly(j, m, i) PROVE RollupsCover'
  BY <1>a, <1>11 DEF RecordAnomaly, InsertAlert
<1>12. ASSUME NEW j \in Job, NEW m \in Metric, Upsert(j, m) PROVE RollupsCover'
  <2>1. /\ job[j].pc = "roll" /\ job[j].day \in Day /\ job[j].day \in aggregated
        /\ \A n \in Metric : counts[j][n] \in Nat
    BY <1>a, <1>12 DEF Upsert
  <2>2. \A n \in Metric, e \in Day : /\ total[n][e] \in Nat /\ late[n][e] \in Nat
                                     /\ rollup[n][e] \in Nat
    BY <1>a
  <2>3. \A n \in Metric, e \in Day :
          rollup'[n][e] = IF n = m /\ e = job[j].day THEN counts[j][m] ELSE rollup[n][e]
    <3>1. rollup' = [rollup EXCEPT ![m] = [rollup[m] EXCEPT ![job[j].day] = counts[j][m]]]
      BY <1>12 DEF Upsert
    <3>2. rollup \in [Metric -> [Day -> Nat]]
      BY <1>a DEF CountTypes, Counts
    <3>3. QED
      BY <2>1, <3>1, <3>2
  <2>4. /\ job' = [job EXCEPT ![j] = Locals("roll", job[j].day, {}, job[j].todo \ {m}, "probe", 0)]
        /\ UNCHANGED <<total, late, aggregated, counts>>
    BY <1>12 DEF Upsert
  <2>5. /\ job'[j].day = job[j].day /\ job'[j].todo = job[j].todo \ {m}
        /\ \A k \in Job \ {j} : job'[k] = job[k]
    BY <1>a, <2>4
  <2>6. total[m][job[j].day] <= counts[j][m] + late[m][job[j].day]
    BY <1>a, <2>1
  <2>7. ASSUME NEW k \in Job, job'[k].pc = "roll"
        PROVE  /\ job'[k].day \in aggregated'
               /\ \A n \in Metric : total'[n][job'[k].day] <= counts'[k][n] + late'[n][job'[k].day]
               /\ \A n \in Metric \ job'[k].todo :
                    total'[n][job'[k].day] <= rollup'[n][job'[k].day] + late'[n][job'[k].day]
    <3>1. job[k].pc = "roll" /\ job'[k].day = job[k].day /\ job[k].day \in Day
      BY <1>a, <2>1, <2>5, <2>7
    <3>2. \A n \in Metric \ job'[k].todo : n \notin job[k].todo \/ (n = m /\ k = j)
      <4>1. CASE k = j
        BY <2>5, <4>1
      <4>2. CASE k # j
        BY <2>5, <4>2
      <4>3. QED
        BY <4>1, <4>2
    <3>3. job[k].day \in aggregated /\ aggregated' = aggregated
      BY <1>a, <2>4, <3>1
    <3>4. \A n \in Metric : total[n][job[k].day] <= counts[k][n] + late[n][job[k].day]
      BY <1>a, <3>1
    <3>5. ASSUME NEW n \in Metric, n \notin job'[k].todo
          PROVE  total[n][job[k].day] <= rollup'[n][job[k].day] + late[n][job[k].day]
      <4>1. CASE n = m /\ job[k].day = job[j].day
        BY <2>3, <2>6, <3>1, <4>1
      <4>2. CASE ~(n = m /\ job[k].day = job[j].day)
        <5>1. rollup'[n][job[k].day] = rollup[n][job[k].day]
          BY <2>3, <3>1, <4>2
        <5>2. n \notin job[k].todo
          BY <3>2, <3>5, <4>2
        <5>3. QED
          BY <1>a, <3>1, <5>1, <5>2
      <4>3. QED
        BY <4>1, <4>2
    <3>6. QED
      BY <2>4, <3>1, <3>3, <3>4, <3>5
  <2>8. QED
    BY <2>7
<1>13. ASSUME NEW j \in Job, NEW wholeDay \in BOOLEAN, Prune(j, wholeDay) PROVE RollupsCover'
  BY <1>a, <1>13 DEF Prune, Expired, End, Idle
<1>14. ASSUME NEW j \in Job, Fail(j) PROVE RollupsCover'
  BY <1>a, <1>14 DEF Fail, End, Idle
<1>15. CASE UNCHANGED vars
  BY <1>a, <1>15 DEF vars
<1>16. QED
  BY <1>1, <1>2, <1>3, <1>4, <1>5, <1>6, <1>7, <1>8, <1>9, <1>10, <1>11, <1>12, <1>13, <1>14, <1>15
  DEF Next, Begins, Continues

\* A day that was aggregated is covered.
LEMMA DaysCoveredStep == ASSUME MonitoringInv, [Next]_vars PROVE DaysCovered'
<1> USE UptimeAssumption, RuleAssumption, BoundsAssumption
        DEF metrics, alerts, jobs, Locals, AlertFields, JobFields, CountFields, Day, JobsFit, DaysInOrder, RollupsCover, DaysCovered, RollupInFlight
<1>a. CountTypes /\ CountFields /\ AlertFields /\ JobFields /\ JobsFit /\ DaysInOrder /\ RollupsCover /\ DaysCovered
  BY Typing, CountTyping DEF MonitoringInv
<1>1. ASSUME NextDay PROVE DaysCovered'
  BY <1>a, <1>1 DEF NextDay
<1>2. ASSUME NEW i \in Alert, Attend(i) PROVE DaysCovered'
  BY <1>a, <1>2 DEF Attend
<1>3. ASSUME NEW j \in Job, NEW m \in Metric, NEW d \in 0..today,
             NEW breached \in SUBSET Rule, \A r \in breached : RuleMetric[r] = m,
             Ingest(j, m, d, breached) PROVE DaysCovered'
  <2> DEFINE ms == {m}
  <2>0. StorePoints(ms, d) /\ ms \in SUBSET Metric
    BY <1>3 DEF Ingest
  <2> HIDE DEF ms
  <2>1. Stored(ms, d)
    <3>1. CountTypes
      BY <1>a
    <3>2. QED
      BY <2>0, <3>1, StoreCounts
  <2>2. \A n \in Metric, e \in Day : /\ raw[n][e] \in Nat /\ total[n][e] \in Nat
                                     /\ late[n][e] \in Nat /\ rollup[n][e] \in Nat
    BY <1>a
  <2>3. UNCHANGED <<load, today, rollup, aggregated, neglected, counts>>
    BY <1>3 DEF Ingest
  <2>4. \A k \in Job : job'[k].pc = "roll" => job'[k] = job[k]
    BY <1>a, <1>3 DEF Ingest, Begin
  <2>5. \A k \in Job : job[k].pc = "roll" => job'[k] = job[k]
    BY <1>a, <1>3 DEF Ingest, Begin
  <2>6. \A e \in Day : RollupInFlight(e) => RollupInFlight(e)'
    BY <2>5
  <2>7. ASSUME NEW e \in aggregated,
               \A n \in Metric : total[n][e] <= rollup[n][e] + late[n][e]
        PROVE  \A n \in Metric : total'[n][e] <= rollup'[n][e] + late'[n][e]
    <3>1. e \in Day /\ e < today
      BY <1>a
    <3>2. TAKE n \in Metric
    <3>3. \/ total'[n][e] = total[n][e] /\ late'[n][e] = late[n][e]
          \/ total'[n][e] = total[n][e] + 1 /\ late'[n][e] = late[n][e] + 1
      BY <1>a, <2>1, <2>2, <2>3, <3>1 DEF Stored
    <3>4. /\ total[n][e] \in Nat /\ late[n][e] \in Nat /\ rollup[n][e] \in Nat
          /\ total[n][e] <= rollup[n][e] + late[n][e]
      BY <2>2, <2>7, <3>1
    <3>5. rollup'[n][e] = rollup[n][e]
      BY <2>3
    <3>6. QED
      BY <3>3, <3>4, <3>5
  <2>8. \A e \in aggregated : e \in Day
    BY <1>a
  <2> HIDE DEF RollupInFlight
  <2>9. QED
    BY <1>a, <2>3, <2>6, <2>7, <2>8
<1>4. ASSUME NEW j \in Job, NEW up \in BOOLEAN, Probe(j, up) PROVE DaysCovered'
  <2> DEFINE ms == {Uptime}
  <2>0. StorePoints(ms, today) /\ ms \in SUBSET Metric
    BY <1>4 DEF Probe
  <2> HIDE DEF ms
  <2>1. Stored(ms, today)
    <3>1. CountTypes
      BY <1>a
    <3>2. QED
      BY <2>0, <3>1, StoreCounts
  <2>2. \A n \in Metric, e \in Day : /\ raw[n][e] \in Nat /\ total[n][e] \in Nat
                                     /\ late[n][e] \in Nat /\ rollup[n][e] \in Nat
    BY <1>a
  <2>3. UNCHANGED <<load, today, rollup, aggregated, neglected, counts>>
    BY <1>4 DEF Probe
  <2>4. \A k \in Job : job'[k].pc = "roll" => job'[k] = job[k]
    BY <1>a, <1>4 DEF Probe, Begin, Idle
  <2>5. \A k \in Job : job[k].pc = "roll" => job'[k] = job[k]
    BY <1>a, <1>4 DEF Probe, Begin, Idle
  <2>6. \A e \in Day : RollupInFlight(e) => RollupInFlight(e)'
    BY <2>5
  <2>7. ASSUME NEW e \in aggregated,
               \A n \in Metric : total[n][e] <= rollup[n][e] + late[n][e]
        PROVE  \A n \in Metric : total'[n][e] <= rollup'[n][e] + late'[n][e]
    <3>1. e \in Day /\ e < today
      BY <1>a
    <3>2. TAKE n \in Metric
    <3>3. \/ total'[n][e] = total[n][e] /\ late'[n][e] = late[n][e]
          \/ total'[n][e] = total[n][e] + 1 /\ late'[n][e] = late[n][e] + 1
      BY <1>a, <2>1, <2>2, <2>3, <3>1 DEF Stored
    <3>4. /\ total[n][e] \in Nat /\ late[n][e] \in Nat /\ rollup[n][e] \in Nat
          /\ total[n][e] <= rollup[n][e] + late[n][e]
      BY <2>2, <2>7, <3>1
    <3>5. rollup'[n][e] = rollup[n][e]
      BY <2>3
    <3>6. QED
      BY <3>3, <3>4, <3>5
  <2>8. \A e \in aggregated : e \in Day
    BY <1>a
  <2> HIDE DEF RollupInFlight
  <2>9. QED
    BY <1>a, <2>3, <2>6, <2>7, <2>8
<1>5. ASSUME NEW j \in Job, NEW anomalies \in SUBSET Metric, Scan(j, anomalies) PROVE DaysCovered'
  BY <1>a, <1>5 DEF Scan, Begin
<1>6. ASSUME NEW j \in Job, Aggregate(j) PROVE DaysCovered'
  BY <1>a, <1>6 DEF Aggregate, Begin, RolledDay
<1>7. ASSUME NEW j \in Job, NEW r \in Rule, SkipDuplicate(j, r) PROVE DaysCovered'
  BY <1>a, <1>7 DEF SkipDuplicate, Proceed, Recent
<1>8. ASSUME NEW j \in Job, NEW r \in Rule, FindNoDuplicate(j, r) PROVE DaysCovered'
  BY <1>a, <1>8 DEF FindNoDuplicate, Recent
<1>9. ASSUME NEW j \in Job, NEW i \in Alert, CreateAlert(j, i) PROVE DaysCovered'
  BY <1>a, <1>9 DEF CreateAlert, InsertAlert
<1>10. ASSUME NEW j \in Job, Notify(j) PROVE DaysCovered'
  BY <1>a, <1>10 DEF Notify, Proceed
<1>11. ASSUME NEW j \in Job, NEW m \in Metric, NEW i \in Alert,
             RecordAnomaly(j, m, i) PROVE DaysCovered'
  BY <1>a, <1>11 DEF RecordAnomaly, InsertAlert
<1>12. ASSUME NEW j \in Job, NEW m \in Metric, Upsert(j, m) PROVE DaysCovered'
  BY <1>a, <1>12 DEF Upsert
<1>13. ASSUME NEW j \in Job, NEW wholeDay \in BOOLEAN, Prune(j, wholeDay) PROVE DaysCovered'
  BY <1>a, <1>13 DEF Prune, Expired, End, Idle
<1>14. ASSUME NEW j \in Job, Fail(j) PROVE DaysCovered'
  BY <1>a, <1>14 DEF Fail, End, Idle
<1>15. CASE UNCHANGED vars
  BY <1>a, <1>15 DEF vars
<1>16. QED
  BY <1>1, <1>2, <1>3, <1>4, <1>5, <1>6, <1>7, <1>8, <1>9, <1>10, <1>11, <1>12, <1>13, <1>14, <1>15
  DEF Next, Begins, Continues

\* The first states satisfy the invariant: nothing is stored and nothing runs.
LEMMA MonitoringInit == Init => MonitoringInv
<1> SUFFICES ASSUME Init PROVE MonitoringInv
  OBVIOUS
<1> USE UptimeAssumption, RuleAssumption, BoundsAssumption DEF Init
<1>1. RowTypes
  BY DEF RowTypes, AlertRow, NoAlert, Day, Origin, Status
<1>2. CountTypes
  BY DEF CountTypes, Counts, Nothing
<1>3. JobTypes
  BY DEF JobTypes, Jobs, Idle, Locals, NoCounts, Day, Origin
<1>4. /\ \A j \in Job : job[j].pc = "idle" /\ job[j].day = 0 /\ job[j].breached = {}
      /\ \A i \in Alert : alert[i].status = "none" /\ alert[i].at = 0
  BY DEF Idle, Locals, NoAlert
<1>5. \A m \in Metric, d \in Day : raw[m][d] = 0 /\ total[m][d] = 0
  BY DEF Nothing
<1>6. JobsFit
  BY <1>4 DEF JobsFit
<1>7. AlertsInOrder /\ AlertsAccounted
  BY <1>4 DEF AlertsInOrder, AlertsAccounted, Raised
<1>8. SearchStands /\ DuplicatesNeedARace
  BY <1>4 DEF SearchStands, DuplicatesNeedARace
<1>9. BreachesCovered
  BY <1>4 DEF BreachesCovered
<1>10. DaysInOrder
  BY <1>5 DEF DaysInOrder, Day
<1>11. DashboardIsWhole
  BY <1>5 DEF DashboardIsWhole
<1>12. RollupsCover /\ DaysCovered
  BY <1>4 DEF RollupsCover, DaysCovered
<1>13. QED
  BY <1>1, <1>2, <1>3, <1>6, <1>7, <1>8, <1>9, <1>10, <1>11, <1>12 DEF MonitoringInv

\* Every step of a request, a job or the calendar keeps the invariant.
THEOREM MonitoringInvariant == Spec => []MonitoringInv
<1>1. Init => MonitoringInv
  BY MonitoringInit
<1>2. ASSUME MonitoringInv, [Next]_vars PROVE MonitoringInv'
  <2>1. RowTypes' /\ CountTypes' /\ JobTypes' /\ JobsFit'
    BY <1>2, RowTypesStep, CountTypesStep, JobTypesStep, JobsFitStep
  <2>2. AlertsInOrder' /\ AlertsAccounted' /\ SearchStands' /\ DuplicatesNeedARace'
    BY <1>2, OrderStep, AccountedStep, SearchStep, DuplicatesStep
  <2>3. BreachesCovered'
    BY <1>2, CoveredStep
  <2>4. DaysInOrder' /\ DashboardIsWhole' /\ RollupsCover' /\ DaysCovered'
    BY <1>2, DaysStep, WholeStep, RollupsStep, DaysCoveredStep
  <2>5. QED
    BY <2>1, <2>2, <2>3, <2>4 DEF MonitoringInv
<1>3. QED
  BY <1>1, <1>2, PTL DEF Spec

\* The tables and locals keep their types; only raised alerts are told of, and no
\* point is in the table more often than it was stored.
THEOREM MonitoringTypesCorrect == Spec => []TypeOK
<1>1. MonitoringInv => TypeOK
  BY DEF MonitoringInv, TypeOK, AlertsInOrder, DaysInOrder
<1>2. QED
  BY <1>1, MonitoringInvariant, PTL

\* Two open alerts in one dedupe window need an insert between the later one's
\* search and insert.
THEOREM DuplicateAlertsNeedARace == Spec => []DuplicatesNeedARace
<1>1. MonitoringInv => DuplicatesNeedARace
  BY DEF MonitoringInv
<1>2. QED
  BY <1>1, MonitoringInvariant, PTL

\* An ingest that ended left an alert for each threshold it exceeded, and told the
\* organisation of it or has an excuse.
THEOREM IngestAnswersBreaches == Spec => []BreachesAnswered
<1>1. ASSUME MonitoringInv PROVE BreachesAnswered
  <2>1. /\ \A j \in Job : job[j].pc = "done" => job[j].todo = {}
        /\ BreachesCovered /\ AlertsAccounted
    BY <1>1 DEF MonitoringInv, JobsFit
  <2>2. ASSUME NEW j \in Job, job[j].pc = "done", NEW r \in job[j].breached
        PROVE  Answered(j, r)
    <3>1. Covered(j, r)
      BY <2>1, <2>2 DEF BreachesCovered
    <3>2. QED
      BY <2>1, <3>1 DEF Covered, Answered, AlertsAccounted
  <2>3. QED
    BY <2>2 DEF BreachesAnswered
<1>2. QED
  BY <1>1, MonitoringInvariant, PTL

\* The retention never reaches into the days the dashboard looks back on.
THEOREM RetentionSparesTheDashboard == Spec => []DashboardIsWhole
<1>1. MonitoringInv => DashboardIsWhole
  BY DEF MonitoringInv
<1>2. QED
  BY <1>1, MonitoringInvariant, PTL

\* What the retention deleted is counted in the daily row, unless the rollup of the
\* day did not run, died or is still at work.
THEOREM RetentionDeletesCounted == Spec => []DeletedPointsAreCounted
<1>1. ASSUME MonitoringInv PROVE DeletedPointsAreCounted
  <2>1. /\ today \in Nat /\ \A d \in Day : d \in Nat
        /\ Retention \in Nat \ {0, 1}
    BY <1>1, BoundsAssumption DEF MonitoringInv, RowTypes, Day
  <2>2. DashboardIsWhole /\ DaysInOrder /\ DaysCovered
    BY <1>1 DEF MonitoringInv
  <2>3. ASSUME NEW m \in Metric, NEW d \in Day, raw[m][d] # total[m][d]
        PROVE  \/ total[m][d] <= rollup[m][d] + late[m][d]
               \/ d \in neglected \/ RollupInFlight(d)
    <3>1. d + 2 <= today
      BY <2>1, <2>2, <2>3 DEF DashboardIsWhole
    <3>2. d \in aggregated \cup neglected
      BY <2>2, <3>1 DEF DaysInOrder
    <3>3. QED
      BY <2>2, <3>2 DEF DaysCovered
  <2>4. QED
    BY <2>3 DEF DeletedPointsAreCounted
<1>2. QED
  BY <1>1, MonitoringInvariant, PTL

-----------------------------------------------------------------------------
(* The daily rows are exact *)

\* A rollup that is at work after the step was at work on the same day before it.
SameRollups ==
  \A k \in Job : job'[k].pc = "roll" =>
    job[k].pc = "roll" /\ job'[k].day = job[k].day /\ counts'[k] = counts[k]

\* A step that leaves the counts of the days alone leaves the daily rows exact.
LEMMA QuietExact ==
  ASSUME RollupsExact, SameRollups, UNCHANGED <<rollup, total, late, aggregated>>
  PROVE  RollupsExact'
BY DEF RollupsExact, SameRollups

\* A point stored on a day with a daily row is a late one.
LEMMA StoredExact ==
  ASSUME MonitoringInv, RollupsExact, SameRollups, UNCHANGED <<rollup, aggregated>>,
         NEW ms, NEW d, Stored(ms, d)
  PROVE  RollupsExact'
<1>1. CountFields /\ JobFields /\ DaysInOrder
  BY Typing, CountTyping DEF MonitoringInv
<1>2. ASSUME NEW m \in Metric, NEW e \in Day, rollup'[m][e] > 0
      PROVE  /\ e \in aggregated'
             /\ rollup'[m][e] <= total'[m][e] /\ total'[m][e] <= rollup'[m][e] + late'[m][e]
  <2>1. rollup'[m][e] = rollup[m][e] /\ aggregated' = aggregated /\ rollup[m][e] > 0
    BY <1>2
  <2>2. /\ e \in aggregated
        /\ rollup[m][e] <= total[m][e] /\ total[m][e] <= rollup[m][e] + late[m][e]
    BY <2>1 DEF RollupsExact
  <2>3. e < today
    BY <1>1, <2>2 DEF DaysInOrder
  <2>4. \/ total'[m][e] = total[m][e] /\ late'[m][e] = late[m][e]
        \/ total'[m][e] = total[m][e] + 1 /\ late'[m][e] = late[m][e] + 1
    <3>1. CASE m \in ms /\ e = d
      BY <2>2, <2>3, <3>1 DEF Stored
    <3>2. CASE ~(m \in ms /\ e = d)
      BY <3>2 DEF Stored
    <3>3. QED
      BY <3>1, <3>2
  <2>5. /\ total[m][e] \in Nat /\ late[m][e] \in Nat /\ rollup[m][e] \in Nat
    BY <1>1 DEF CountFields
  <2>6. QED
    BY <2>1, <2>2, <2>4, <2>5
<1>3. ASSUME NEW k \in Job, job'[k].pc = "roll", NEW m \in Metric
      PROVE  counts'[k][m] <= total'[m][job'[k].day]
  <2>1. job[k].pc = "roll" /\ job'[k].day = job[k].day /\ counts'[k] = counts[k]
    BY <1>3 DEF SameRollups
  <2>2. counts[k][m] <= total[m][job[k].day] /\ job[k].day \in Day
    BY <1>1, <2>1 DEF RollupsExact, JobFields
  <2>3. total'[m][job[k].day] \in {total[m][job[k].day], total[m][job[k].day] + 1}
    BY <2>2 DEF Stored
  <2>4. counts[k][m] \in Nat /\ total[m][job[k].day] \in Nat
    BY <1>1, <2>2 DEF CountFields
  <2>5. QED
    BY <2>1, <2>2, <2>3, <2>4
<1>4. QED
  BY <1>2, <1>3 DEF RollupsExact

\* A rollup reads the day before the one it runs on, which is whole.
LEMMA AggregateExact ==
  ASSUME MonitoringInv, RollupsExact, NEW j \in Job, Aggregate(j)
  PROVE  RollupsExact'
<1> USE BoundsAssumption DEF Day
<1>1. CountFields /\ JobTypes /\ DashboardIsWhole
  BY CountTyping DEF MonitoringInv
<1>2. today - 1 \in Day /\ today > 0
  BY <1>1 DEF Aggregate, CountFields
<1>3. \A m \in Metric : raw[m][today - 1] = total[m][today - 1]
  BY <1>1, <1>2 DEF DashboardIsWhole, CountFields
<1>4. /\ job'[j].day = today - 1 /\ \A m \in Metric : counts'[j][m] = raw[m][today - 1]
      /\ \A k \in Job \ {j} : job'[k] = job[k] /\ counts'[k] = counts[k]
  BY <1>1 DEF Aggregate, Begin, RolledDay, Locals, JobTypes
<1>5. UNCHANGED <<rollup, total, late>> /\ aggregated \subseteq aggregated'
  BY DEF Aggregate
<1>6. ASSUME NEW k \in Job, job'[k].pc = "roll", NEW m \in Metric
      PROVE  counts'[k][m] <= total'[m][job'[k].day]
  <2>1. CASE k = j
    <3>1. total[m][today - 1] \in Nat
      BY <1>1, <1>2 DEF CountFields
    <3>2. QED
      BY <1>3, <1>4, <1>5, <2>1, <3>1
  <2>2. CASE k # j
    BY <1>4, <1>5, <1>6, <2>2 DEF RollupsExact
  <2>3. QED
    BY <2>1, <2>2
<1>7. QED
  BY <1>5, <1>6 DEF RollupsExact

\* What an upsert writes: the count of its job.
LEMMA UpsertWrites ==
  ASSUME MonitoringInv, NEW j \in Job, NEW m \in Metric, Upsert(j, m)
  PROVE  /\ job[j].pc = "roll" /\ job[j].day \in Day
         /\ \A n \in Metric, e \in Day : rollup'[n][e] =
              IF n = m /\ e = job[j].day THEN counts[j][m] ELSE rollup[n][e]
<1>1. JobFields /\ CountFields /\ rollup \in [Metric -> [Day -> Nat]]
  BY Typing, CountTyping DEF MonitoringInv, CountTypes, Counts
<1>2. job[j].pc = "roll" /\ job[j].day \in Day
  BY <1>1 DEF Upsert, JobFields
<1>3. rollup' = [rollup EXCEPT ![m] = [rollup[m] EXCEPT ![job[j].day] = counts[j][m]]]
  BY DEF Upsert
<1>4. QED
  BY <1>1, <1>2, <1>3

\* An upsert writes what covers the day and counts no point twice.
LEMMA UpsertExact ==
  ASSUME MonitoringInv, RollupsExact, NEW j \in Job, NEW m \in Metric, Upsert(j, m)
  PROVE  RollupsExact'
<1>1. JobTypes /\ CountFields /\ RollupsCover
  BY CountTyping DEF MonitoringInv
<1>2. /\ job[j].pc = "roll" /\ job[j].day \in Day
      /\ \A n \in Metric, e \in Day : rollup'[n][e] =
           IF n = m /\ e = job[j].day THEN counts[j][m] ELSE rollup[n][e]
  BY UpsertWrites
<1>3. UNCHANGED <<total, late, aggregated, counts>>
  BY DEF Upsert
<1>4. /\ job[j].day \in aggregated
      /\ total[m][job[j].day] <= counts[j][m] + late[m][job[j].day]
      /\ counts[j][m] <= total[m][job[j].day]
  BY <1>1, <1>2 DEF RollupsCover, RollupsExact
<1>5. ASSUME NEW n \in Metric, NEW e \in Day, rollup'[n][e] > 0
      PROVE  /\ e \in aggregated'
             /\ rollup'[n][e] <= total'[n][e] /\ total'[n][e] <= rollup'[n][e] + late'[n][e]
  <2>1. CASE n = m /\ e = job[j].day
    BY <1>2, <1>3, <1>4, <2>1
  <2>2. CASE ~(n = m /\ e = job[j].day)
    BY <1>2, <1>3, <1>5, <2>2 DEF RollupsExact
  <2>3. QED
    BY <2>1, <2>2
<1>6. \A k \in Job : job'[k].day = job[k].day /\ (job'[k].pc = "roll" => job[k].pc = "roll")
  BY <1>1, <1>2 DEF Upsert, Locals, JobTypes
<1>7. \A k \in Job : job'[k].pc = "roll" =>
        \A n \in Metric : counts'[k][n] <= total'[n][job'[k].day]
  BY <1>3, <1>6 DEF RollupsExact
<1>8. QED
  BY <1>5, <1>7 DEF RollupsExact

\* Every step leaves the daily rows exact.
LEMMA ExactStep ==
  ASSUME MonitoringInv, RollupsExact, [Next]_vars
  PROVE  RollupsExact'
<1> USE DEF metrics, alerts, jobs, Locals
<1>a. CountTypes /\ JobTypes
  BY DEF MonitoringInv, JobTypes, Jobs
<1>1. ASSUME NextDay PROVE RollupsExact'
  <2>1. SameRollups
    BY <1>1 DEF NextDay, SameRollups
  <2>2. QED
    BY <1>1, <2>1, QuietExact DEF NextDay
<1>2. ASSUME NEW i \in Alert, Attend(i) PROVE RollupsExact'
  <2>1. SameRollups
    BY <1>2 DEF Attend, SameRollups
  <2>2. QED
    BY <1>2, <2>1, QuietExact DEF Attend
<1>3. ASSUME NEW j \in Job, NEW m \in Metric, NEW d \in 0..today,
             NEW breached \in SUBSET Rule, Ingest(j, m, d, breached) PROVE RollupsExact'
  <2> DEFINE ms == {m}
  <2>1. StorePoints(ms, d) /\ ms \in SUBSET Metric
    BY <1>3 DEF Ingest
  <2>2. SameRollups
    BY <1>a, <1>3 DEF Ingest, Begin, SameRollups, JobTypes
  <2> HIDE DEF ms
  <2>3. Stored(ms, d)
    BY <1>a, <2>1, StoreCounts
  <2>4. UNCHANGED <<rollup, aggregated>>
    BY <1>3 DEF Ingest
  <2>5. QED
    BY <2>2, <2>3, <2>4, StoredExact
<1>4. ASSUME NEW j \in Job, NEW up \in BOOLEAN, Probe(j, up) PROVE RollupsExact'
  <2> DEFINE ms == {Uptime}
  <2>1. StorePoints(ms, today) /\ ms \in SUBSET Metric
    BY <1>4, UptimeAssumption DEF Probe
  <2>2. SameRollups
    BY <1>a, <1>4 DEF Probe, Begin, Idle, SameRollups, JobTypes
  <2> HIDE DEF ms
  <2>3. Stored(ms, today)
    BY <1>a, <2>1, StoreCounts
  <2>4. UNCHANGED <<rollup, aggregated>>
    BY <1>4 DEF Probe
  <2>5. QED
    BY <2>2, <2>3, <2>4, StoredExact
<1>5. ASSUME NEW j \in Job, NEW anomalies \in SUBSET Metric, Scan(j, anomalies) PROVE RollupsExact'
  <2>1. SameRollups
    BY <1>a, <1>5 DEF Scan, Begin, SameRollups, JobTypes
  <2>2. QED
    BY <1>5, <2>1, QuietExact DEF Scan
<1>6. ASSUME NEW j \in Job, Aggregate(j) PROVE RollupsExact'
  BY <1>6, AggregateExact
<1>7. ASSUME NEW j \in Job, NEW r \in Rule, SkipDuplicate(j, r) PROVE RollupsExact'
  <2>1. SameRollups
    BY <1>a, <1>7 DEF SkipDuplicate, Proceed, SameRollups, JobTypes
  <2>2. QED
    BY <1>7, <2>1, QuietExact DEF SkipDuplicate
<1>8. ASSUME NEW j \in Job, NEW r \in Rule, FindNoDuplicate(j, r) PROVE RollupsExact'
  <2>1. SameRollups
    BY <1>a, <1>8 DEF FindNoDuplicate, SameRollups, JobTypes
  <2>2. QED
    BY <1>8, <2>1, QuietExact DEF FindNoDuplicate
<1>9. ASSUME NEW j \in Job, NEW i \in Alert, CreateAlert(j, i) PROVE RollupsExact'
  <2>1. SameRollups
    BY <1>a, <1>9 DEF CreateAlert, SameRollups, JobTypes
  <2>2. QED
    BY <1>9, <2>1, QuietExact DEF CreateAlert
<1>10. ASSUME NEW j \in Job, Notify(j) PROVE RollupsExact'
  <2>1. SameRollups
    BY <1>a, <1>10 DEF Notify, Proceed, SameRollups, JobTypes
  <2>2. QED
    BY <1>10, <2>1, QuietExact DEF Notify
<1>11. ASSUME NEW j \in Job, NEW m \in Metric, NEW i \in Alert, RecordAnomaly(j, m, i) PROVE RollupsExact'
  <2>1. SameRollups
    BY <1>a, <1>11 DEF RecordAnomaly, SameRollups, JobTypes
  <2>2. QED
    BY <1>11, <2>1, QuietExact DEF RecordAnomaly
<1>12. ASSUME NEW j \in Job, NEW m \in Metric, Upsert(j, m) PROVE RollupsExact'
  BY <1>12, UpsertExact
<1>13. ASSUME NEW j \in Job, NEW wholeDay \in BOOLEAN, Prune(j, wholeDay) PROVE RollupsExact'
  <2>1. SameRollups
    BY <1>a, <1>13 DEF Prune, End, Idle, SameRollups, JobTypes
  <2>2. QED
    BY <1>13, <2>1, QuietExact DEF Prune
<1>14. ASSUME NEW j \in Job, Fail(j) PROVE RollupsExact'
  <2>1. SameRollups
    BY <1>a, <1>14 DEF Fail, End, Idle, SameRollups, JobTypes
  <2>2. QED
    BY <1>14, <2>1, QuietExact DEF Fail
<1>15. CASE UNCHANGED vars
  <2>1. SameRollups
    BY <1>15 DEF vars, SameRollups
  <2>2. QED
    BY <1>15, <2>1, QuietExact DEF vars
<1>16. QED
  BY <1>1, <1>2, <1>3, <1>4, <1>5, <1>6, <1>7, <1>8, <1>9, <1>10, <1>11, <1>12, <1>13, <1>14, <1>15
  DEF Next, Begins, Continues

\* The daily rollup (worker index.ts:213): a daily row and what a rollup at work has
\* read never count a point twice, and miss none but those that came late.
THEOREM DailyRowsAreExact == Spec => []RollupsExact
<1>1. Init => RollupsExact
  BY DEF Init, RollupsExact, Nothing, Idle, Locals
<1>2. MonitoringInv /\ RollupsExact /\ [Next]_vars => RollupsExact'
  BY ExactStep
<1>3. QED
  BY <1>1, <1>2, MonitoringInvariant, PTL DEF Spec

\* Every replica's rollup of a day (worker index.ts:213) leaves the daily row as the
\* first one wrote it, as long as no point of the day came in late.
THEOREM RollupsAreIdempotent == Spec => RollupIsIdempotent
<1>1. ASSUME MonitoringInv, RollupsExact, [Next]_vars, RollupsExact',
             NEW m \in Metric, NEW d \in Day, rollup[m][d] > 0, late'[m][d] = 0
      PROVE  rollup'[m][d] = rollup[m][d]
  <2>1. CASE \E j \in Job, n \in Metric : Upsert(j, n) /\ d = job[j].day /\ n = m
    <3>1. PICK j \in Job : Upsert(j, m) /\ d = job[j].day
      BY <2>1
    <3>2. CountFields /\ RollupsCover
      BY <1>1, CountTyping DEF MonitoringInv
    <3>3. job[j].pc = "roll" /\ rollup'[m][d] = counts[j][m]
      BY <1>1, <3>1, UpsertWrites
    <3>4. total[m][d] <= counts[j][m] + late[m][d] /\ counts[j][m] <= total[m][d]
      BY <1>1, <3>1, <3>2, <3>3 DEF RollupsCover, RollupsExact
    <3>5. rollup[m][d] <= total[m][d] /\ total[m][d] <= rollup[m][d] + late[m][d]
      BY <1>1 DEF RollupsExact
    <3>6. late[m][d] = 0
      BY <1>1, <3>1 DEF Upsert
    <3>7. counts[j][m] \in Nat /\ total[m][d] \in Nat /\ rollup[m][d] \in Nat
      BY <3>2 DEF CountFields
    <3>8. QED
      BY <3>3, <3>4, <3>5, <3>6, <3>7
  <2>2. CASE \E j \in Job, n \in Metric : Upsert(j, n) /\ ~(d = job[j].day /\ n = m)
    <3>1. PICK j \in Job, n \in Metric : Upsert(j, n) /\ ~(d = job[j].day /\ n = m)
      BY <2>2
    <3>2. \A k \in Metric, e \in Day : rollup'[k][e] =
            IF k = n /\ e = job[j].day THEN counts[j][n] ELSE rollup[k][e]
      BY <1>1, <3>1, UpsertWrites
    <3>3. QED
      BY <3>1, <3>2
  <2>3. CASE ~\E j \in Job, n \in Metric : Upsert(j, n)
    <3>1. rollup' = rollup
      BY <1>1, <2>3
      DEF Next, Begins, Continues, vars, metrics, alerts, jobs, NextDay, Attend, Ingest, Probe,
          Scan, Aggregate, SkipDuplicate, FindNoDuplicate, CreateAlert, Notify, RecordAnomaly,
          Prune, Fail
    <3>2. QED
      BY <3>1
  <2>4. QED
    BY <2>1, <2>2, <2>3
<1>2. MonitoringInv /\ RollupsExact /\ [Next]_vars /\ RollupsExact' =>
        [\A m \in Metric, d \in Day :
           rollup[m][d] > 0 /\ late'[m][d] = 0 => rollup'[m][d] = rollup[m][d]]_vars
  BY <1>1
<1>3. QED
  BY <1>2, MonitoringInvariant, DailyRowsAreExact, PTL DEF Spec, RollupIsIdempotent

=============================================================================
