---------------------------- MODULE RunbooksProofs ----------------------------
(***************************************************************************)
(* Theorems about Runbooks, for any runbooks, any finite set of execution  *)
(* slots, any pages, any maxRetries and any bounds.                        *)
(***************************************************************************)
EXTENDS Runbooks, TLAPS, FiniteSetTheorems

\* Two disjoint sets of executions.
LEMMA DisjointExecutors ==
  ASSUME NEW U \in SUBSET Executor, NEW V \in SUBSET Executor, U \cap V = {}
  PROVE  /\ IsFiniteSet(U) /\ Cardinality(U) \in Nat
         /\ IsFiniteSet(V) /\ Cardinality(V) \in Nat
         /\ Cardinality(Executor) \in Nat
         /\ Cardinality(U) + Cardinality(V) <= Cardinality(Executor)
<1>1. /\ IsFiniteSet(U) /\ Cardinality(U) \in Nat
      /\ IsFiniteSet(V) /\ Cardinality(V) \in Nat
      /\ Cardinality(Executor) \in Nat
  BY ExecutorAssumption, FS_Subset, FS_CardinalityType
<1>2. Cardinality(U \cap V) = 0
  BY FS_EmptySet
<1>3. Cardinality(U \cup V) = Cardinality(U) + Cardinality(V) - Cardinality(U \cap V)
  BY <1>1, FS_Union
<1>4. U \cup V \in SUBSET Executor
  OBVIOUS
<1>5. Cardinality(U \cup V) <= Cardinality(Executor)
  BY <1>4, ExecutorAssumption, FS_Subset
<1>6. QED
  BY <1>1, <1>2, <1>3, <1>5

\* The sets that the counters are compared with, before and after a step: an
\* execution is in at most one of them.
LEMMA ExecutorsCounted ==
  ASSUME NEW b
  PROVE  /\ IsFiniteSet(Uncounted(b)) /\ IsFiniteSet(Upcoming(b))
         /\ Cardinality(Uncounted(b)) \in Nat /\ Cardinality(Upcoming(b)) \in Nat
         /\ Cardinality(Executor) \in Nat
<1>1. /\ Uncounted(b) \in SUBSET Executor /\ Upcoming(b) \in SUBSET Executor
      /\ Uncounted(b) \cap Upcoming(b) = {}
  BY DEF Uncounted, Upcoming, Count, Act
<1>2. QED
  BY <1>1, DisjointExecutors

LEMMA ExecutorsCountedNext ==
  ASSUME NEW CONSTANT b
  PROVE  /\ Cardinality(Uncounted(b)') \in Nat /\ Cardinality(Upcoming(b)') \in Nat
         /\ Cardinality(Uncounted(b)') + Cardinality(Upcoming(b)') <= Cardinality(Executor)
<1>1. /\ Uncounted(b)' \in SUBSET Executor /\ Upcoming(b)' \in SUBSET Executor
      /\ Uncounted(b)' \cap Upcoming(b)' = {}
  BY DEF Uncounted, Upcoming, Count, Act
<1>2. QED
  BY <1>1, DisjointExecutors

LEMMA RunbooksTypeStep == ASSUME RunbooksInv, [Next]_vars PROVE TypeOK'
<1> USE NoRunbookAssumption
        DEF TypeOK, PC, Caller, Badges, Idle, Act, Count, rows, executors, history, Release
<1>a. TypeOK
  BY DEF RunbooksInv
<1>1. ASSUME NEW b \in Runbook, NEW on \in BOOLEAN,
             CreateRunbook(b) \/ DeleteRunbook(b) \/ UpdateRunbook(b, on)
      PROVE TypeOK'
  BY <1>a, <1>1 DEF CreateRunbook, DeleteRunbook, UpdateRunbook
<1>7. ASSUME NEW g \in Page, LoadPage(g) PROVE TypeOK'
  BY <1>a, <1>7 DEF LoadPage, Badge
<1>2. ASSUME NEW x \in Executor, NEW b \in Runbook, NEW caller \in Caller,
             Execute(x, b, caller)
      PROVE TypeOK'
  BY <1>a, <1>2 DEF Execute, Runnable, WithinBudget
<1>3. ASSUME NEW x \in Executor, Perform(x) PROVE TypeOK'
  BY <1>a, <1>3 DEF Perform
<1>4. ASSUME NEW x \in Executor, CountRun(x) PROVE TypeOK'
  BY <1>a, <1>4 DEF CountRun
<1>5. ASSUME NEW x \in Executor, Die(x) PROVE TypeOK'
  BY <1>a, <1>5 DEF Die
<1>6. ASSUME UNCHANGED vars PROVE TypeOK'
  BY <1>a, <1>6 DEF vars
<1> HIDE DEF TypeOK
<1>8. QED
  BY <1>1, <1>2, <1>3, <1>4, <1>5, <1>6, <1>7
     DEF Next, SubmitForm, Toggle, ExecutionStep, RunNow, RunInternally, Caller

\* The counters of one runbook.
RunsOf(b)   == runs[b] = runCount[b] + Cardinality(Uncounted(b)) + lost[b]
AutoOf(b)   == autoRuns[b] <= runs[b]
BoundOf(b)  == autoRuns[b] + Cardinality(Upcoming(b))
                 <= MaxRetries - 1 + Cardinality(Executor) + lost[b]
CountsOf(b) == RunsOf(b) /\ AutoOf(b) /\ BoundOf(b)

\* What the actions do to the counters of any runbook c.
LEMMA CountsStep ==
  ASSUME RunbooksInv, [Next]_vars, NEW c \in Runbook PROVE CountsOf(c)'
<1> USE DEF CountsOf, RunsOf, AutoOf, BoundOf
<1>a. TypeOK /\ CountsOf(c)
  BY DEF RunbooksInv, RunsAccounted, AutomationBounded
<1>b. /\ runs[c] \in Nat /\ autoRuns[c] \in Nat /\ runCount[c] \in Nat /\ lost[c] \in Nat
      /\ MaxRetries \in Nat
  BY <1>a, MaxRetriesAssumption DEF TypeOK
<1>c. ASSUME UNCHANGED <<runs[c], autoRuns[c], runCount[c], lost[c], pc, job, by>>
      PROVE CountsOf(c)'
  <2>1. Uncounted(c)' = Uncounted(c) /\ Upcoming(c)' = Upcoming(c)
    BY <1>c DEF Uncounted, Upcoming
  <2>2. QED
    BY <1>a, <1>c, <2>1
<1>1. ASSUME NEW b \in Runbook, NEW on \in BOOLEAN,
             CreateRunbook(b) \/ DeleteRunbook(b) \/ UpdateRunbook(b, on)
      PROVE CountsOf(c)'
  BY <1>c, <1>1 DEF CreateRunbook, DeleteRunbook, UpdateRunbook, executors, history
<1>2. ASSUME NEW x \in Executor, NEW b \in Runbook, NEW caller \in Caller,
             Execute(x, b, caller)
      PROVE CountsOf(c)'
  <2>1. /\ UNCHANGED <<runs, autoRuns, runCount, lost>>
        /\ Uncounted(c)' = Uncounted(c)
    BY <1>a, <1>2 DEF Execute, Runnable, WithinBudget, TypeOK, rows, history, Uncounted, Idle, Act, Count
  <2>2. CASE b = c /\ caller = "SYSTEM"
    <3>1. runCount[c] < MaxRetries
      BY <1>2, <2>2 DEF Execute, Runnable, WithinBudget
    <3>2. /\ Cardinality(Upcoming(c)') \in Nat /\ Cardinality(Uncounted(c)) \in Nat
          /\ Cardinality(Executor) \in Nat
          /\ Cardinality(Uncounted(c)) + Cardinality(Upcoming(c)') <= Cardinality(Executor)
      BY <2>1, ExecutorsCounted, ExecutorsCountedNext
    <3>3. QED
      BY <1>a, <1>b, <2>1, <3>1, <3>2
  <2>3. CASE ~(b = c /\ caller = "SYSTEM")
    <3>1. Upcoming(c)' = Upcoming(c)
      BY <1>a, <1>2, <2>3 DEF Execute, Runnable, WithinBudget, TypeOK, Upcoming, Idle, Act, Caller
    <3>2. QED
      BY <1>a, <2>1, <3>1
  <2>4. QED
    BY <2>2, <2>3
<1>3. ASSUME NEW x \in Executor, Perform(x)
      PROVE CountsOf(c)'
  <2>1. CASE job[x] = c
    <3>1. /\ runs'[c] = runs[c] + 1 /\ UNCHANGED <<runCount, lost>>
          /\ autoRuns'[c] = IF by[x] = "USER" THEN autoRuns[c] ELSE autoRuns[c] + 1
      BY <1>a, <1>3, <2>1 DEF Perform, TypeOK, rows
    <3>2. Uncounted(c)' = Uncounted(c) \cup {x} /\ x \notin Uncounted(c)
      BY <1>a, <1>3, <2>1 DEF Perform, TypeOK, Uncounted, Act, Count
    <3>3. Cardinality(Uncounted(c)') = Cardinality(Uncounted(c)) + 1
      BY <3>2, ExecutorsCounted, FS_AddElement
    <3>4. CASE by[x] = "USER"
      <4>1. Upcoming(c)' = Upcoming(c)
        BY <1>a, <1>3, <3>4 DEF Perform, TypeOK, Upcoming, Act, Count
      <4>2. QED
        BY <1>a, <1>b, <3>1, <3>3, <3>4, <4>1, ExecutorsCounted
    <3>5. CASE by[x] # "USER"
      <4>1. Upcoming(c)' = Upcoming(c) \ {x} /\ x \in Upcoming(c)
        BY <1>a, <1>3, <2>1, <3>5 DEF Perform, TypeOK, Upcoming, Act, Count, Caller
      <4>2. Cardinality(Upcoming(c)') = Cardinality(Upcoming(c)) - 1
        BY <4>1, ExecutorsCounted, FS_RemoveElement
      <4>3. QED
        BY <1>a, <1>b, <3>1, <3>3, <3>5, <4>2, ExecutorsCounted
    <3>6. QED
      BY <3>4, <3>5
  <2>2. CASE job[x] # c
    <3>1. UNCHANGED <<runs[c], autoRuns[c], runCount[c], lost[c]>>
      BY <1>a, <1>3, <2>2 DEF Perform, TypeOK, rows
    <3>2. Uncounted(c)' = Uncounted(c) /\ Upcoming(c)' = Upcoming(c)
      BY <1>a, <1>3, <2>2 DEF Perform, TypeOK, Uncounted, Upcoming
    <3>3. QED
      BY <1>a, <3>1, <3>2
  <2>3. QED
    BY <2>1, <2>2
<1>4. ASSUME NEW x \in Executor, CountRun(x) \/ Die(x)
      PROVE CountsOf(c)'
  <2>1. CASE job[x] = c /\ pc[x] = Count
    <3>1. /\ UNCHANGED <<runs[c], autoRuns[c]>>
          /\ \/ runCount'[c] = runCount[c] + 1 /\ lost'[c] = lost[c]
             \/ runCount'[c] = runCount[c] /\ lost'[c] = lost[c] + 1
      BY <1>a, <1>4, <2>1 DEF CountRun, Die, TypeOK, rows, history
    <3>2. Uncounted(c)' = Uncounted(c) \ {x} /\ x \in Uncounted(c)
      BY <1>a, <1>4, <2>1 DEF CountRun, Die, Release, TypeOK, Uncounted, Idle, Count
    <3>3. Cardinality(Uncounted(c)') = Cardinality(Uncounted(c)) - 1
      BY <3>2, ExecutorsCounted, FS_RemoveElement
    <3>4. Upcoming(c)' = Upcoming(c)
      BY <1>a, <1>4, <2>1 DEF CountRun, Die, Release, TypeOK, Upcoming, Idle, Act, Count
    <3>5. QED
      BY <1>a, <1>b, <3>1, <3>3, <3>4, ExecutorsCounted
  <2>2. CASE ~(job[x] = c /\ pc[x] = Count)
    <3>1. UNCHANGED <<runs[c], autoRuns[c], runCount[c], lost[c]>>
      BY <1>a, <1>4, <2>2 DEF CountRun, Die, TypeOK, rows, history
    <3>2. Uncounted(c)' = Uncounted(c)
      BY <1>a, <1>4, <2>2 DEF CountRun, Die, Release, TypeOK, Uncounted, Idle, Count
    <3>3. Upcoming(c)' \in SUBSET Upcoming(c)
      BY <1>a, <1>4 DEF CountRun, Die, Release, TypeOK, Upcoming, Idle, Act
    <3>4. /\ Cardinality(Upcoming(c)') \in Nat
          /\ Cardinality(Upcoming(c)') <= Cardinality(Upcoming(c))
      BY <3>3, ExecutorsCounted, FS_Subset, FS_CardinalityType
    <3>5. QED
      BY <1>a, <1>b, <3>1, <3>2, <3>4, ExecutorsCounted
  <2>3. QED
    BY <2>1, <2>2
<1>5. ASSUME (\E g \in Page : LoadPage(g)) \/ UNCHANGED vars PROVE CountsOf(c)'
  BY <1>c, <1>5 DEF LoadPage, vars, rows, executors, history
<1> HIDE DEF CountsOf
<1>6. QED
  BY <1>1, <1>2, <1>3, <1>4, <1>5
     DEF Next, SubmitForm, Toggle, ExecutionStep, RunNow, RunInternally, Caller

LEMMA RunbooksStep == ASSUME RunbooksInv, [Next]_vars PROVE RunbooksInv'
<1>1. \A c \in Runbook : CountsOf(c)'
  BY CountsStep
<1>2. QED
  BY <1>1, RunbooksTypeStep
     DEF RunbooksInv, RunsAccounted, AutomationBounded, CountsOf, RunsOf, AutoOf, BoundOf

LEMMA RunbooksInit == Init => RunbooksInv
<1> SUFFICES ASSUME Init PROVE RunbooksInv
  OBVIOUS
<1>1. TypeOK
  BY DEF Init, TypeOK, PC, Caller, Badges, Idle
<1>2. ASSUME NEW b \in Runbook PROVE Uncounted(b) = {} /\ Upcoming(b) = {}
  BY DEF Init, Uncounted, Upcoming, Idle, Act, Count
<1>3. Cardinality({}) = 0 /\ Cardinality(Executor) \in Nat
  BY FS_EmptySet, ExecutorAssumption, FS_CardinalityType
<1>4. ASSUME NEW b \in Runbook
      PROVE  /\ Cardinality(Uncounted(b)) = 0 /\ Cardinality(Upcoming(b)) = 0
             /\ runs[b] = 0 /\ autoRuns[b] = 0 /\ runCount[b] = 0 /\ lost[b] = 0
  BY <1>2, <1>3 DEF Init
<1>5. RunsAccounted /\ AutomationBounded /\ \A b \in Runbook : autoRuns[b] <= runs[b]
  BY <1>3, <1>4, MaxRetriesAssumption DEF RunsAccounted, AutomationBounded
<1>6. QED
  BY <1>1, <1>5 DEF RunbooksInv

\* The inductive invariant of Runbooks.
THEOREM RunbooksInvariant == Spec => []RunbooksInv
  BY RunbooksInit, RunbooksStep, PTL DEF Spec

\* Types of the runbooks and of the executions' locals.
THEOREM RunbookTypesCorrect == Spec => []TypeOK
  BY RunbooksInvariant, PTL DEF RunbooksInv

\* Overlapping executions and updates lose no count.
THEOREM RunsAreAccounted == Spec => []RunsAccounted
  BY RunbooksInvariant, PTL DEF RunbooksInv

\* Automation stays within maxRetries up to the executions that overlap and the
\* runs that died before they were counted.
THEOREM AutomationIsBounded == Spec => []AutomationBounded
  BY RunbooksInvariant, PTL DEF RunbooksInv

-----------------------------------------------------------------------------
(* The kill switch *)

\* One step while runbook c is switched off or deleted.
LEMMA SwitchedOffStep ==
  ASSUME RunbooksInv, [Next]_vars, NEW c \in Runbook, c \notin enabled \/ c \in deleted
  PROVE  /\ Passed(c)' \subseteq Passed(c)
         /\ runs'[c] + Cardinality(Passed(c)') <= runs[c] + Cardinality(Passed(c))
<1> DEFINE Goal ==
      /\ Passed(c)' \subseteq Passed(c)
      /\ runs'[c] + Cardinality(Passed(c)') <= runs[c] + Cardinality(Passed(c))
<1>a. TypeOK /\ runs[c] \in Nat
  BY DEF RunbooksInv, TypeOK
<1>b. IsFiniteSet(Passed(c)) /\ Cardinality(Passed(c)) \in Nat
  <2>1. Passed(c) \in SUBSET Executor
    BY DEF Passed
  <2>2. QED
    BY <2>1, ExecutorAssumption, FS_Subset, FS_CardinalityType
<1>c. ASSUME runs'[c] = runs[c], Passed(c)' \subseteq Passed(c) PROVE Goal
  <2>1. /\ Cardinality(Passed(c)') <= Cardinality(Passed(c))
        /\ Cardinality(Passed(c)') \in Nat
    BY <1>b, <1>c, FS_Subset, FS_CardinalityType
  <2>2. QED
    BY <1>a, <1>b, <1>c, <2>1
<1>1. ASSUME NEW x \in Executor, NEW b \in Runbook, NEW caller \in Caller,
             Execute(x, b, caller)
      PROVE  Goal
  <2>1. b # c
    BY <1>1 DEF Execute, Runnable
  <2>2. runs' = runs /\ Passed(c)' \subseteq Passed(c)
    BY <1>a, <1>1, <2>1 DEF Execute, TypeOK, history, Passed
  <2>3. QED
    BY <1>c, <2>2
<1>2. ASSUME NEW x \in Executor, Perform(x) PROVE Goal
  <2>1. CASE job[x] = c
    <3>1. runs'[c] = runs[c] + 1
      BY <1>a, <1>2, <2>1 DEF Perform, TypeOK
    <3>2. Passed(c)' = Passed(c) \ {x} /\ x \in Passed(c)
      BY <1>a, <1>2, <2>1 DEF Perform, TypeOK, Passed, Act, Count
    <3>3. Cardinality(Passed(c)') = Cardinality(Passed(c)) - 1
      BY <1>b, <3>2, FS_RemoveElement
    <3>4. QED
      BY <1>a, <1>b, <3>1, <3>2, <3>3
  <2>2. CASE job[x] # c
    <3>1. runs'[c] = runs[c] /\ Passed(c)' \subseteq Passed(c)
      BY <1>a, <1>2, <2>2 DEF Perform, TypeOK, Passed
    <3>2. QED
      BY <1>c, <3>1
  <2>3. QED
    BY <2>1, <2>2
<1>3. ASSUME NEW x \in Executor, CountRun(x) \/ Die(x) PROVE Goal
  <2>1. runs' = runs /\ Passed(c)' \subseteq Passed(c)
    BY <1>a, <1>3 DEF CountRun, Die, Release, TypeOK, history, Passed, Idle, Act
  <2>2. QED
    BY <1>c, <2>1
<1>4. ASSUME UNCHANGED <<runs, pc, job>> PROVE Goal
  <2>1. Passed(c)' = Passed(c)
    BY <1>4 DEF Passed
  <2>2. QED
    BY <1>c, <1>4, <2>1
<1>5. ASSUME NEW b \in Runbook, NEW on \in BOOLEAN,
             CreateRunbook(b) \/ DeleteRunbook(b) \/ UpdateRunbook(b, on)
      PROVE  UNCHANGED <<runs, pc, job>>
  BY <1>5 DEF CreateRunbook, DeleteRunbook, UpdateRunbook, executors, history
<1>6. ASSUME (\E g \in Page : LoadPage(g)) \/ UNCHANGED vars
      PROVE  UNCHANGED <<runs, pc, job>>
  BY <1>6 DEF LoadPage, vars, executors, history
<1> HIDE DEF Goal
<1>7. Goal
  BY <1>1, <1>2, <1>3, <1>4, <1>5, <1>6
     DEF Next, SubmitForm, Toggle, ExecutionStep, RunNow, RunInternally, Caller
<1>8. QED
  BY <1>7 DEF Goal

\* Once switched off or deleted, a runbook acts at most once for every execution
\* that had passed the checks by then.
THEOREM KillSwitchWindsDown == Spec => SwitchedOffWindsDown
<1>1. ASSUME RunbooksInv, [Next]_vars
      PROVE  \A b \in Runbook : b \notin enabled \/ b \in deleted =>
               /\ Passed(b)' \subseteq Passed(b)
               /\ runs'[b] + Cardinality(Passed(b)') <= runs[b] + Cardinality(Passed(b))
  BY <1>1, SwitchedOffStep
<1>2. QED
  BY <1>1, RunbooksInvariant, PTL DEF Spec, SwitchedOffWindsDown

\* A deleted runbook without an execution under way.
AtRest(b) == b \in deleted /\ ~InFlight(b)

LEMMA AtRestStep ==
  ASSUME RunbooksInv, [Next]_vars, NEW c \in Runbook, AtRest(c) PROVE AtRest(c)'
<1> USE DEF AtRest, InFlight
<1>a. TypeOK /\ c \in deleted /\ \A x \in Executor : pc[x] = Idle \/ job[x] # c
  BY DEF RunbooksInv
<1>1. ASSUME NEW x \in Executor, NEW b \in Runbook, NEW caller \in Caller,
             Execute(x, b, caller)
      PROVE  AtRest(c)'
  <2>1. b # c
    BY <1>a, <1>1 DEF Execute, Runnable
  <2>2. QED
    BY <1>a, <1>1, <2>1 DEF Execute, TypeOK, rows
<1>2. ASSUME NEW x \in Executor, Perform(x) PROVE AtRest(c)'
  BY <1>a, <1>2 DEF Perform, TypeOK, rows, Act, Idle
<1>3. ASSUME NEW x \in Executor, CountRun(x) \/ Die(x) PROVE AtRest(c)'
  BY <1>a, <1>3 DEF CountRun, Die, Release, TypeOK, rows
<1>4. ASSUME deleted \subseteq deleted', UNCHANGED <<pc, job>> PROVE AtRest(c)'
  BY <1>a, <1>4
<1>5. ASSUME NEW b \in Runbook, NEW on \in BOOLEAN,
             CreateRunbook(b) \/ DeleteRunbook(b) \/ UpdateRunbook(b, on)
      PROVE  AtRest(c)'
  BY <1>4, <1>5 DEF CreateRunbook, DeleteRunbook, UpdateRunbook, executors
<1>6. ASSUME (\E g \in Page : LoadPage(g)) \/ UNCHANGED vars PROVE AtRest(c)'
  BY <1>4, <1>6 DEF LoadPage, vars, rows, executors
<1> HIDE DEF AtRest
<1>7. QED
  BY <1>1, <1>2, <1>3, <1>5, <1>6
     DEF Next, SubmitForm, Toggle, ExecutionStep, RunNow, RunInternally, Caller

\* The safety half of KillSwitchWorks: once a deleted runbook has come to rest it
\* never runs again; that it comes to rest is what fairness is for.
THEOREM DeletedRunbooksStayAtRest ==
  Spec => \A b \in Runbook : [](AtRest(b) => []AtRest(b))
<1>1. ASSUME NEW b \in Runbook PROVE Spec => [](AtRest(b) => []AtRest(b))
  <2>1. RunbooksInv /\ [Next]_vars /\ AtRest(b) => AtRest(b)'
    BY AtRestStep
  <2>2. QED
    BY <2>1, RunbooksInvariant, PTL DEF Spec
<1>2. QED
  BY <1>1
=============================================================================
