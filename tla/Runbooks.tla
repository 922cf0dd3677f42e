------------------------------- MODULE Runbooks -------------------------------
(***************************************************************************)
(* Automation runbooks (modules/automation).  An execution reads the       *)
(* runbook, checks that it is enabled and - unless a person asked for it - *)
(* that its runCount is below maxRetries, then performs the action, then   *)
(* counts the run.  Executions arrive from people, from AI agents and from *)
(* the runbook-jobs queue of every worker replica (five at a time each),   *)
(* and overlap: what was checked may be stale when the action is performed.*)
(* People see the runbooks on pages, each of which offers what the list it *)
(* last loaded says.                                                       *)
(*                                                                         *)
(* The action itself (a ticket, a notification, a call of a webhook) is    *)
(* one step; it may happen and its execution still die before the count.   *)
(***************************************************************************)
EXTENDS Naturals, FiniteSets

CONSTANTS
  Runbook,     \* the runbooks that can be created
  Executor,    \* slots for executions that are in flight
  NoRunbook,   \* the slot is free
  Page,        \* the browsers with the automation page open
  MaxRetries,  \* maxRetries of the runbooks
  MaxRuns,     \* bound: people run no runbook with this runCount
  MaxLost      \* bound: uncounted runs of a runbook

ASSUME NoRunbookAssumption  == NoRunbook \notin Runbook
ASSUME ExecutorAssumption   == IsFiniteSet(Executor)
ASSUME MaxRetriesAssumption == MaxRetries \in Nat \ {0}

VARIABLES
  created,   \* the runbooks that have a row
  enabled,   \* the runbooks with enabled = true
  deleted,   \* the runbooks with a deletedAt
  runCount,  \* runCount[b]: the row's counter
  shown,     \* shown[g][b]: the badge of b in the list that page g has loaded
  pc,        \* pc[x]: what execution x does next
  job,       \* job[x]: the runbook x executes
  by,        \* by[x]: "USER" or "SYSTEM" (an AI agent is treated alike)
  runs,      \* history: how often the action of b was performed
  autoRuns,  \* history: how often without a person asking for it
  lost       \* history: the runs of b that were never counted

rows      == <<created, enabled, deleted, runCount>>
executors == <<pc, job, by>>
history   == <<runs, autoRuns, lost>>
vars      == <<rows, shown, executors, history>>

Idle   == "idle"    \* the slot is free
Act    == "act"     \* checked, before the action
Count  == "count"   \* the action was performed, before the increment

PC     == {Idle, Act, Count}
Caller == {"USER", "SYSTEM"}
Badges == {"none", "ACTIVE", "CANCELED"}

-----------------------------------------------------------------------------

Release(x) ==
  /\ pc'  = [pc EXCEPT ![x] = Idle]
  /\ job' = [job EXCEPT ![x] = NoRunbook]
  /\ by'  = [by EXCEPT ![x] = "USER"]

\* AutomationService.createRunbook; enabled is the column's default.
CreateRunbook(b) ==
  /\ b \notin created
  /\ created' = created \cup {b}
  /\ enabled' = enabled \cup {b}
  /\ UNCHANGED <<deleted, runCount, shown, executors, history>>

\* The form of the page: whatever it watches and does, it creates a runbook.
SubmitForm(b) == CreateRunbook(b)

\* updateRunbook switches the kill switch, also on a deleted runbook.
UpdateRunbook(b, on) ==
  /\ b \in created
  /\ enabled' = IF on THEN enabled \cup {b} ELSE enabled \ {b}
  /\ UNCHANGED <<created, deleted, runCount, shown, executors, history>>

DeleteRunbook(b) ==
  /\ b \in created
  /\ deleted' = deleted \cup {b}
  /\ UNCHANGED <<created, enabled, runCount, shown, executors, history>>

\* What listRunbooks says of b.
Badge(b) == IF b \notin created \ deleted THEN "none"
            ELSE IF b \in enabled THEN "ACTIVE" ELSE "CANCELED"

\* The page loads the list when it is opened and after each of its own calls.
LoadPage(g) ==
  /\ shown' = [shown EXCEPT ![g] = [b \in Runbook |-> Badge(b)]]
  /\ UNCHANGED <<rows, executors, history>>

\* Disable or Enable: the opposite of what the page shows, whatever the row says.
Toggle(g, b) ==
  /\ shown[g][b] # "none"
  /\ UpdateRunbook(b, shown[g][b] = "CANCELED")

\* Faulty: the kill switch is not consulted.
RunnableAlways(b) == b \in created \ deleted

Runnable(b) == b \in (created \cap enabled) \ deleted

\* Faulty: one run too many.
WithinBudgetOffByOne(b, caller) ==
  IF caller = "USER" THEN runCount[b] < MaxRuns ELSE runCount[b] <= MaxRetries

\* maxRetries does not bind people; the bound MaxRuns does.
WithinBudget(b, caller) ==
  IF caller = "USER" THEN runCount[b] < MaxRuns ELSE runCount[b] < MaxRetries

\* execute up to its checks: one read of the row.
Execute(x, b, caller) ==
  /\ pc[x] = Idle
  /\ Runnable(b)
  /\ WithinBudget(b, caller)
  /\ pc'  = [pc EXCEPT ![x] = Act]
  /\ job' = [job EXCEPT ![x] = b]
  /\ by'  = [by EXCEPT ![x] = caller]
  /\ UNCHANGED <<rows, shown, history>>

\* "Run now" on the page: the button is off for a runbook that was listed as
\* disabled, stays on while the call is pending, and execute checks the row again.
RunNow(g, x, b) == shown[g][b] = "ACTIVE" /\ Execute(x, b, "USER")

\* The internal route, for the worker's queue and the AI agents.
RunInternally(x, b) == Execute(x, b, "SYSTEM")

\* The switch of execute performs the runbook's action.
Perform(x) ==
  LET b == job[x] IN
  /\ pc[x] = Act
  /\ runs' = [runs EXCEPT ![b] = @ + 1]
  /\ autoRuns' = IF by[x] = "USER" THEN autoRuns
                                   ELSE [autoRuns EXCEPT ![b] = @ + 1]
  /\ pc' = [pc EXCEPT ![x] = Count]
  /\ UNCHANGED <<rows, shown, job, by, lost>>

\* Faulty: what people run is not counted.
CountRunOfMachines(x) ==
  /\ pc[x] = Count
  /\ runCount' = IF by[x] = "USER" THEN runCount
                                   ELSE [runCount EXCEPT ![job[x]] = @ + 1]
  /\ Release(x)
  /\ UNCHANGED <<created, enabled, deleted, shown, history>>

\* The update that increments runCount; audit.log follows and changes no row of ours.
CountRun(x) ==
  /\ pc[x] = Count
  /\ runCount' = [runCount EXCEPT ![job[x]] = @ + 1]
  /\ Release(x)
  /\ UNCHANGED <<created, enabled, deleted, shown, history>>

\* A call of the execution is rejected or its process dies; a run that was
\* performed by then is never counted.
Die(x) ==
  /\ pc[x] # Idle
  /\ IF pc[x] = Count
     THEN /\ lost[job[x]] < MaxLost
          /\ lost' = [lost EXCEPT ![job[x]] = @ + 1]
     ELSE UNCHANGED lost
  /\ Release(x)
  /\ UNCHANGED <<rows, shown, runs, autoRuns>>

-----------------------------------------------------------------------------

Init ==
  /\ created  = {}
  /\ enabled  = {}
  /\ deleted  = {}
  /\ runCount = [b \in Runbook |-> 0]
  /\ shown    = [g \in Page |-> [b \in Runbook |-> "none"]]
  /\ pc       = [x \in Executor |-> Idle]
  /\ job      = [x \in Executor |-> NoRunbook]
  /\ by       = [x \in Executor |-> "USER"]
  /\ runs     = [b \in Runbook |-> 0]
  /\ autoRuns = [b \in Runbook |-> 0]
  /\ lost     = [b \in Runbook |-> 0]

ExecutionStep(x) == Perform(x) \/ CountRun(x)

Next ==
  \/ \E b \in Runbook :
       \/ SubmitForm(b)
       \/ DeleteRunbook(b)
       \/ \E g \in Page : Toggle(g, b) \/ \E x \in Executor : RunNow(g, x, b)
       \/ \E x \in Executor : RunInternally(x, b)
  \/ \E g \in Page : LoadPage(g)
  \/ \E x \in Executor : ExecutionStep(x) \/ Die(x)

Spec == Init /\ [][Next]_vars

\* An execution that passed its checks goes on: its database calls are answered
\* or rejected, and the call of a webhook times out after five seconds.
Fairness == \A x \in Executor : WF_vars(ExecutionStep(x))

FairSpec == Spec /\ Fairness

-----------------------------------------------------------------------------
(* Properties *)

TypeOK ==
  /\ created \subseteq Runbook
  /\ enabled \subseteq created
  /\ deleted \subseteq created
  /\ runCount \in [Runbook -> Nat]
  /\ shown    \in [Page -> [Runbook -> Badges]]
  /\ \A g \in Page, b \in Runbook : shown[g][b] # "none" => b \in created
  /\ pc       \in [Executor -> PC]
  /\ job      \in [Executor -> Runbook \cup {NoRunbook}]
  /\ by       \in [Executor -> Caller]
  /\ runs     \in [Runbook -> Nat]
  /\ autoRuns \in [Runbook -> Nat]
  /\ lost     \in [Runbook -> Nat]
  /\ \A x \in Executor : pc[x] # Idle => job[x] \in created

\* The executions of b that have not counted their run yet, and those of them
\* that nobody asked for and that did not perform the action yet.
Uncounted(b) == {x \in Executor : job[x] = b /\ pc[x] = Count}
Upcoming(b)  == {x \in Executor : job[x] = b /\ pc[x] = Act /\ by[x] = "SYSTEM"}
InFlight(b)  == \E x \in Executor : pc[x] # Idle /\ job[x] = b

\* The executions of b that have passed the checks and will perform its action.
Passed(b)    == {x \in Executor : job[x] = b /\ pc[x] = Act}

\* Overlapping executions lose no count: runCount falls short of the performed
\* runs by those in flight and those that died, and by nothing else.
RunsAccounted ==
  \A b \in Runbook : runs[b] = runCount[b] + Cardinality(Uncounted(b)) + lost[b]

\* "bounded automation - never infinite" (schema.prisma): without a person asking,
\* a runbook runs maxRetries times, once more for every further execution that
\* can overlap, and once more for every run that died before it was counted.
AutomationBounded ==
  \A b \in Runbook :
    autoRuns[b] + Cardinality(Upcoming(b))
      <= MaxRetries - 1 + Cardinality(Executor) + lost[b]

\* The kill switch: a runbook that is switched off comes to rest, unless it is
\* switched on again, and a deleted one comes to rest for good.
KillSwitchWorks ==
  \A b \in Runbook :
    /\ (b \in created /\ b \notin enabled) ~> (b \in enabled \/ ~InFlight(b))
    /\ b \in deleted ~> [](~InFlight(b))

\* The kill switch, step by step: while a runbook is switched off or deleted, no
\* execution passes the checks, whatever pages that are out of date still offer,
\* and every run uses up one of the executions that had passed them.
SwitchedOffWindsDown ==
  [][\A b \in Runbook : b \notin enabled \/ b \in deleted =>
       /\ Passed(b)' \subseteq Passed(b)
       /\ runs'[b] + Cardinality(Passed(b)') <= runs[b] + Cardinality(Passed(b))]_vars

\* What makes RunsAccounted and AutomationBounded inductive.
RunbooksInv ==
  /\ TypeOK
  /\ RunsAccounted
  /\ \A b \in Runbook : autoRuns[b] <= runs[b]
  /\ AutomationBounded
=============================================================================
