--------------------------------- MODULE Seed ---------------------------------
(***************************************************************************)
(* The script that loads the demo data (prisma/seed.ts), run as often as    *)
(* anybody likes, by several replicas at once, and cut short anywhere,      *)
(* beside the requests of Accounts: one of its accounts has an e-mail that  *)
(* may have signed up before.                                               *)
(*                                                                         *)
(* Some rows are upserted by a key, some by an id that no row ever has,     *)
(* some are added, some are looked for first, and the metrics are replaced. *)
(***************************************************************************)
EXTENDS Accounts

CONSTANTS
  Run,       \* the runs of the script
  DemoEmail  \* the e-mail of the seeded account

ASSUME SeedAssumption == DemoEmail \in Email

VARIABLES
  demo,    \* demo[k]: the rows of kind k
  run,     \* run[s]: the step run s is at
  started, \* history: the runs that were started
  cut,     \* history: the steps at which a run was cut short
  shared   \* history: two runs were at work at the same time

seedVars == <<demo, run, started, cut, shared>>

Upserted == {"organisation", "catalog", "product"}          \* by a unique key
Added    == {"plan", "task", "subscription"}                \* one more each time
LookedUp == {"runbook", "ticket", "invoice"}                \* unless there is one
Kind     == Upserted \cup Added \cup LookedUp \cup {"message", "metrics"}

\* The steps of a run, in their order.
RunStep == {"idle", "organisation", "account", "member", "catalog", "plan", "product", "task",
            "subscription", "findRunbook", "runbook", "clearMetrics", "metrics",
            "findTicket", "ticket", "message", "findInvoice", "invoice", "done", "dead"}

\* What follows a row that is looked for first.
After(k) == CASE k = "runbook" -> "clearMetrics" [] k = "ticket" -> "message"
              [] k = "invoice" -> "done"

At(s, step) == run[s] = step

Goes(s, step) == run' = [run EXCEPT ![s] = step]

Working == {s \in Run : run[s] \notin {"idle", "done", "dead"}}

Stores(s, k, n, next) == demo' = [demo EXCEPT ![k] = n] /\ Goes(s, next)

-----------------------------------------------------------------------------

StartSeed(s) ==
  /\ "seed" \in load
  /\ At(s, "idle") /\ Goes(s, "organisation")
  /\ started' = started \cup {s}
  /\ shared'  = (shared \/ Working # {})
  /\ UNCHANGED <<vars, demo, cut>>

\* Upserts by slug.
SeedOrganisation(s) ==
  /\ At(s, "organisation") /\ Stores(s, "organisation", 1, "account")
  /\ UNCHANGED <<vars, started, cut, shared>>

SeedCatalog(s) ==
  /\ At(s, "catalog") /\ Stores(s, "catalog", 1, "plan")
  /\ UNCHANGED <<vars, started, cut, shared>>

\* Faulty: stored whether there is one or not.
SeedProductAgain(s) ==
  /\ At(s, "product") /\ Stores(s, "product", demo["product"] + 1, "task")
  /\ UNCHANGED <<vars, started, cut, shared>>

SeedProduct(s) ==
  /\ At(s, "product") /\ Stores(s, "product", 1, "task")
  /\ UNCHANGED <<vars, started, cut, shared>>

\* Upserts by e-mail and by membership; an account that signed up is left as it is.
SeedAccount(s) ==
  /\ At(s, "account") /\ Goes(s, "member")
  /\ account' = IF account[DemoEmail] = "none"
                THEN [account EXCEPT ![DemoEmail] = "seeded"] ELSE account
  /\ UNCHANGED <<load, linked, founder, joined, factor, req, history, demo, started, cut, shared>>

SeedMembership(s) ==
  /\ At(s, "member") /\ Goes(s, "catalog")
  /\ IF Belongs(DemoEmail, House) THEN UNCHANGED <<joined, overtaken>>
                                  ELSE GiveMembership(DemoEmail, House)
  /\ UNCHANGED <<load, account, linked, founder, factor, req, broken, demo, started, cut, shared>>

\* The upsert looks for an id that is the service line, and the row gets another.
SeedPlans(s) ==
  /\ At(s, "plan") /\ Stores(s, "plan", demo["plan"] + 1, "product")
  /\ UNCHANGED <<vars, started, cut, shared>>

\* createMany with skipDuplicates, but a task has no key to be a duplicate by.
SeedTasks(s) ==
  /\ At(s, "task") /\ Stores(s, "task", demo["task"] + 1, "subscription")
  /\ UNCHANGED <<vars, started, cut, shared>>

\* As SeedPlans; a rejection is swallowed.
SeedSubscription(s) ==
  /\ At(s, "subscription")
  /\ \E n \in {0, 1} : Stores(s, "subscription", demo["subscription"] + n, "findRunbook")
  /\ UNCHANGED <<vars, started, cut, shared>>

\* findFirst of a runbook, count of the tickets and of the invoices.
Missing(s, k) == demo[k] = 0

LookFor(s, k) ==
  /\ At(s, CASE k = "runbook" -> "findRunbook" [] k = "ticket" -> "findTicket"
             [] k = "invoice" -> "findInvoice")
  /\ Goes(s, IF Missing(s, k) THEN k
             ELSE IF k = "ticket" THEN "findInvoice" ELSE After(k))
  /\ UNCHANGED <<vars, demo, started, cut, shared>>

\* The invoice has a fixed, unique number; the other rows have none.
SeedMissing(s, k) ==
  /\ At(s, k)
  /\ k = "invoice" => demo[k] = 0
  /\ Stores(s, k, demo[k] + 1, After(k))
  /\ UNCHANGED <<vars, started, cut, shared>>

SeedMessage(s) ==
  /\ At(s, "message") /\ Stores(s, "message", demo["message"] + 1, "findInvoice")
  /\ UNCHANGED <<vars, started, cut, shared>>

\* deleteMany, then createMany.
ClearMetrics(s) ==
  /\ At(s, "clearMetrics") /\ Stores(s, "metrics", 0, "metrics")
  /\ UNCHANGED <<vars, started, cut, shared>>

SeedMetrics(s) ==
  /\ At(s, "metrics") /\ Stores(s, "metrics", demo["metrics"] + 1, "findTicket")
  /\ UNCHANGED <<vars, started, cut, shared>>

\* A call is rejected, or the process is stopped.
CutShort(s) ==
  /\ s \in Working
  /\ cut' = cut \cup {run[s]}
  /\ Goes(s, "dead")
  /\ UNCHANGED <<vars, demo, started, shared>>

-----------------------------------------------------------------------------

SeedInit ==
  /\ Init
  /\ demo = [k \in Kind |-> 0]
  /\ run = [s \in Run |-> "idle"]
  /\ started = {} /\ cut = {} /\ shared = FALSE

SeedStep(s) ==
  \/ StartSeed(s) \/ SeedOrganisation(s) \/ SeedAccount(s) \/ SeedMembership(s)
  \/ SeedCatalog(s) \/ SeedPlans(s) \/ SeedProduct(s) \/ SeedTasks(s) \/ SeedSubscription(s)
  \/ \E k \in LookedUp : LookFor(s, k) \/ SeedMissing(s, k)
  \/ SeedMessage(s) \/ ClearMetrics(s) \/ SeedMetrics(s) \/ CutShort(s)

SeedNext ==
  \/ Next /\ UNCHANGED seedVars
  \/ \E s \in Run : SeedStep(s)

SeedSpec == SeedInit /\ [][SeedNext]_<<vars, seedVars>>

-----------------------------------------------------------------------------
(* Properties *)

\* Types of Accounts and of the script's tables.
TypeOK ==
  /\ AccountsTypeOK
  /\ demo \in [Kind -> Nat]
  /\ run \in [Run -> RunStep]
  /\ started \subseteq Run /\ shared \in BOOLEAN

\* A run at work, or one that was cut short, has not stored what it was about to.
Pending(step) == step \in cut \/ \E s \in Run : At(s, step)

\* backend-core/README.md:33 calls the data idempotent.  A run that ended leaves a row
\* of every kind - but for a swallowed rejection, and for what another run had cleared
\* or was about to add; rows with a key stay single under any overlap, rows that are
\* looked for first unless two runs overlapped, and those added without a key are as
\* many as the runs that were started, at most.
DemoDataIsWhole ==
  /\ (\E s \in Run : At(s, "done")) =>
       \A k \in Kind \ {"subscription"} : demo[k] > 0 \/ (k \in {"message", "metrics"} /\ Pending(k))
  /\ \A k \in Upserted \cup {"invoice"} : demo[k] <= 1
  /\ ~shared => \A k \in LookedUp \cup {"message", "metrics"} : demo[k] <= 1
  /\ \A k \in Added : demo[k] <= Cardinality(started)

-----------------------------------------------------------------------------
(* The inductive invariant *)

\* The order of the steps; a row is stored by the step of its kind.
Place(step) ==
  CASE step = "idle" -> 0 [] step = "organisation" -> 1 [] step = "account" -> 2
    [] step = "member" -> 3 [] step = "catalog" -> 4 [] step = "plan" -> 5
    [] step = "product" -> 6 [] step = "task" -> 7 [] step = "subscription" -> 8
    [] step = "findRunbook" -> 9 [] step = "runbook" -> 10 [] step = "clearMetrics" -> 11
    [] step = "metrics" -> 12 [] step = "findTicket" -> 13 [] step = "ticket" -> 14
    [] step = "message" -> 15 [] step = "findInvoice" -> 16 [] step = "invoice" -> 17
    [] step = "done" -> 18

Beyond(s, k) == run[s] # "dead" /\ Place(run[s]) > Place(k)

\* A run gives the account its membership after it has stored it.
SeededInv == \A s \in Run : At(s, "member") => account[DemoEmail] # "none"

\* What a run has left behind is there, or somebody is about to put it back.
LeftBehind ==
  /\ \A s \in Run, k \in Kind \ {"subscription", "message", "metrics"} :
       Beyond(s, k) => demo[k] > 0
  /\ \A s \in Run : Beyond(s, "metrics") => demo["metrics"] > 0 \/ Pending("metrics")
  /\ demo["ticket"] > 0 => demo["message"] > 0 \/ Pending("message")

\* Runs that were never at work together look for what is there, and store what is not.
OneByOne ==
  ~shared =>
    /\ \A s, q \in Working : s = q
    /\ \A k \in LookedUp \cup {"message", "metrics"} :
         demo[k] <= 1 /\ \A s \in Run : At(s, k) => demo[k] = 0
    /\ demo["ticket"] = 0 => demo["message"] = 0

\* A row without a key was added by a run that is beyond that step, or that is dead.
Adders(k) == {s \in started : run[s] = "dead" \/ Beyond(s, k)}

AddedOnce ==
  /\ IsFiniteSet(started) /\ \A s \in Run : run[s] # "idle" => s \in started
  /\ \A k \in Added : demo[k] <= Cardinality(Adders(k))

DemoInv == LeftBehind /\ OneByOne /\ AddedOnce /\ \A k \in Upserted \cup {"invoice"} : demo[k] <= 1

SeedInv == TypeOK /\ AccountsInv /\ SeededInv /\ DemoInv
=============================================================================
