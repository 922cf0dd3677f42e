------------------------------- MODULE Projects -------------------------------
(***************************************************************************)
(* Delivery of a client's product (modules/projects, the GitHub webhook and *)
(* the pages AdminProducts and NewProductRequest): the request form, the    *)
(* status and its log of stages, the quote, the designs, the tasks, the     *)
(* comments and the deployments.                                            *)
(*                                                                         *)
(* A request runs one handler, one awaited database call per step, and may  *)
(* come from a page that shows old rows or from no page at all: what a page *)
(* offers guards nothing.  Approving a quote takes three writes without a   *)
(* transaction; a design, a task, a comment and a deployment are looked up  *)
(* in one call and written in the next.                                     *)
(***************************************************************************)
EXTENDS Naturals

CONSTANTS
  Product,         \* the products that can be created
  Form,            \* the open pages with the form for a new product
  Artifact,        \* the designs that can be added
  Task,            \* the tasks that can be created
  Commit,          \* the commits GitHub reports, by their first 12 characters
  Unabbreviated,   \* a deployment was recorded under another spelling
  MaxDeployments,  \* bound: deployments are 1..MaxDeployments, by deployedAt
  Request,         \* the requests ever made: each runs one handler
  None,            \* nothing
  Status,          \* the statuses of a product (ProductStatus)
  State            \* the states GitHub reports

ASSUME NoneAssumption   == None \notin Product \cup Status
ASSUME StatusAssumption == {"REQUESTED", "SCOPED"} \subseteq Status
ASSUME StateAssumption  == "none" \notin State
ASSUME DeploymentsAssumption == MaxDeployments \in Nat

VARIABLES
  status,       \* status[p]: Product.status, None without a row
  stage,        \* stage[p]: the ProductStage entered last, as a status
  deleted,      \* the products with a deletedAt
  comments,     \* comments[p]: how many comments p has
  quote,        \* quote[p]: the status of its one quote, or "none"
  design,       \* design[a]: "none", "open", "approved" or "rejected"
  task,         \* task[k]: "none" or its status
  deletedTasks, \* the tasks with a deletedAt
  dep,          \* dep[d]: the deployment's commit and status
  form,         \* form[f]: "edit", "pending" or "left"
  req,          \* req[r]: next call of the handler, what it works on, its input
  made,         \* history: the products created for form f
  lateErrors,   \* history: errors form f was shown after its product was stored
  torn,         \* history: products whose status was changed without its stage, or
                \* between the last two writes of an approval, or whose approval died
                \* there
  heard,        \* history: the state last reported for deployment d
  contested     \* history: deployments with overlapping reports or one that died

products == <<status, stage, deleted, comments, quote>>
work    == <<design, task, deletedTasks>>
rows    == <<products, work, dep>>
history == <<made, lateErrors, torn, heard, contested>>
vars    == <<rows, form, req, history>>

Deployment == 1..MaxDeployments
DesignState == {"none", "open", "approved", "rejected"}
TaskStatus  == {"TODO", "DONE"}

PC == {"idle", "done",
       "create", "announce",          \* createProduct
       "status",                      \* updateStatus
       "approve", "stage", "scope",   \* approveQuote
       "review",                      \* reviewDesign
       "comment", "task",             \* addComment, tasks.update: found, not written
       "find", "report"}              \* processGithub

-----------------------------------------------------------------------------

Exists(p) == status[p] # None

At(step, x) == {r \in Request : req[r].pc = step /\ req[r].on = x}

Begin(r, step, x, input) ==
  /\ req[r].pc = "idle"
  /\ req' = [req EXCEPT ![r] = [pc |-> step, on |-> x, input |-> input]]

\* A handler that writes in one call and reads nothing before it.
Serve(r) ==
  /\ req[r].pc = "idle"
  /\ req' = [req EXCEPT ![r].pc = "done"]

Goto(r, step) == req' = [req EXCEPT ![r].pc = step]

Finish(r) == req' = [req EXCEPT ![r] = [pc |-> "done", on |-> None, input |-> None]]

-----------------------------------------------------------------------------
(* The request for a product *)

\* NewProductRequest: the button is disabled while the request is pending.
Submit(r, f) ==
  /\ form[f] = "edit"
  /\ form' = [form EXCEPT ![f] = "pending"]
  /\ Begin(r, "create", f, None)
  /\ UNCHANGED <<rows, history>>

\* createProduct stores the product with its first stage in one call ...
CreateProduct(r, p) ==
  /\ req[r].pc = "create"
  /\ ~Exists(p)
  /\ status' = [status EXCEPT ![p] = "REQUESTED"]
  /\ stage'  = [stage EXCEPT ![p] = "REQUESTED"]
  /\ made'   = [made EXCEPT ![req[r].on] = @ + 1]
  /\ Goto(r, "announce")
  /\ UNCHANGED <<deleted, comments, quote, work, dep, form, lateErrors, torn,
                 heard, contested>>

\* ... and writes the audit log and the notification; the page navigates away.
Announce(r) ==
  /\ req[r].pc = "announce"
  /\ form' = [form EXCEPT ![req[r].on] = "left"]
  /\ Finish(r)
  /\ UNCHANGED <<rows, history>>

-----------------------------------------------------------------------------
(* Status and quote *)

\* AdminProducts sends every choice of the select at once, awaiting none.
ChooseStatus(r, p, s) ==
  /\ Exists(p)
  /\ Begin(r, "status", p, s)
  /\ UNCHANGED <<rows, form, history>>

\* Faulty: the stage is not recorded.
UpdateStatusOnly(r) ==
  /\ req[r].pc = "status"
  /\ status' = [status EXCEPT ![req[r].on] = req[r].input]
  /\ torn' = IF At("scope", req[r].on) = {} THEN torn \ {req[r].on}
                                            ELSE torn \cup {req[r].on}
  /\ Finish(r)
  /\ UNCHANGED <<stage, deleted, comments, quote, work, dep, form, made,
                 lateErrors, heard, contested>>

\* updateStatus: the status and its stage in one nested write, by id.
UpdateStatus(r) ==
  /\ req[r].pc = "status"
  /\ status' = [status EXCEPT ![req[r].on] = req[r].input]
  /\ stage'  = [stage EXCEPT ![req[r].on] = req[r].input]
  /\ torn' = IF At("scope", req[r].on) = {} THEN torn \ {req[r].on}
                                            ELSE torn \cup {req[r].on}
  /\ Finish(r)
  /\ UNCHANGED <<deleted, comments, quote, work, dep, form, made, lateErrors,
                 heard, contested>>

\* updateProduct writes whatever columns the request names, the status and deletedAt
\* included: the route's body is cast to the declared ones.  No stage is recorded.
UpdateProduct(r, p) ==
  /\ Serve(r)
  /\ Exists(p)
  /\ \E s \in Status : status' = [status EXCEPT ![p] = s]
  /\ deleted' \in {deleted \cup {p}, deleted \ {p}}
  /\ torn' = IF status'[p] = status[p] THEN torn ELSE torn \cup {p}
  /\ UNCHANGED <<stage, comments, quote, work, dep, form, made, lateErrors, heard,
                 contested>>

SoftDelete(r, p) ==
  /\ Serve(r)
  /\ Exists(p)
  /\ deleted' = deleted \cup {p}
  /\ UNCHANGED <<status, stage, comments, quote, work, dep, form, history>>

\* createQuote: Quote.productId is unique, a second quote is refused.
CreateQuote(r, p) ==
  /\ Serve(r)
  /\ Exists(p)
  /\ quote[p] = "none"
  /\ quote' = [quote EXCEPT ![p] = "sent"]
  /\ UNCHANGED <<status, stage, deleted, comments, work, dep, form, history>>

\* approveQuote finds the quote, whatever its status ...
BeginApproval(r, p) ==
  /\ quote[p] # "none"
  /\ Begin(r, "approve", p, None)
  /\ UNCHANGED <<rows, form, history>>

\* ... marks it, ...
ApproveQuote(r) ==
  /\ req[r].pc = "approve"
  /\ quote' = [quote EXCEPT ![req[r].on] = "approved"]
  /\ Goto(r, "stage")
  /\ UNCHANGED <<status, stage, deleted, comments, work, dep, form, history>>

\* ... enters the stage ...
EnterScoped(r) ==
  /\ req[r].pc = "stage"
  /\ stage' = [stage EXCEPT ![req[r].on] = "SCOPED"]
  /\ Goto(r, "scope")
  /\ UNCHANGED <<status, deleted, comments, quote, work, dep, form, history>>

\* ... and sets the status.
SetScoped(r) ==
  /\ req[r].pc = "scope"
  /\ status' = [status EXCEPT ![req[r].on] = "SCOPED"]
  /\ Finish(r)
  /\ UNCHANGED <<stage, deleted, comments, quote, work, dep, form, history>>

-----------------------------------------------------------------------------
(* Designs, tasks and comments *)

AddDesign(r, a) ==
  /\ Serve(r)
  /\ design[a] = "none"
  /\ design' = [design EXCEPT ![a] = "open"]
  /\ UNCHANGED <<products, task, deletedTasks, dep, form, history>>

\* reviewDesign finds the design, whatever its state - the page offers the two buttons
\* for a design without a verdict, the route asks for none ...
BeginReview(r, a, verdict) ==
  /\ design[a] # "none"
  /\ Begin(r, "review", a, verdict)
  /\ UNCHANGED <<rows, form, history>>

\* ... and writes the verdict by id.
ReviewDesign(r) ==
  /\ req[r].pc = "review"
  /\ design' = [design EXCEPT ![req[r].on] = req[r].input]
  /\ Finish(r)
  /\ UNCHANGED <<products, task, deletedTasks, dep, form, history>>

\* addComment finds a product that is not deleted, then stores the comment.
FindForComment(r, p) ==
  /\ Exists(p) /\ p \notin deleted
  /\ Begin(r, "comment", p, None)
  /\ UNCHANGED <<rows, form, history>>

StoreComment(r) ==
  /\ req[r].pc = "comment"
  /\ comments' = [comments EXCEPT ![req[r].on] = @ + 1]
  /\ Finish(r)
  /\ UNCHANGED <<status, stage, deleted, quote, work, dep, form, history>>

CreateTask(r, k) ==
  /\ Serve(r)
  /\ task[k] = "none"
  /\ task' = [task EXCEPT ![k] = "TODO"]
  /\ UNCHANGED <<products, design, deletedTasks, dep, form, history>>

DeleteTask(r, k) ==
  /\ Serve(r)
  /\ task[k] # "none"
  /\ deletedTasks' = deletedTasks \cup {k}
  /\ UNCHANGED <<products, design, task, dep, form, history>>

\* Faulty: a deleted task is found.
FindAnyTask(r, k, s) ==
  /\ task[k] # "none"
  /\ Begin(r, "task", k, s)
  /\ UNCHANGED <<rows, form, history>>

\* TasksService.update finds a task that is not deleted, then writes it by id.
FindTask(r, k, s) ==
  /\ task[k] # "none" /\ k \notin deletedTasks
  /\ Begin(r, "task", k, s)
  /\ UNCHANGED <<rows, form, history>>

UpdateTask(r) ==
  /\ req[r].pc = "task"
  /\ task' = [task EXCEPT ![req[r].on] = req[r].input]
  /\ Finish(r)
  /\ UNCHANGED <<products, design, deletedTasks, dep, form, history>>

-----------------------------------------------------------------------------
(* Deployments *)

Recorded(d) == dep[d].status # "none"

\* recordDeployment, under whatever spelling of the commit it was given.
RecordDeployment(r, d, c) ==
  /\ Serve(r)
  /\ ~Recorded(d)
  /\ \A e \in Deployment : e < d => Recorded(e)
  /\ dep' = [dep EXCEPT ![d] = [commit |-> c, status |-> "pending"]]
  /\ UNCHANGED <<products, work, form, history>>

\* processGithub: the event is stored, a duplicate is processed all the same.
ReceivePush(r, c, s) ==
  /\ Begin(r, "find", c, s)
  /\ UNCHANGED <<rows, form, history>>

\* findFirst, orderBy deployedAt desc.
Newest(c, d) ==
  /\ Recorded(d) /\ dep[d].commit = c
  /\ \A e \in Deployment : Recorded(e) /\ dep[e].commit = c => e <= d

FindDeployment(r, d) ==
  /\ req[r].pc = "find"
  /\ Newest(req[r].on, d)
  /\ heard' = [heard EXCEPT ![d] = req[r].input]
  /\ contested' = IF At("report", d) = {} THEN contested ELSE contested \cup {d}
  /\ req' = [req EXCEPT ![r] = [pc |-> "report", on |-> d, input |-> @.input]]
  /\ UNCHANGED <<rows, form, made, lateErrors, torn>>

\* The commit was not deployed, or is recorded under another spelling.
FindsNoDeployment(r) ==
  /\ req[r].pc = "find"
  /\ \A d \in Deployment : ~Newest(req[r].on, d)
  /\ Finish(r)
  /\ UNCHANGED <<rows, form, history>>

\* Faulty: an updateMany over the deployments of the commit.
ReportToAll(r) ==
  /\ req[r].pc = "report"
  /\ dep' = [d \in Deployment |->
               IF Recorded(d) /\ dep[d].commit = dep[req[r].on].commit
               THEN [dep[d] EXCEPT !.status = req[r].input] ELSE dep[d]]
  /\ Finish(r)
  /\ UNCHANGED <<products, work, form, history>>

Report(r) ==
  /\ req[r].pc = "report"
  /\ dep' = [dep EXCEPT ![req[r].on] = [commit |-> @.commit, status |-> req[r].input]]
  /\ Finish(r)
  /\ UNCHANGED <<products, work, form, history>>

\* Faulty: a form that was shown an error is closed like one that succeeded.
ErrorShownLeaving(r) ==
  form' = IF req[r].pc \in {"create", "announce"}
          THEN [form EXCEPT ![req[r].on] = "left"] ELSE form

\* NewProductRequest shows the error and lets the user submit again.
ErrorShown(r) ==
  form' = IF req[r].pc \in {"create", "announce"}
          THEN [form EXCEPT ![req[r].on] = "edit"] ELSE form

\* A call of the handler is rejected or its process dies.
Fail(r) ==
  LET x == req[r].on IN
  /\ req[r].pc \notin {"idle", "done"}
  /\ ErrorShown(r)
  /\ lateErrors' = IF req[r].pc = "announce" THEN [lateErrors EXCEPT ![x] = @ + 1]
                                             ELSE lateErrors
  /\ torn'       = IF req[r].pc = "scope" THEN torn \cup {x} ELSE torn
  /\ contested'  = IF req[r].pc = "report" THEN contested \cup {x} ELSE contested
  /\ Finish(r)
  /\ UNCHANGED <<rows, made, heard>>

-----------------------------------------------------------------------------

Init ==
  /\ status   = [p \in Product |-> None]
  /\ stage    = [p \in Product |-> None]
  /\ deleted  = {}
  /\ comments = [p \in Product |-> 0]
  /\ quote    = [p \in Product |-> "none"]
  /\ design   = [a \in Artifact |-> "none"]
  /\ task     = [k \in Task |-> "none"]
  /\ deletedTasks = {}
  /\ dep      = [d \in Deployment |-> [commit |-> Unabbreviated, status |-> "none"]]
  /\ form     = [f \in Form |-> "edit"]
  /\ req      = [r \in Request |-> [pc |-> "idle", on |-> None, input |-> None]]
  /\ made       = [f \in Form |-> 0]
  /\ lateErrors = [f \in Form |-> 0]
  /\ torn       = {}
  /\ heard      = [d \in Deployment |-> "pending"]
  /\ contested  = {}

\* The calls of one handler that need nothing else.
HandlerStep(r) ==
  \/ Announce(r) \/ UpdateStatus(r) \/ ApproveQuote(r) \/ EnterScoped(r)
  \/ SetScoped(r) \/ ReviewDesign(r) \/ StoreComment(r) \/ UpdateTask(r)
  \/ FindsNoDeployment(r) \/ Report(r)

DirectWrite(r) ==
  \/ \E p \in Product : UpdateProduct(r, p) \/ SoftDelete(r, p) \/ CreateQuote(r, p)
  \/ \E a \in Artifact : AddDesign(r, a)
  \/ \E k \in Task : CreateTask(r, k) \/ DeleteTask(r, k)
  \/ \E d \in Deployment, c \in Commit \cup {Unabbreviated} : RecordDeployment(r, d, c)

NewRequest(r) ==
  \/ \E f \in Form : Submit(r, f)
  \/ \E p \in Product : BeginApproval(r, p) \/ FindForComment(r, p)
  \/ \E p \in Product, s \in Status : ChooseStatus(r, p, s)
  \/ \E a \in Artifact, v \in {"approved", "rejected"} : BeginReview(r, a, v)
  \/ \E k \in Task, s \in TaskStatus : FindTask(r, k, s)
  \/ \E c \in Commit, s \in State : ReceivePush(r, c, s)

Next ==
  \E r \in Request :
    \/ NewRequest(r) \/ DirectWrite(r) \/ HandlerStep(r) \/ Fail(r)
    \/ \E p \in Product : CreateProduct(r, p)
    \/ \E d \in Deployment : FindDeployment(r, d)

Spec == Init /\ [][Next]_vars

-----------------------------------------------------------------------------
(* Properties *)

Holds(r, step, things, inputs) ==
  req[r].pc = step => req[r].on \in things /\ req[r].input \in inputs

Thing == Product \cup Form \cup Artifact \cup Task \cup Commit \cup Deployment \cup {None}
Input == Status \cup State \cup TaskStatus \cup DesignState \cup {None}

RowTypes ==
  /\ status \in [Product -> Status \cup {None}]
  /\ stage  \in [Product -> Status \cup {None}]
  /\ deleted \subseteq {p \in Product : Exists(p)}
  /\ comments \in [Product -> Nat]
  /\ quote  \in [Product -> {"none", "sent", "approved"}]
  /\ design \in [Artifact -> DesignState]
  /\ task   \in [Task -> TaskStatus \cup {"none"}]
  /\ deletedTasks \subseteq {k \in Task : task[k] # "none"}
  /\ dep    \in [Deployment -> [commit : Commit \cup {Unabbreviated},
                                status : State \cup {"none", "pending"}]]
  /\ form   \in [Form -> {"edit", "pending", "left"}]
  /\ made \in [Form -> Nat] /\ lateErrors \in [Form -> Nat]
  /\ torn \subseteq Product /\ contested \subseteq Deployment
  /\ heard  \in [Deployment -> State \cup {"pending"}]

HandlerTypes == req \in [Request -> [pc : PC, on : Thing, input : Input]]

\* What a request is at work on exists.
RequestTypes ==
  \A r \in Request :
    /\ Holds(r, "create", Form, {None}) /\ Holds(r, "announce", Form, {None})
    /\ Holds(r, "status", {p \in Product : Exists(p)}, Status)
    /\ \A step \in {"approve", "stage", "scope"} :
         Holds(r, step, {p \in Product : quote[p] # "none"}, {None})
    /\ Holds(r, "review", {a \in Artifact : design[a] # "none"}, {"approved", "rejected"})
    /\ Holds(r, "comment", {p \in Product : Exists(p)}, {None})
    /\ Holds(r, "task", {k \in Task : task[k] # "none"}, TaskStatus)
    /\ Holds(r, "find", Commit, State)
    /\ Holds(r, "report", {d \in Deployment : Recorded(d)}, State)

TypeOK == RowTypes /\ HandlerTypes /\ RequestTypes

\* The log of stages tells the status: the last stage entered is the product's
\* status, except while an approval is between its last two writes, and where one died
\* there, was overtaken there by staff, or a PATCH of the product named its status -
\* until staff set the status again.
StagesTellTheStatus ==
  \A p \in Product : status[p] = stage[p] \/ At("scope", p) # {} \/ p \in torn

\* One submission makes one product: beyond the product a form was told of, or is
\* about to be, it made exactly one for each error it was shown too late.
FormsAccounted ==
  \A f \in Form :
    made[f] = lateErrors[f] + IF form[f] = "left" \/ At("announce", f) # {} THEN 1 ELSE 0

\* A deployment shows the state reported last while it was the newest of its
\* commit ("pending" before), unless reports of it overlapped or died.
DeploymentFollowsReports ==
  \A d \in Deployment :
    Recorded(d) /\ d \notin contested /\ At("report", d) = {} => dep[d].status = heard[d]

\* A deleted task, the comments of a deleted product - until its deletion is taken back
\* - and a deployment followed by another of its commit are final as soon as no request
\* that found them before is in flight.
DeletedTask(k) == k \in deletedTasks /\ At("task", k) = {}
DeletedProduct(p) == p \in deleted /\ At("comment", p) = {}
Superseded(d) ==
  /\ Recorded(d) /\ At("report", d) = {}
  /\ \E e \in Deployment : e > d /\ Recorded(e) /\ dep[e].commit = dep[d].commit

SettledRowsRest ==
  [][/\ \A k \in Task : DeletedTask(k) => DeletedTask(k)' /\ task'[k] = task[k]
     /\ \A p \in Product : DeletedProduct(p) =>
          (p \in deleted' => DeletedProduct(p)') /\ comments'[p] = comments[p]
     /\ \A d \in Deployment : Superseded(d) => Superseded(d)' /\ dep'[d] = dep[d]]_vars

-----------------------------------------------------------------------------
(* What makes them inductive *)

\* An approval that was not overtaken has entered its stage; there is a quote
\* only for a product.
ScopeInv ==
  \A p \in Product :
    /\ At("scope", p) # {} /\ p \notin torn => stage[p] = "SCOPED"
    /\ quote[p] # "none" => Exists(p)

\* A form waits for each of its requests, and has one at a time.
FormsInv ==
  \A r \in Request : req[r].pc \in {"create", "announce"} =>
    /\ form[req[r].on] = "pending"
    /\ \A s \in Request \ {r} :
         req[s].pc \in {"create", "announce"} => req[s].on # req[r].on

\* A report at work on an uncontested deployment is its only one and its last.
ReportInv ==
  \A d \in Deployment :
    /\ ~Recorded(d) => heard[d] = "pending"
    /\ \A r \in At("report", d) : d \notin contested =>
         At("report", d) = {r} /\ req[r].input = heard[d]

ProjectsInv ==
  /\ TypeOK /\ ScopeInv /\ StagesTellTheStatus
  /\ FormsInv /\ FormsAccounted /\ ReportInv /\ DeploymentFollowsReports
=============================================================================
