---------------------------- MODULE ProjectsProofs ----------------------------
(***************************************************************************)
(* Proofs about Projects: the inductive invariant ProjectsInv and what      *)
(* follows from it.  One lemma per conjunct; one step per action.           *)
(***************************************************************************)
EXTENDS Projects, TLAPS

\* The handlers' locals keep their types.
LEMMA HandlerTypesStep == ASSUME ProjectsInv, [Next]_vars PROVE HandlerTypes'
<1> USE NoneAssumption, StatusAssumption, StateAssumption
        DEF PC, Deployment, DesignState, TaskStatus, products, work, rows,
            history, Exists, Recorded, HandlerTypes, RequestTypes, Holds
<1>a. RowTypes /\ HandlerTypes /\ RequestTypes
  BY DEF ProjectsInv, TypeOK
<1>1. ASSUME NEW r \in Request, NEW p \in Product, UpdateProduct(r, p) PROVE HandlerTypes'
  BY <1>a, <1>1 DEF UpdateProduct, Serve
<1>2. ASSUME NEW r \in Request, NEW f \in Form, Submit(r, f) PROVE HandlerTypes'
  BY <1>a, <1>2 DEF Submit, Begin, Thing, Input
<1>3. ASSUME NEW r \in Request, NEW p \in Product, CreateProduct(r, p) PROVE HandlerTypes'
  BY <1>a, <1>3 DEF CreateProduct, Goto
<1>4. ASSUME NEW r \in Request, Announce(r) PROVE HandlerTypes'
  BY <1>a, <1>4 DEF Announce, Finish, Thing, Input
<1>5. ASSUME NEW r \in Request, NEW p \in Product, NEW s \in Status, ChooseStatus(r, p, s) PROVE HandlerTypes'
  BY <1>a, <1>5 DEF ChooseStatus, Begin, Thing, Input
<1>6. ASSUME NEW r \in Request, UpdateStatus(r) PROVE HandlerTypes'
  BY <1>a, <1>6 DEF UpdateStatus, Finish, Thing, Input
<1>7. ASSUME NEW r \in Request, NEW p \in Product, SoftDelete(r, p) PROVE HandlerTypes'
  BY <1>a, <1>7 DEF SoftDelete, Serve
<1>8. ASSUME NEW r \in Request, NEW p \in Product, CreateQuote(r, p) PROVE HandlerTypes'
  BY <1>a, <1>8 DEF CreateQuote, Serve
<1>9. ASSUME NEW r \in Request, NEW p \in Product, BeginApproval(r, p) PROVE HandlerTypes'
  BY <1>a, <1>9 DEF BeginApproval, Begin, Thing, Input
<1>10. ASSUME NEW r \in Request, ApproveQuote(r) PROVE HandlerTypes'
  BY <1>a, <1>10 DEF ApproveQuote, Goto
<1>11. ASSUME NEW r \in Request, EnterScoped(r) PROVE HandlerTypes'
  BY <1>a, <1>11 DEF EnterScoped, Goto
<1>12. ASSUME NEW r \in Request, SetScoped(r) PROVE HandlerTypes'
  BY <1>a, <1>12 DEF SetScoped, Finish, Thing, Input
<1>13. ASSUME NEW r \in Request, NEW a \in Artifact, AddDesign(r, a) PROVE HandlerTypes'
  BY <1>a, <1>13 DEF AddDesign, Serve
<1>14. ASSUME NEW r \in Request, NEW a \in Artifact, NEW v \in {"approved", "rejected"},
             BeginReview(r, a, v) PROVE HandlerTypes'
  BY <1>a, <1>14 DEF BeginReview, Begin, Thing, Input
<1>15. ASSUME NEW r \in Request, ReviewDesign(r) PROVE HandlerTypes'
  BY <1>a, <1>15 DEF ReviewDesign, Finish, Thing, Input
<1>16. ASSUME NEW r \in Request, NEW p \in Product, FindForComment(r, p) PROVE HandlerTypes'
  BY <1>a, <1>16 DEF FindForComment, Begin, Thing, Input
<1>17. ASSUME NEW r \in Request, StoreComment(r) PROVE HandlerTypes'
  BY <1>a, <1>17 DEF StoreComment, Finish, Thing, Input
<1>18. ASSUME NEW r \in Request, NEW k \in Task, CreateTask(r, k) PROVE HandlerTypes'
  BY <1>a, <1>18 DEF CreateTask, Serve
<1>19. ASSUME NEW r \in Request, NEW k \in Task, DeleteTask(r, k) PROVE HandlerTypes'
  BY <1>a, <1>19 DEF DeleteTask, Serve
<1>20. ASSUME NEW r \in Request, NEW k \in Task, NEW s \in TaskStatus, FindTask(r, k, s) PROVE HandlerTypes'
  BY <1>a, <1>20 DEF FindTask, Begin, Thing, Input
<1>21. ASSUME NEW r \in Request, UpdateTask(r) PROVE HandlerTypes'
  BY <1>a, <1>21 DEF UpdateTask, Finish, Thing, Input
<1>22. ASSUME NEW r \in Request, NEW d \in Deployment,
             NEW c \in Commit \cup {Unabbreviated}, RecordDeployment(r, d, c) PROVE HandlerTypes'
  BY <1>a, <1>22 DEF RecordDeployment, Serve
<1>23. ASSUME NEW r \in Request, NEW c \in Commit, NEW s \in State, ReceivePush(r, c, s) PROVE HandlerTypes'
  BY <1>a, <1>23 DEF ReceivePush, Begin, Thing, Input
<1>24. ASSUME NEW r \in Request, NEW d \in Deployment, FindDeployment(r, d) PROVE HandlerTypes'
  <2>1. d \in Thing
    BY DEF Thing
  <2>2. req' = [req EXCEPT ![r] = [pc |-> "report", on |-> d, input |-> req[r].input]]
    BY <1>a, <1>24 DEF FindDeployment
  <2>3. QED
    BY <1>a, <2>1, <2>2
<1>25. ASSUME NEW r \in Request, FindsNoDeployment(r) PROVE HandlerTypes'
  BY <1>a, <1>25 DEF FindsNoDeployment, Finish, Thing, Input
<1>26. ASSUME NEW r \in Request, Report(r) PROVE HandlerTypes'
  BY <1>a, <1>26 DEF Report, Finish, Thing, Input
<1>27. ASSUME NEW r \in Request, Fail(r) PROVE HandlerTypes'
  BY <1>a, <1>27 DEF Fail, ErrorShown, Finish, Thing, Input
<1>28. CASE UNCHANGED vars
  BY <1>a, <1>28 DEF vars
<1>29. QED
  BY <1>1, <1>2, <1>3, <1>4, <1>5, <1>6, <1>7, <1>8, <1>9, <1>10, <1>11, <1>12, <1>13, <1>14, <1>15, <1>16, <1>17, <1>18, <1>19, <1>20, <1>21, <1>22, <1>23, <1>24, <1>25, <1>26, <1>27, <1>28
  DEF Next, NewRequest, DirectWrite, HandlerStep

\* The tables keep their types.
LEMMA RowTypesStep == ASSUME ProjectsInv, [Next]_vars PROVE RowTypes'
<1> USE NoneAssumption, StatusAssumption, StateAssumption
        DEF PC, Deployment, DesignState, TaskStatus, products, work, rows,
            history, Exists, Recorded, RowTypes, RequestTypes, Holds
<1>a. RowTypes /\ HandlerTypes /\ RequestTypes
  BY DEF ProjectsInv, TypeOK
<1>1. ASSUME NEW r \in Request, NEW p \in Product, UpdateProduct(r, p) PROVE RowTypes'
  BY <1>a, <1>1 DEF UpdateProduct, Serve
<1>2. ASSUME NEW r \in Request, NEW f \in Form, Submit(r, f) PROVE RowTypes'
  BY <1>a, <1>2 DEF Submit, Begin
<1>3. ASSUME NEW r \in Request, NEW p \in Product, CreateProduct(r, p) PROVE RowTypes'
  BY <1>a, <1>3 DEF CreateProduct, Goto
<1>4. ASSUME NEW r \in Request, Announce(r) PROVE RowTypes'
  BY <1>a, <1>4 DEF Announce, Finish
<1>5. ASSUME NEW r \in Request, NEW p \in Product, NEW s \in Status, ChooseStatus(r, p, s) PROVE RowTypes'
  BY <1>a, <1>5 DEF ChooseStatus, Begin
<1>6. ASSUME NEW r \in Request, UpdateStatus(r) PROVE RowTypes'
  BY <1>a, <1>6 DEF UpdateStatus, Finish
<1>7. ASSUME NEW r \in Request, NEW p \in Product, SoftDelete(r, p) PROVE RowTypes'
  BY <1>a, <1>7 DEF SoftDelete, Serve
<1>8. ASSUME NEW r \in Request, NEW p \in Product, CreateQuote(r, p) PROVE RowTypes'
  BY <1>a, <1>8 DEF CreateQuote, Serve
<1>9. ASSUME NEW r \in Request, NEW p \in Product, BeginApproval(r, p) PROVE RowTypes'
  BY <1>a, <1>9 DEF BeginApproval, Begin
<1>10. ASSUME NEW r \in Request, ApproveQuote(r) PROVE RowTypes'
  BY <1>a, <1>10 DEF ApproveQuote, Goto
<1>11. ASSUME NEW r \in Request, EnterScoped(r) PROVE RowTypes'
  BY <1>a, <1>11 DEF EnterScoped, Goto
<1>12. ASSUME NEW r \in Request, SetScoped(r) PROVE RowTypes'
  BY <1>a, <1>12 DEF SetScoped, Finish
<1>13. ASSUME NEW r \in Request, NEW a \in Artifact, AddDesign(r, a) PROVE RowTypes'
  BY <1>a, <1>13 DEF AddDesign, Serve
<1>14. ASSUME NEW r \in Request, NEW a \in Artifact, NEW v \in {"approved", "rejected"},
             BeginReview(r, a, v) PROVE RowTypes'
  BY <1>a, <1>14 DEF BeginReview, Begin
<1>15. ASSUME NEW r \in Request, ReviewDesign(r) PROVE RowTypes'
  BY <1>a, <1>15 DEF ReviewDesign, Finish
<1>16. ASSUME NEW r \in Request, NEW p \in Product, FindForComment(r, p) PROVE RowTypes'
  BY <1>a, <1>16 DEF FindForComment, Begin
<1>17. ASSUME NEW r \in Request, StoreComment(r) PROVE RowTypes'
  BY <1>a, <1>17 DEF StoreComment, Finish
<1>18. ASSUME NEW r \in Request, NEW k \in Task, CreateTask(r, k) PROVE RowTypes'
  BY <1>a, <1>18 DEF CreateTask, Serve
<1>19. ASSUME NEW r \in Request, NEW k \in Task, DeleteTask(r, k) PROVE RowTypes'
  BY <1>a, <1>19 DEF DeleteTask, Serve
<1>20. ASSUME NEW r \in Request, NEW k \in Task, NEW s \in TaskStatus, FindTask(r, k, s) PROVE RowTypes'
  BY <1>a, <1>20 DEF FindTask, Begin
<1>21. ASSUME NEW r \in Request, UpdateTask(r) PROVE RowTypes'
  BY <1>a, <1>21 DEF UpdateTask, Finish
<1>22. ASSUME NEW r \in Request, NEW d \in Deployment,
             NEW c \in Commit \cup {Unabbreviated}, RecordDeployment(r, d, c) PROVE RowTypes'
  BY <1>a, <1>22 DEF RecordDeployment, Serve
<1>23. ASSUME NEW r \in Request, NEW c \in Commit, NEW s \in State, ReceivePush(r, c, s) PROVE RowTypes'
  BY <1>a, <1>23 DEF ReceivePush, Begin
<1>24. ASSUME NEW r \in Request, NEW d \in Deployment, FindDeployment(r, d) PROVE RowTypes'
  BY <1>a, <1>24 DEF FindDeployment, Newest
<1>25. ASSUME NEW r \in Request, FindsNoDeployment(r) PROVE RowTypes'
  BY <1>a, <1>25 DEF FindsNoDeployment, Finish
<1>26. ASSUME NEW r \in Request, Report(r) PROVE RowTypes'
  <2>1. req[r].on \in Deployment /\ req[r].input \in State
    BY <1>a, <1>26 DEF Report
  <2>2. dep' = [dep EXCEPT ![req[r].on] = [commit |-> dep[req[r].on].commit,
                                           status |-> req[r].input]]
    BY <1>a, <2>1, <1>26 DEF Report
  <2>3. UNCHANGED <<products, work, form, history>>
    BY <1>26 DEF Report
  <2>4. QED
    BY <1>a, <2>1, <2>2, <2>3
<1>27. ASSUME NEW r \in Request, Fail(r) PROVE RowTypes'
  <2>1. form' \in [Form -> {"edit", "pending", "left"}]
    BY <1>a, <1>27 DEF Fail, ErrorShown
  <2>2. lateErrors' \in [Form -> Nat]
    BY <1>a, <1>27 DEF Fail
  <2>3. torn' \subseteq Product /\ contested' \subseteq Deployment
    BY <1>a, <1>27 DEF Fail
  <2>4. UNCHANGED <<rows, made, heard>>
    BY <1>27 DEF Fail
  <2>5. QED
    BY <1>a, <2>1, <2>2, <2>3, <2>4
<1>28. CASE UNCHANGED vars
  BY <1>a, <1>28 DEF vars
<1>29. QED
  BY <1>1, <1>2, <1>3, <1>4, <1>5, <1>6, <1>7, <1>8, <1>9, <1>10, <1>11, <1>12, <1>13, <1>14, <1>15, <1>16, <1>17, <1>18, <1>19, <1>20, <1>21, <1>22, <1>23, <1>24, <1>25, <1>26, <1>27, <1>28
  DEF Next, NewRequest, DirectWrite, HandlerStep

\* What a request is at work on goes on existing.
LEMMA RequestTypesStep == ASSUME ProjectsInv, [Next]_vars PROVE RequestTypes'
<1> USE NoneAssumption, StatusAssumption, StateAssumption
        DEF PC, Deployment, DesignState, TaskStatus, products, work, rows,
            history, Exists, Recorded, RowTypes, HandlerTypes, RequestTypes, Holds
<1>a. RowTypes /\ HandlerTypes /\ RequestTypes
  BY DEF ProjectsInv, TypeOK
<1>1. ASSUME NEW r \in Request, NEW p \in Product, UpdateProduct(r, p) PROVE RequestTypes'
  BY <1>a, <1>1 DEF UpdateProduct, Serve
<1>2. ASSUME NEW r \in Request, NEW f \in Form, Submit(r, f) PROVE RequestTypes'
  BY <1>a, <1>2 DEF Submit, Begin
<1>3. ASSUME NEW r \in Request, NEW p \in Product, CreateProduct(r, p) PROVE RequestTypes'
  BY <1>a, <1>3 DEF CreateProduct, Goto
<1>4. ASSUME NEW r \in Request, Announce(r) PROVE RequestTypes'
  BY <1>a, <1>4 DEF Announce, Finish
<1>5. ASSUME NEW r \in Request, NEW p \in Product, NEW s \in Status, ChooseStatus(r, p, s) PROVE RequestTypes'
  BY <1>a, <1>5 DEF ChooseStatus, Begin
<1>6. ASSUME NEW r \in Request, UpdateStatus(r) PROVE RequestTypes'
  BY <1>a, <1>6 DEF UpdateStatus, Finish
<1>7. ASSUME NEW r \in Request, NEW p \in Product, SoftDelete(r, p) PROVE RequestTypes'
  BY <1>a, <1>7 DEF SoftDelete, Serve
<1>8. ASSUME NEW r \in Request, NEW p \in Product, CreateQuote(r, p) PROVE RequestTypes'
  BY <1>a, <1>8 DEF CreateQuote, Serve
<1>9. ASSUME NEW r \in Request, NEW p \in Product, BeginApproval(r, p) PROVE RequestTypes'
  BY <1>a, <1>9 DEF BeginApproval, Begin
<1>10. ASSUME NEW r \in Request, ApproveQuote(r) PROVE RequestTypes'
  BY <1>a, <1>10 DEF ApproveQuote, Goto
<1>11. ASSUME NEW r \in Request, EnterScoped(r) PROVE RequestTypes'
  BY <1>a, <1>11 DEF EnterScoped, Goto
<1>12. ASSUME NEW r \in Request, SetScoped(r) PROVE RequestTypes'
  BY <1>a, <1>12 DEF SetScoped, Finish
<1>13. ASSUME NEW r \in Request, NEW a \in Artifact, AddDesign(r, a) PROVE RequestTypes'
  BY <1>a, <1>13 DEF AddDesign, Serve
<1>14. ASSUME NEW r \in Request, NEW a \in Artifact, NEW v \in {"approved", "rejected"},
             BeginReview(r, a, v) PROVE RequestTypes'
  <2>1. design[a] # "none" /\ UNCHANGED rows
    BY <1>a, <1>14 DEF BeginReview
  <2>2. QED
    BY <1>a, <2>1, <1>14 DEF BeginReview, Begin
<1>15. ASSUME NEW r \in Request, ReviewDesign(r) PROVE RequestTypes'
  BY <1>a, <1>15 DEF ReviewDesign, Finish
<1>16. ASSUME NEW r \in Request, NEW p \in Product, FindForComment(r, p) PROVE RequestTypes'
  BY <1>a, <1>16 DEF FindForComment, Begin
<1>17. ASSUME NEW r \in Request, StoreComment(r) PROVE RequestTypes'
  BY <1>a, <1>17 DEF StoreComment, Finish
<1>18. ASSUME NEW r \in Request, NEW k \in Task, CreateTask(r, k) PROVE RequestTypes'
  BY <1>a, <1>18 DEF CreateTask, Serve
<1>19. ASSUME NEW r \in Request, NEW k \in Task, DeleteTask(r, k) PROVE RequestTypes'
  BY <1>a, <1>19 DEF DeleteTask, Serve
<1>20. ASSUME NEW r \in Request, NEW k \in Task, NEW s \in TaskStatus, FindTask(r, k, s) PROVE RequestTypes'
  BY <1>a, <1>20 DEF FindTask, Begin
<1>21. ASSUME NEW r \in Request, UpdateTask(r) PROVE RequestTypes'
  BY <1>a, <1>21 DEF UpdateTask, Finish
<1>22. ASSUME NEW r \in Request, NEW d \in Deployment,
             NEW c \in Commit \cup {Unabbreviated}, RecordDeployment(r, d, c) PROVE RequestTypes'
  BY <1>a, <1>22 DEF RecordDeployment, Serve
<1>23. ASSUME NEW r \in Request, NEW c \in Commit, NEW s \in State, ReceivePush(r, c, s) PROVE RequestTypes'
  BY <1>a, <1>23 DEF ReceivePush, Begin
<1>24. ASSUME NEW r \in Request, NEW d \in Deployment, FindDeployment(r, d) PROVE RequestTypes'
  BY <1>a, <1>24 DEF FindDeployment, Newest
<1>25. ASSUME NEW r \in Request, FindsNoDeployment(r) PROVE RequestTypes'
  BY <1>a, <1>25 DEF FindsNoDeployment, Finish
<1>26. ASSUME NEW r \in Request, Report(r) PROVE RequestTypes'
  BY <1>a, <1>26 DEF Report, Finish
<1>27. ASSUME NEW r \in Request, Fail(r) PROVE RequestTypes'
  BY <1>a, <1>27 DEF Fail, ErrorShown, Finish
<1>28. CASE UNCHANGED vars
  BY <1>a, <1>28 DEF vars
<1>29. QED
  BY <1>1, <1>2, <1>3, <1>4, <1>5, <1>6, <1>7, <1>8, <1>9, <1>10, <1>11, <1>12, <1>13, <1>14, <1>15, <1>16, <1>17, <1>18, <1>19, <1>20, <1>21, <1>22, <1>23, <1>24, <1>25, <1>26, <1>27, <1>28
  DEF Next, NewRequest, DirectWrite, HandlerStep

\* An approval that was not overtaken has entered its stage.
LEMMA ScopeStep == ASSUME ProjectsInv, [Next]_vars PROVE ScopeInv'
<1> USE NoneAssumption, StatusAssumption, StateAssumption
        DEF PC, Deployment, DesignState, TaskStatus, products, work, rows,
            history, Exists, Recorded, RowTypes, HandlerTypes, RequestTypes, Holds, ScopeInv, At
<1>a. RowTypes /\ HandlerTypes /\ RequestTypes /\ ScopeInv
  BY DEF ProjectsInv, TypeOK
<1>1. ASSUME NEW r \in Request, NEW p \in Product, UpdateProduct(r, p) PROVE ScopeInv'
  BY <1>a, <1>1 DEF UpdateProduct, Serve
<1>2. ASSUME NEW r \in Request, NEW f \in Form, Submit(r, f) PROVE ScopeInv'
  BY <1>a, <1>2 DEF Submit, Begin
<1>3. ASSUME NEW r \in Request, NEW p \in Product, CreateProduct(r, p) PROVE ScopeInv'
  BY <1>a, <1>3 DEF CreateProduct, Goto
<1>4. ASSUME NEW r \in Request, Announce(r) PROVE ScopeInv'
  BY <1>a, <1>4 DEF Announce, Finish
<1>5. ASSUME NEW r \in Request, NEW p \in Product, NEW s \in Status, ChooseStatus(r, p, s) PROVE ScopeInv'
  BY <1>a, <1>5 DEF ChooseStatus, Begin
<1>6. ASSUME NEW r \in Request, UpdateStatus(r) PROVE ScopeInv'
  BY <1>a, <1>6 DEF UpdateStatus, Finish
<1>7. ASSUME NEW r \in Request, NEW p \in Product, SoftDelete(r, p) PROVE ScopeInv'
  BY <1>a, <1>7 DEF SoftDelete, Serve
<1>8. ASSUME NEW r \in Request, NEW p \in Product, CreateQuote(r, p) PROVE ScopeInv'
  BY <1>a, <1>8 DEF CreateQuote, Serve
<1>9. ASSUME NEW r \in Request, NEW p \in Product, BeginApproval(r, p) PROVE ScopeInv'
  BY <1>a, <1>9 DEF BeginApproval, Begin
<1>10. ASSUME NEW r \in Request, ApproveQuote(r) PROVE ScopeInv'
  BY <1>a, <1>10 DEF ApproveQuote, Goto
<1>11. ASSUME NEW r \in Request, EnterScoped(r) PROVE ScopeInv'
  BY <1>a, <1>11 DEF EnterScoped, Goto
<1>12. ASSUME NEW r \in Request, SetScoped(r) PROVE ScopeInv'
  BY <1>a, <1>12 DEF SetScoped, Finish
<1>13. ASSUME NEW r \in Request, NEW a \in Artifact, AddDesign(r, a) PROVE ScopeInv'
  BY <1>a, <1>13 DEF AddDesign, Serve
<1>14. ASSUME NEW r \in Request, NEW a \in Artifact, NEW v \in {"approved", "rejected"},
             BeginReview(r, a, v) PROVE ScopeInv'
  BY <1>a, <1>14 DEF BeginReview, Begin
<1>15. ASSUME NEW r \in Request, ReviewDesign(r) PROVE ScopeInv'
  BY <1>a, <1>15 DEF ReviewDesign, Finish
<1>16. ASSUME NEW r \in Request, NEW p \in Product, FindForComment(r, p) PROVE ScopeInv'
  BY <1>a, <1>16 DEF FindForComment, Begin
<1>17. ASSUME NEW r \in Request, StoreComment(r) PROVE ScopeInv'
  BY <1>a, <1>17 DEF StoreComment, Finish
<1>18. ASSUME NEW r \in Request, NEW k \in Task, CreateTask(r, k) PROVE ScopeInv'
  BY <1>a, <1>18 DEF CreateTask, Serve
<1>19. ASSUME NEW r \in Request, NEW k \in Task, DeleteTask(r, k) PROVE ScopeInv'
  BY <1>a, <1>19 DEF DeleteTask, Serve
<1>20. ASSUME NEW r \in Request, NEW k \in Task, NEW s \in TaskStatus, FindTask(r, k, s) PROVE ScopeInv'
  BY <1>a, <1>20 DEF FindTask, Begin
<1>21. ASSUME NEW r \in Request, UpdateTask(r) PROVE ScopeInv'
  BY <1>a, <1>21 DEF UpdateTask, Finish
<1>22. ASSUME NEW r \in Request, NEW d \in Deployment,
             NEW c \in Commit \cup {Unabbreviated}, RecordDeployment(r, d, c) PROVE ScopeInv'
  BY <1>a, <1>22 DEF RecordDeployment, Serve
<1>23. ASSUME NEW r \in Request, NEW c \in Commit, NEW s \in State, ReceivePush(r, c, s) PROVE ScopeInv'
  BY <1>a, <1>23 DEF ReceivePush, Begin
<1>24. ASSUME NEW r \in Request, NEW d \in Deployment, FindDeployment(r, d) PROVE ScopeInv'
  BY <1>a, <1>24 DEF FindDeployment, Newest
<1>25. ASSUME NEW r \in Request, FindsNoDeployment(r) PROVE ScopeInv'
  BY <1>a, <1>25 DEF FindsNoDeployment, Finish
<1>26. ASSUME NEW r \in Request, Report(r) PROVE ScopeInv'
  BY <1>a, <1>26 DEF Report, Finish
<1>27. ASSUME NEW r \in Request, Fail(r) PROVE ScopeInv'
  BY <1>a, <1>27 DEF Fail, ErrorShown, Finish
<1>28. CASE UNCHANGED vars
  BY <1>a, <1>28 DEF vars
<1>29. QED
  BY <1>1, <1>2, <1>3, <1>4, <1>5, <1>6, <1>7, <1>8, <1>9, <1>10, <1>11, <1>12, <1>13, <1>14, <1>15, <1>16, <1>17, <1>18, <1>19, <1>20, <1>21, <1>22, <1>23, <1>24, <1>25, <1>26, <1>27, <1>28
  DEF Next, NewRequest, DirectWrite, HandlerStep

\* The last stage tells the status.
LEMMA StagesStep == ASSUME ProjectsInv, [Next]_vars PROVE StagesTellTheStatus'
<1> USE NoneAssumption, StatusAssumption, StateAssumption
        DEF PC, Deployment, DesignState, TaskStatus, products, work, rows,
            history, Exists, Recorded, RowTypes, HandlerTypes, RequestTypes, Holds, ScopeInv, StagesTellTheStatus, At
<1>a. RowTypes /\ HandlerTypes /\ RequestTypes /\ ScopeInv /\ StagesTellTheStatus
  BY DEF ProjectsInv, TypeOK
<1>1. ASSUME NEW r \in Request, NEW p \in Product, UpdateProduct(r, p) PROVE StagesTellTheStatus'
  BY <1>a, <1>1 DEF UpdateProduct, Serve
<1>2. ASSUME NEW r \in Request, NEW f \in Form, Submit(r, f) PROVE StagesTellTheStatus'
  BY <1>a, <1>2 DEF Submit, Begin
<1>3. ASSUME NEW r \in Request, NEW p \in Product, CreateProduct(r, p) PROVE StagesTellTheStatus'
  BY <1>a, <1>3 DEF CreateProduct, Goto
<1>4. ASSUME NEW r \in Request, Announce(r) PROVE StagesTellTheStatus'
  BY <1>a, <1>4 DEF Announce, Finish
<1>5. ASSUME NEW r \in Request, NEW p \in Product, NEW s \in Status, ChooseStatus(r, p, s) PROVE StagesTellTheStatus'
  BY <1>a, <1>5 DEF ChooseStatus, Begin
<1>6. ASSUME NEW r \in Request, UpdateStatus(r) PROVE StagesTellTheStatus'
  BY <1>a, <1>6 DEF UpdateStatus, Finish
<1>7. ASSUME NEW r \in Request, NEW p \in Product, SoftDelete(r, p) PROVE StagesTellTheStatus'
  BY <1>a, <1>7 DEF SoftDelete, Serve
<1>8. ASSUME NEW r \in Request, NEW p \in Product, CreateQuote(r, p) PROVE StagesTellTheStatus'
  BY <1>a, <1>8 DEF CreateQuote, Serve
<1>9. ASSUME NEW r \in Request, NEW p \in Product, BeginApproval(r, p) PROVE StagesTellTheStatus'
  BY <1>a, <1>9 DEF BeginApproval, Begin
<1>10. ASSUME NEW r \in Request, ApproveQuote(r) PROVE StagesTellTheStatus'
  BY <1>a, <1>10 DEF ApproveQuote, Goto
<1>11. ASSUME NEW r \in Request, EnterScoped(r) PROVE StagesTellTheStatus'
  BY <1>a, <1>11 DEF EnterScoped, Goto
<1>12. ASSUME NEW r \in Request, SetScoped(r) PROVE StagesTellTheStatus'
  BY <1>a, <1>12 DEF SetScoped, Finish
<1>13. ASSUME NEW r \in Request, NEW a \in Artifact, AddDesign(r, a) PROVE StagesTellTheStatus'
  BY <1>a, <1>13 DEF AddDesign, Serve
<1>14. ASSUME NEW r \in Request, NEW a \in Artifact, NEW v \in {"approved", "rejected"},
             BeginReview(r, a, v) PROVE StagesTellTheStatus'
  BY <1>a, <1>14 DEF BeginReview, Begin
<1>15. ASSUME NEW r \in Request, ReviewDesign(r) PROVE StagesTellTheStatus'
  BY <1>a, <1>15 DEF ReviewDesign, Finish
<1>16. ASSUME NEW r \in Request, NEW p \in Product, FindForComment(r, p) PROVE StagesTellTheStatus'
  BY <1>a, <1>16 DEF FindForComment, Begin
<1>17. ASSUME NEW r \in Request, StoreComment(r) PROVE StagesTellTheStatus'
  BY <1>a, <1>17 DEF StoreComment, Finish
<1>18. ASSUME NEW r \in Request, NEW k \in Task, CreateTask(r, k) PROVE StagesTellTheStatus'
  BY <1>a, <1>18 DEF CreateTask, Serve
<1>19. ASSUME NEW r \in Request, NEW k \in Task, DeleteTask(r, k) PROVE StagesTellTheStatus'
  BY <1>a, <1>19 DEF DeleteTask, Serve
<1>20. ASSUME NEW r \in Request, NEW k \in Task, NEW s \in TaskStatus, FindTask(r, k, s) PROVE StagesTellTheStatus'
  BY <1>a, <1>20 DEF FindTask, Begin
<1>21. ASSUME NEW r \in Request, UpdateTask(r) PROVE StagesTellTheStatus'
  BY <1>a, <1>21 DEF UpdateTask, Finish
<1>22. ASSUME NEW r \in Request, NEW d \in Deployment,
             NEW c \in Commit \cup {Unabbreviated}, RecordDeployment(r, d, c) PROVE StagesTellTheStatus'
  BY <1>a, <1>22 DEF RecordDeployment, Serve
<1>23. ASSUME NEW r \in Request, NEW c \in Commit, NEW s \in State, ReceivePush(r, c, s) PROVE StagesTellTheStatus'
  BY <1>a, <1>23 DEF ReceivePush, Begin
<1>24. ASSUME NEW r \in Request, NEW d \in Deployment, FindDeployment(r, d) PROVE StagesTellTheStatus'
  <2> HIDE DEF At
  <2>1. \A x : At("scope", x)' = At("scope", x)
    BY <1>a, <1>24 DEF FindDeployment, Newest, At
  <2>2. QED
    BY <1>a, <2>1, <1>24 DEF FindDeployment, Newest
<1>25. ASSUME NEW r \in Request, FindsNoDeployment(r) PROVE StagesTellTheStatus'
  BY <1>a, <1>25 DEF FindsNoDeployment, Finish
<1>26. ASSUME NEW r \in Request, Report(r) PROVE StagesTellTheStatus'
  BY <1>a, <1>26 DEF Report, Finish
<1>27. ASSUME NEW r \in Request, Fail(r) PROVE StagesTellTheStatus'
  BY <1>a, <1>27 DEF Fail, ErrorShown, Finish
<1>28. CASE UNCHANGED vars
  BY <1>a, <1>28 DEF vars
<1>29. QED
  BY <1>1, <1>2, <1>3, <1>4, <1>5, <1>6, <1>7, <1>8, <1>9, <1>10, <1>11, <1>12, <1>13, <1>14, <1>15, <1>16, <1>17, <1>18, <1>19, <1>20, <1>21, <1>22, <1>23, <1>24, <1>25, <1>26, <1>27, <1>28
  DEF Next, NewRequest, DirectWrite, HandlerStep

\* A form has one request at a time.
LEMMA FormsStep == ASSUME ProjectsInv, [Next]_vars PROVE FormsInv'
<1> USE NoneAssumption, StatusAssumption, StateAssumption
        DEF PC, Deployment, DesignState, TaskStatus, products, work, rows,
            history, Exists, Recorded, RowTypes, HandlerTypes, RequestTypes, Holds, FormsInv
<1>a. RowTypes /\ HandlerTypes /\ RequestTypes /\ FormsInv
  BY DEF ProjectsInv, TypeOK
<1>1. ASSUME NEW r \in Request, NEW p \in Product, UpdateProduct(r, p) PROVE FormsInv'
  BY <1>a, <1>1 DEF UpdateProduct, Serve
<1>2. ASSUME NEW r \in Request, NEW f \in Form, Submit(r, f) PROVE FormsInv'
  BY <1>a, <1>2 DEF Submit, Begin
<1>3. ASSUME NEW r \in Request, NEW p \in Product, CreateProduct(r, p) PROVE FormsInv'
  BY <1>a, <1>3 DEF CreateProduct, Goto
<1>4. ASSUME NEW r \in Request, Announce(r) PROVE FormsInv'
  BY <1>a, <1>4 DEF Announce, Finish
<1>5. ASSUME NEW r \in Request, NEW p \in Product, NEW s \in Status, ChooseStatus(r, p, s) PROVE FormsInv'
  BY <1>a, <1>5 DEF ChooseStatus, Begin
<1>6. ASSUME NEW r \in Request, UpdateStatus(r) PROVE FormsInv'
  BY <1>a, <1>6 DEF UpdateStatus, Finish
<1>7. ASSUME NEW r \in Request, NEW p \in Product, SoftDelete(r, p) PROVE FormsInv'
  BY <1>a, <1>7 DEF SoftDelete, Serve
<1>8. ASSUME NEW r \in Request, NEW p \in Product, CreateQuote(r, p) PROVE FormsInv'
  BY <1>a, <1>8 DEF CreateQuote, Serve
<1>9. ASSUME NEW r \in Request, NEW p \in Product, BeginApproval(r, p) PROVE FormsInv'
  BY <1>a, <1>9 DEF BeginApproval, Begin
<1>10. ASSUME NEW r \in Request, ApproveQuote(r) PROVE FormsInv'
  BY <1>a, <1>10 DEF ApproveQuote, Goto
<1>11. ASSUME NEW r \in Request, EnterScoped(r) PROVE FormsInv'
  BY <1>a, <1>11 DEF EnterScoped, Goto
<1>12. ASSUME NEW r \in Request, SetScoped(r) PROVE FormsInv'
  BY <1>a, <1>12 DEF SetScoped, Finish
<1>13. ASSUME NEW r \in Request, NEW a \in Artifact, AddDesign(r, a) PROVE FormsInv'
  BY <1>a, <1>13 DEF AddDesign, Serve
<1>14. ASSUME NEW r \in Request, NEW a \in Artifact, NEW v \in {"approved", "rejected"},
             BeginReview(r, a, v) PROVE FormsInv'
  BY <1>a, <1>14 DEF BeginReview, Begin
<1>15. ASSUME NEW r \in Request, ReviewDesign(r) PROVE FormsInv'
  BY <1>a, <1>15 DEF ReviewDesign, Finish
<1>16. ASSUME NEW r \in Request, NEW p \in Product, FindForComment(r, p) PROVE FormsInv'
  BY <1>a, <1>16 DEF FindForComment, Begin
<1>17. ASSUME NEW r \in Request, StoreComment(r) PROVE FormsInv'
  BY <1>a, <1>17 DEF StoreComment, Finish
<1>18. ASSUME NEW r \in Request, NEW k \in Task, CreateTask(r, k) PROVE FormsInv'
  BY <1>a, <1>18 DEF CreateTask, Serve
<1>19. ASSUME NEW r \in Request, NEW k \in Task, DeleteTask(r, k) PROVE FormsInv'
  BY <1>a, <1>19 DEF DeleteTask, Serve
<1>20. ASSUME NEW r \in Request, NEW k \in Task, NEW s \in TaskStatus, FindTask(r, k, s) PROVE FormsInv'
  BY <1>a, <1>20 DEF FindTask, Begin
<1>21. ASSUME NEW r \in Request, UpdateTask(r) PROVE FormsInv'
  BY <1>a, <1>21 DEF UpdateTask, Finish
<1>22. ASSUME NEW r \in Request, NEW d \in Deployment,
             NEW c \in Commit \cup {Unabbreviated}, RecordDeployment(r, d, c) PROVE FormsInv'
  BY <1>a, <1>22 DEF RecordDeployment, Serve
<1>23. ASSUME NEW r \in Request, NEW c \in Commit, NEW s \in State, ReceivePush(r, c, s) PROVE FormsInv'
  BY <1>a, <1>23 DEF ReceivePush, Begin
<1>24. ASSUME NEW r \in Request, NEW d \in Deployment, FindDeployment(r, d) PROVE FormsInv'
  BY <1>a, <1>24 DEF FindDeployment, Newest
<1>25. ASSUME NEW r \in Request, FindsNoDeployment(r) PROVE FormsInv'
  BY <1>a, <1>25 DEF FindsNoDeployment, Finish
<1>26. ASSUME NEW r \in Request, Report(r) PROVE FormsInv'
  BY <1>a, <1>26 DEF Report, Finish
<1>27. ASSUME NEW r \in Request, Fail(r) PROVE FormsInv'
  BY <1>a, <1>27 DEF Fail, ErrorShown, Finish
<1>28. CASE UNCHANGED vars
  BY <1>a, <1>28 DEF vars
<1>29. QED
  BY <1>1, <1>2, <1>3, <1>4, <1>5, <1>6, <1>7, <1>8, <1>9, <1>10, <1>11, <1>12, <1>13, <1>14, <1>15, <1>16, <1>17, <1>18, <1>19, <1>20, <1>21, <1>22, <1>23, <1>24, <1>25, <1>26, <1>27, <1>28
  DEF Next, NewRequest, DirectWrite, HandlerStep

\* The products of a form are accounted for.
LEMMA AccountStep == ASSUME ProjectsInv, [Next]_vars PROVE FormsAccounted'
<1> USE NoneAssumption, StatusAssumption, StateAssumption
        DEF PC, Deployment, DesignState, TaskStatus, products, work, rows,
            history, Exists, Recorded, RowTypes, HandlerTypes, RequestTypes, Holds, FormsInv, FormsAccounted, At
<1>a. RowTypes /\ HandlerTypes /\ RequestTypes /\ FormsInv /\ FormsAccounted
  BY DEF ProjectsInv, TypeOK
<1>1. ASSUME NEW r \in Request, NEW p \in Product, UpdateProduct(r, p) PROVE FormsAccounted'
  BY <1>a, <1>1 DEF UpdateProduct, Serve
<1>2. ASSUME NEW r \in Request, NEW f \in Form, Submit(r, f) PROVE FormsAccounted'
  BY <1>a, <1>2 DEF Submit, Begin
<1>3. ASSUME NEW r \in Request, NEW p \in Product, CreateProduct(r, p) PROVE FormsAccounted'
  <2>1. req[r].on \in Form /\ form[req[r].on] = "pending"
    BY <1>a, <1>3 DEF CreateProduct
  <2>2. \A f \in Form : f = req[r].on => At("announce", f) = {} /\ At("announce", f)' # {}
    BY <1>a, <2>1, <1>3 DEF CreateProduct, Goto
  <2>3. \A f \in Form \ {req[r].on} : At("announce", f)' = At("announce", f)
    BY <1>a, <1>3 DEF CreateProduct, Goto
  <2>4. UNCHANGED <<form, lateErrors>> /\ made' = [made EXCEPT ![req[r].on] = @ + 1]
    BY <1>3 DEF CreateProduct
  <2> HIDE DEF At
  <2>5. ASSUME NEW f \in Form PROVE
          made'[f] = lateErrors'[f]
                       + IF form'[f] = "left" \/ At("announce", f)' # {} THEN 1 ELSE 0
    <3>1. CASE f = req[r].on
      <4>1. made[f] = lateErrors[f] + 0 /\ made[f] \in Nat /\ lateErrors[f] \in Nat
        BY <1>a, <2>1, <2>2, <3>1
      <4>2. made'[f] = made[f] + 1 /\ lateErrors'[f] = lateErrors[f]
        BY <1>a, <2>1, <2>4, <3>1
      <4>3. QED
        BY <4>1, <4>2, <2>2, <3>1
    <3>2. CASE f # req[r].on
      BY <1>a, <2>3, <2>4, <3>2
    <3>3. QED
      BY <3>1, <3>2
  <2>6. QED
    BY <2>5
<1>4. ASSUME NEW r \in Request, Announce(r) PROVE FormsAccounted'
  BY <1>a, <1>4 DEF Announce, Finish
<1>5. ASSUME NEW r \in Request, NEW p \in Product, NEW s \in Status, ChooseStatus(r, p, s) PROVE FormsAccounted'
  BY <1>a, <1>5 DEF ChooseStatus, Begin
<1>6. ASSUME NEW r \in Request, UpdateStatus(r) PROVE FormsAccounted'
  BY <1>a, <1>6 DEF UpdateStatus, Finish
<1>7. ASSUME NEW r \in Request, NEW p \in Product, SoftDelete(r, p) PROVE FormsAccounted'
  BY <1>a, <1>7 DEF SoftDelete, Serve
<1>8. ASSUME NEW r \in Request, NEW p \in Product, CreateQuote(r, p) PROVE FormsAccounted'
  BY <1>a, <1>8 DEF CreateQuote, Serve
<1>9. ASSUME NEW r \in Request, NEW p \in Product, BeginApproval(r, p) PROVE FormsAccounted'
  BY <1>a, <1>9 DEF BeginApproval, Begin
<1>10. ASSUME NEW r \in Request, ApproveQuote(r) PROVE FormsAccounted'
  BY <1>a, <1>10 DEF ApproveQuote, Goto
<1>11. ASSUME NEW r \in Request, EnterScoped(r) PROVE FormsAccounted'
  BY <1>a, <1>11 DEF EnterScoped, Goto
<1>12. ASSUME NEW r \in Request, SetScoped(r) PROVE FormsAccounted'
  BY <1>a, <1>12 DEF SetScoped, Finish
<1>13. ASSUME NEW r \in Request, NEW a \in Artifact, AddDesign(r, a) PROVE FormsAccounted'
  BY <1>a, <1>13 DEF AddDesign, Serve
<1>14. ASSUME NEW r \in Request, NEW a \in Artifact, NEW v \in {"approved", "rejected"},
             BeginReview(r, a, v) PROVE FormsAccounted'
  BY <1>a, <1>14 DEF BeginReview, Begin
<1>15. ASSUME NEW r \in Request, ReviewDesign(r) PROVE FormsAccounted'
  BY <1>a, <1>15 DEF ReviewDesign, Finish
<1>16. ASSUME NEW r \in Request, NEW p \in Product, FindForComment(r, p) PROVE FormsAccounted'
  BY <1>a, <1>16 DEF FindForComment, Begin
<1>17. ASSUME NEW r \in Request, StoreComment(r) PROVE FormsAccounted'
  BY <1>a, <1>17 DEF StoreComment, Finish
<1>18. ASSUME NEW r \in Request, NEW k \in Task, CreateTask(r, k) PROVE FormsAccounted'
  BY <1>a, <1>18 DEF CreateTask, Serve
<1>19. ASSUME NEW r \in Request, NEW k \in Task, DeleteTask(r, k) PROVE FormsAccounted'
  BY <1>a, <1>19 DEF DeleteTask, Serve
<1>20. ASSUME NEW r \in Request, NEW k \in Task, NEW s \in TaskStatus, FindTask(r, k, s) PROVE FormsAccounted'
  BY <1>a, <1>20 DEF FindTask, Begin
<1>21. ASSUME NEW r \in Request, UpdateTask(r) PROVE FormsAccounted'
  BY <1>a, <1>21 DEF UpdateTask, Finish
<1>22. ASSUME NEW r \in Request, NEW d \in Deployment,
             NEW c \in Commit \cup {Unabbreviated}, RecordDeployment(r, d, c) PROVE FormsAccounted'
  BY <1>a, <1>22 DEF RecordDeployment, Serve
<1>23. ASSUME NEW r \in Request, NEW c \in Commit, NEW s \in State, ReceivePush(r, c, s) PROVE FormsAccounted'
  BY <1>a, <1>23 DEF ReceivePush, Begin
<1>24. ASSUME NEW r \in Request, NEW d \in Deployment, FindDeployment(r, d) PROVE FormsAccounted'
  <2> HIDE DEF At
  <2>1. \A x : At("announce", x)' = At("announce", x)
    BY <1>a, <1>24 DEF FindDeployment, Newest, At
  <2>2. QED
    BY <1>a, <2>1, <1>24 DEF FindDeployment, Newest
<1>25. ASSUME NEW r \in Request, FindsNoDeployment(r) PROVE FormsAccounted'
  BY <1>a, <1>25 DEF FindsNoDeployment, Finish
<1>26. ASSUME NEW r \in Request, Report(r) PROVE FormsAccounted'
  BY <1>a, <1>26 DEF Report, Finish
<1>27. ASSUME NEW r \in Request, Fail(r) PROVE FormsAccounted'
  BY <1>a, <1>27 DEF Fail, ErrorShown, Finish
<1>28. CASE UNCHANGED vars
  BY <1>a, <1>28 DEF vars
<1>29. QED
  BY <1>1, <1>2, <1>3, <1>4, <1>5, <1>6, <1>7, <1>8, <1>9, <1>10, <1>11, <1>12, <1>13, <1>14, <1>15, <1>16, <1>17, <1>18, <1>19, <1>20, <1>21, <1>22, <1>23, <1>24, <1>25, <1>26, <1>27, <1>28
  DEF Next, NewRequest, DirectWrite, HandlerStep

\* A report on an uncontested deployment is its only one and its last.
LEMMA ReportStep == ASSUME ProjectsInv, [Next]_vars PROVE ReportInv'
<1> USE NoneAssumption, StatusAssumption, StateAssumption
        DEF PC, Deployment, DesignState, TaskStatus, products, work, rows,
            history, Exists, Recorded, RowTypes, HandlerTypes, RequestTypes, Holds, ReportInv, At
<1>a. RowTypes /\ HandlerTypes /\ RequestTypes /\ ReportInv
  BY DEF ProjectsInv, TypeOK
<1>1. ASSUME NEW r \in Request, NEW p \in Product, UpdateProduct(r, p) PROVE ReportInv'
  BY <1>a, <1>1 DEF UpdateProduct, Serve
<1>2. ASSUME NEW r \in Request, NEW f \in Form, Submit(r, f) PROVE ReportInv'
  BY <1>a, <1>2 DEF Submit, Begin
<1>3. ASSUME NEW r \in Request, NEW p \in Product, CreateProduct(r, p) PROVE ReportInv'
  BY <1>a, <1>3 DEF CreateProduct, Goto
<1>4. ASSUME NEW r \in Request, Announce(r) PROVE ReportInv'
  BY <1>a, <1>4 DEF Announce, Finish
<1>5. ASSUME NEW r \in Request, NEW p \in Product, NEW s \in Status, ChooseStatus(r, p, s) PROVE ReportInv'
  BY <1>a, <1>5 DEF ChooseStatus, Begin
<1>6. ASSUME NEW r \in Request, UpdateStatus(r) PROVE ReportInv'
  BY <1>a, <1>6 DEF UpdateStatus, Finish
<1>7. ASSUME NEW r \in Request, NEW p \in Product, SoftDelete(r, p) PROVE ReportInv'
  BY <1>a, <1>7 DEF SoftDelete, Serve
<1>8. ASSUME NEW r \in Request, NEW p \in Product, CreateQuote(r, p) PROVE ReportInv'
  BY <1>a, <1>8 DEF CreateQuote, Serve
<1>9. ASSUME NEW r \in Request, NEW p \in Product, BeginApproval(r, p) PROVE ReportInv'
  BY <1>a, <1>9 DEF BeginApproval, Begin
<1>10. ASSUME NEW r \in Request, ApproveQuote(r) PROVE ReportInv'
  BY <1>a, <1>10 DEF ApproveQuote, Goto
<1>11. ASSUME NEW r \in Request, EnterScoped(r) PROVE ReportInv'
  BY <1>a, <1>11 DEF EnterScoped, Goto
<1>12. ASSUME NEW r \in Request, SetScoped(r) PROVE ReportInv'
  BY <1>a, <1>12 DEF SetScoped, Finish
<1>13. ASSUME NEW r \in Request, NEW a \in Artifact, AddDesign(r, a) PROVE ReportInv'
  BY <1>a, <1>13 DEF AddDesign, Serve
<1>14. ASSUME NEW r \in Request, NEW a \in Artifact, NEW v \in {"approved", "rejected"},
             BeginReview(r, a, v) PROVE ReportInv'
  BY <1>a, <1>14 DEF BeginReview, Begin
<1>15. ASSUME NEW r \in Request, ReviewDesign(r) PROVE ReportInv'
  BY <1>a, <1>15 DEF ReviewDesign, Finish
<1>16. ASSUME NEW r \in Request, NEW p \in Product, FindForComment(r, p) PROVE ReportInv'
  BY <1>a, <1>16 DEF FindForComment, Begin
<1>17. ASSUME NEW r \in Request, StoreComment(r) PROVE ReportInv'
  BY <1>a, <1>17 DEF StoreComment, Finish
<1>18. ASSUME NEW r \in Request, NEW k \in Task, CreateTask(r, k) PROVE ReportInv'
  BY <1>a, <1>18 DEF CreateTask, Serve
<1>19. ASSUME NEW r \in Request, NEW k \in Task, DeleteTask(r, k) PROVE ReportInv'
  BY <1>a, <1>19 DEF DeleteTask, Serve
<1>20. ASSUME NEW r \in Request, NEW k \in Task, NEW s \in TaskStatus, FindTask(r, k, s) PROVE ReportInv'
  BY <1>a, <1>20 DEF FindTask, Begin
<1>21. ASSUME NEW r \in Request, UpdateTask(r) PROVE ReportInv'
  BY <1>a, <1>21 DEF UpdateTask, Finish
<1>22. ASSUME NEW r \in Request, NEW d \in Deployment,
             NEW c \in Commit \cup {Unabbreviated}, RecordDeployment(r, d, c) PROVE ReportInv'
  BY <1>a, <1>22 DEF RecordDeployment, Serve
<1>23. ASSUME NEW r \in Request, NEW c \in Commit, NEW s \in State, ReceivePush(r, c, s) PROVE ReportInv'
  BY <1>a, <1>23 DEF ReceivePush, Begin
<1>24. ASSUME NEW r \in Request, NEW d \in Deployment, FindDeployment(r, d) PROVE ReportInv'
  BY <1>a, <1>24 DEF FindDeployment, Newest
<1>25. ASSUME NEW r \in Request, FindsNoDeployment(r) PROVE ReportInv'
  BY <1>a, <1>25 DEF FindsNoDeployment, Finish
<1>26. ASSUME NEW r \in Request, Report(r) PROVE ReportInv'
  BY <1>a, <1>26 DEF Report, Finish
<1>27. ASSUME NEW r \in Request, Fail(r) PROVE ReportInv'
  BY <1>a, <1>27 DEF Fail, ErrorShown, Finish
<1>28. CASE UNCHANGED vars
  BY <1>a, <1>28 DEF vars
<1>29. QED
  BY <1>1, <1>2, <1>3, <1>4, <1>5, <1>6, <1>7, <1>8, <1>9, <1>10, <1>11, <1>12, <1>13, <1>14, <1>15, <1>16, <1>17, <1>18, <1>19, <1>20, <1>21, <1>22, <1>23, <1>24, <1>25, <1>26, <1>27, <1>28
  DEF Next, NewRequest, DirectWrite, HandlerStep

\* Deployments follow their reports.
LEMMA FollowStep == ASSUME ProjectsInv, [Next]_vars PROVE DeploymentFollowsReports'
<1> USE NoneAssumption, StatusAssumption, StateAssumption
        DEF PC, Deployment, DesignState, TaskStatus, products, work, rows,
            history, Exists, Recorded, RowTypes, HandlerTypes, RequestTypes, Holds, ReportInv, DeploymentFollowsReports, At
<1>a. RowTypes /\ HandlerTypes /\ RequestTypes /\ ReportInv /\ DeploymentFollowsReports
  BY DEF ProjectsInv, TypeOK
<1>1. ASSUME NEW r \in Request, NEW p \in Product, UpdateProduct(r, p) PROVE DeploymentFollowsReports'
  BY <1>a, <1>1 DEF UpdateProduct, Serve
<1>2. ASSUME NEW r \in Request, NEW f \in Form, Submit(r, f) PROVE DeploymentFollowsReports'
  BY <1>a, <1>2 DEF Submit, Begin
<1>3. ASSUME NEW r \in Request, NEW p \in Product, CreateProduct(r, p) PROVE DeploymentFollowsReports'
  BY <1>a, <1>3 DEF CreateProduct, Goto
<1>4. ASSUME NEW r \in Request, Announce(r) PROVE DeploymentFollowsReports'
  BY <1>a, <1>4 DEF Announce, Finish
<1>5. ASSUME NEW r \in Request, NEW p \in Product, NEW s \in Status, ChooseStatus(r, p, s) PROVE DeploymentFollowsReports'
  BY <1>a, <1>5 DEF ChooseStatus, Begin
<1>6. ASSUME NEW r \in Request, UpdateStatus(r) PROVE DeploymentFollowsReports'
  BY <1>a, <1>6 DEF UpdateStatus, Finish
<1>7. ASSUME NEW r \in Request, NEW p \in Product, SoftDelete(r, p) PROVE DeploymentFollowsReports'
  BY <1>a, <1>7 DEF SoftDelete, Serve
<1>8. ASSUME NEW r \in Request, NEW p \in Product, CreateQuote(r, p) PROVE DeploymentFollowsReports'
  BY <1>a, <1>8 DEF CreateQuote, Serve
<1>9. ASSUME NEW r \in Request, NEW p \in Product, BeginApproval(r, p) PROVE DeploymentFollowsReports'
  BY <1>a, <1>9 DEF BeginApproval, Begin
<1>10. ASSUME NEW r \in Request, ApproveQuote(r) PROVE DeploymentFollowsReports'
  BY <1>a, <1>10 DEF ApproveQuote, Goto
<1>11. ASSUME NEW r \in Request, EnterScoped(r) PROVE DeploymentFollowsReports'
  BY <1>a, <1>11 DEF EnterScoped, Goto
<1>12. ASSUME NEW r \in Request, SetScoped(r) PROVE DeploymentFollowsReports'
  BY <1>a, <1>12 DEF SetScoped, Finish
<1>13. ASSUME NEW r \in Request, NEW a \in Artifact, AddDesign(r, a) PROVE DeploymentFollowsReports'
  BY <1>a, <1>13 DEF AddDesign, Serve
<1>14. ASSUME NEW r \in Request, NEW a \in Artifact, NEW v \in {"approved", "rejected"},
             BeginReview(r, a, v) PROVE DeploymentFollowsReports'
  BY <1>a, <1>14 DEF BeginReview, Begin
<1>15. ASSUME NEW r \in Request, ReviewDesign(r) PROVE DeploymentFollowsReports'
  BY <1>a, <1>15 DEF ReviewDesign, Finish
<1>16. ASSUME NEW r \in Request, NEW p \in Product, FindForComment(r, p) PROVE DeploymentFollowsReports'
  BY <1>a, <1>16 DEF FindForComment, Begin
<1>17. ASSUME NEW r \in Request, StoreComment(r) PROVE DeploymentFollowsReports'
  BY <1>a, <1>17 DEF StoreComment, Finish
<1>18. ASSUME NEW r \in Request, NEW k \in Task, CreateTask(r, k) PROVE DeploymentFollowsReports'
  BY <1>a, <1>18 DEF CreateTask, Serve
<1>19. ASSUME NEW r \in Request, NEW k \in Task, DeleteTask(r, k) PROVE DeploymentFollowsReports'
  BY <1>a, <1>19 DEF DeleteTask, Serve
<1>20. ASSUME NEW r \in Request, NEW k \in Task, NEW s \in TaskStatus, FindTask(r, k, s) PROVE DeploymentFollowsReports'
  BY <1>a, <1>20 DEF FindTask, Begin
<1>21. ASSUME NEW r \in Request, UpdateTask(r) PROVE DeploymentFollowsReports'
  BY <1>a, <1>21 DEF UpdateTask, Finish
<1>22. ASSUME NEW r \in Request, NEW d \in Deployment,
             NEW c \in Commit \cup {Unabbreviated}, RecordDeployment(r, d, c) PROVE DeploymentFollowsReports'
  BY <1>a, <1>22 DEF RecordDeployment, Serve
<1>23. ASSUME NEW r \in Request, NEW c \in Commit, NEW s \in State, ReceivePush(r, c, s) PROVE DeploymentFollowsReports'
  BY <1>a, <1>23 DEF ReceivePush, Begin
<1>24. ASSUME NEW r \in Request, NEW d \in Deployment, FindDeployment(r, d) PROVE DeploymentFollowsReports'
  BY <1>a, <1>24 DEF FindDeployment, Newest
<1>25. ASSUME NEW r \in Request, FindsNoDeployment(r) PROVE DeploymentFollowsReports'
  BY <1>a, <1>25 DEF FindsNoDeployment, Finish
<1>26. ASSUME NEW r \in Request, Report(r) PROVE DeploymentFollowsReports'
  BY <1>a, <1>26 DEF Report, Finish
<1>27. ASSUME NEW r \in Request, Fail(r) PROVE DeploymentFollowsReports'
  BY <1>a, <1>27 DEF Fail, ErrorShown, Finish
<1>28. CASE UNCHANGED vars
  BY <1>a, <1>28 DEF vars
<1>29. QED
  BY <1>1, <1>2, <1>3, <1>4, <1>5, <1>6, <1>7, <1>8, <1>9, <1>10, <1>11, <1>12, <1>13, <1>14, <1>15, <1>16, <1>17, <1>18, <1>19, <1>20, <1>21, <1>22, <1>23, <1>24, <1>25, <1>26, <1>27, <1>28
  DEF Next, NewRequest, DirectWrite, HandlerStep


LEMMA ProjectsInit == Init => ProjectsInv
  BY NoneAssumption, StatusAssumption, StateAssumption, DeploymentsAssumption
  DEF Init, ProjectsInv, TypeOK, RowTypes, HandlerTypes, RequestTypes,
      Holds, ScopeInv, StagesTellTheStatus, FormsInv, FormsAccounted, ReportInv,
      DeploymentFollowsReports, At, PC, Thing, Input, DesignState, TaskStatus,
      Exists, Recorded, Deployment

\* The inductive invariant holds in every reachable state, for any number of
\* products, forms, requests and deployments.
THEOREM ProjectsInvariant == Spec => []ProjectsInv
<1>1. ProjectsInv /\ [Next]_vars => ProjectsInv'
  BY HandlerTypesStep, RowTypesStep, RequestTypesStep, ScopeStep,
     StagesStep, FormsStep, AccountStep, ReportStep, FollowStep
  DEF ProjectsInv, TypeOK
<1>2. QED
  BY ProjectsInit, <1>1, PTL DEF Spec

\* Rows and locals keep their types, and what a request works on exists.
THEOREM ProjectTypesCorrect == Spec => []TypeOK
<1>1. ProjectsInv => TypeOK
  BY DEF ProjectsInv
<1>2. QED
  BY ProjectsInvariant, <1>1, PTL

\* The last stage is the product's status, except where an approval is half
\* written, died half way, or was overtaken by staff.
THEOREM StageLogTellsStatus == Spec => []StagesTellTheStatus
<1>1. ProjectsInv => StagesTellTheStatus
  BY DEF ProjectsInv
<1>2. QED
  BY ProjectsInvariant, <1>1, PTL

\* A form makes one product, and one more for each error it was shown too late.
THEOREM FormsAreAccounted == Spec => []FormsAccounted
<1>1. ProjectsInv => FormsAccounted
  BY DEF ProjectsInv
<1>2. QED
  BY ProjectsInvariant, <1>1, PTL

\* A deployment shows the last state reported for it, unless reports overlapped
\* or died.
THEOREM DeploymentsFollowReports == Spec => []DeploymentFollowsReports
<1>1. ProjectsInv => DeploymentFollowsReports
  BY DEF ProjectsInv
<1>2. QED
  BY ProjectsInvariant, <1>1, PTL


\* A deleted task is final once no update that found it before is in flight.
LEMMA DeletedTaskRests ==
  ASSUME ProjectsInv, [Next]_vars, NEW k0 \in Task, DeletedTask(k0)
  PROVE DeletedTask(k0)' /\ task'[k0] = task[k0]
<1> USE NoneAssumption, StatusAssumption, StateAssumption
        DEF PC, Deployment, DesignState, TaskStatus, products, work, rows,
            history, Exists, Recorded, RowTypes, HandlerTypes, RequestTypes, Holds, At, DeletedTask
<1>a. RowTypes /\ HandlerTypes /\ RequestTypes
  BY DEF ProjectsInv, TypeOK
<1>1. ASSUME NEW r \in Request, NEW p \in Product, UpdateProduct(r, p) PROVE DeletedTask(k0)' /\ task'[k0] = task[k0]
  BY <1>a, <1>1 DEF UpdateProduct, Serve
<1>2. ASSUME NEW r \in Request, NEW f \in Form, Submit(r, f) PROVE DeletedTask(k0)' /\ task'[k0] = task[k0]
  BY <1>a, <1>2 DEF Submit, Begin
<1>3. ASSUME NEW r \in Request, NEW p \in Product, CreateProduct(r, p) PROVE DeletedTask(k0)' /\ task'[k0] = task[k0]
  BY <1>a, <1>3 DEF CreateProduct, Goto
<1>4. ASSUME NEW r \in Request, Announce(r) PROVE DeletedTask(k0)' /\ task'[k0] = task[k0]
  BY <1>a, <1>4 DEF Announce, Finish
<1>5. ASSUME NEW r \in Request, NEW p \in Product, NEW s \in Status, ChooseStatus(r, p, s) PROVE DeletedTask(k0)' /\ task'[k0] = task[k0]
  BY <1>a, <1>5 DEF ChooseStatus, Begin
<1>6. ASSUME NEW r \in Request, UpdateStatus(r) PROVE DeletedTask(k0)' /\ task'[k0] = task[k0]
  BY <1>a, <1>6 DEF UpdateStatus, Finish
<1>7. ASSUME NEW r \in Request, NEW p \in Product, SoftDelete(r, p) PROVE DeletedTask(k0)' /\ task'[k0] = task[k0]
  BY <1>a, <1>7 DEF SoftDelete, Serve
<1>8. ASSUME NEW r \in Request, NEW p \in Product, CreateQuote(r, p) PROVE DeletedTask(k0)' /\ task'[k0] = task[k0]
  BY <1>a, <1>8 DEF CreateQuote, Serve
<1>9. ASSUME NEW r \in Request, NEW p \in Product, BeginApproval(r, p) PROVE DeletedTask(k0)' /\ task'[k0] = task[k0]
  BY <1>a, <1>9 DEF BeginApproval, Begin
<1>10. ASSUME NEW r \in Request, ApproveQuote(r) PROVE DeletedTask(k0)' /\ task'[k0] = task[k0]
  BY <1>a, <1>10 DEF ApproveQuote, Goto
<1>11. ASSUME NEW r \in Request, EnterScoped(r) PROVE DeletedTask(k0)' /\ task'[k0] = task[k0]
  BY <1>a, <1>11 DEF EnterScoped, Goto
<1>12. ASSUME NEW r \in Request, SetScoped(r) PROVE DeletedTask(k0)' /\ task'[k0] = task[k0]
  BY <1>a, <1>12 DEF SetScoped, Finish
<1>13. ASSUME NEW r \in Request, NEW a \in Artifact, AddDesign(r, a) PROVE DeletedTask(k0)' /\ task'[k0] = task[k0]
  BY <1>a, <1>13 DEF AddDesign, Serve
<1>14. ASSUME NEW r \in Request, NEW a \in Artifact, NEW v \in {"approved", "rejected"},
             BeginReview(r, a, v) PROVE DeletedTask(k0)' /\ task'[k0] = task[k0]
  BY <1>a, <1>14 DEF BeginReview, Begin
<1>15. ASSUME NEW r \in Request, ReviewDesign(r) PROVE DeletedTask(k0)' /\ task'[k0] = task[k0]
  BY <1>a, <1>15 DEF ReviewDesign, Finish
<1>16. ASSUME NEW r \in Request, NEW p \in Product, FindForComment(r, p) PROVE DeletedTask(k0)' /\ task'[k0] = task[k0]
  BY <1>a, <1>16 DEF FindForComment, Begin
<1>17. ASSUME NEW r \in Request, StoreComment(r) PROVE DeletedTask(k0)' /\ task'[k0] = task[k0]
  BY <1>a, <1>17 DEF StoreComment, Finish
<1>18. ASSUME NEW r \in Request, NEW k \in Task, CreateTask(r, k) PROVE DeletedTask(k0)' /\ task'[k0] = task[k0]
  BY <1>a, <1>18 DEF CreateTask, Serve
<1>19. ASSUME NEW r \in Request, NEW k \in Task, DeleteTask(r, k) PROVE DeletedTask(k0)' /\ task'[k0] = task[k0]
  BY <1>a, <1>19 DEF DeleteTask, Serve
<1>20. ASSUME NEW r \in Request, NEW k \in Task, NEW s \in TaskStatus, FindTask(r, k, s) PROVE DeletedTask(k0)' /\ task'[k0] = task[k0]
  BY <1>a, <1>20 DEF FindTask, Begin
<1>21. ASSUME NEW r \in Request, UpdateTask(r) PROVE DeletedTask(k0)' /\ task'[k0] = task[k0]
  BY <1>a, <1>21 DEF UpdateTask, Finish
<1>22. ASSUME NEW r \in Request, NEW d \in Deployment,
             NEW c \in Commit \cup {Unabbreviated}, RecordDeployment(r, d, c) PROVE DeletedTask(k0)' /\ task'[k0] = task[k0]
  BY <1>a, <1>22 DEF RecordDeployment, Serve
<1>23. ASSUME NEW r \in Request, NEW c \in Commit, NEW s \in State, ReceivePush(r, c, s) PROVE DeletedTask(k0)' /\ task'[k0] = task[k0]
  BY <1>a, <1>23 DEF ReceivePush, Begin
<1>24. ASSUME NEW r \in Request, NEW d \in Deployment, FindDeployment(r, d) PROVE DeletedTask(k0)' /\ task'[k0] = task[k0]
  BY <1>a, <1>24 DEF FindDeployment, Newest
<1>25. ASSUME NEW r \in Request, FindsNoDeployment(r) PROVE DeletedTask(k0)' /\ task'[k0] = task[k0]
  BY <1>a, <1>25 DEF FindsNoDeployment, Finish
<1>26. ASSUME NEW r \in Request, Report(r) PROVE DeletedTask(k0)' /\ task'[k0] = task[k0]
  BY <1>a, <1>26 DEF Report, Finish
<1>27. ASSUME NEW r \in Request, Fail(r) PROVE DeletedTask(k0)' /\ task'[k0] = task[k0]
  BY <1>a, <1>27 DEF Fail, ErrorShown, Finish
<1>28. CASE UNCHANGED vars
  BY <1>a, <1>28 DEF vars
<1>29. QED
  BY <1>1, <1>2, <1>3, <1>4, <1>5, <1>6, <1>7, <1>8, <1>9, <1>10, <1>11, <1>12, <1>13, <1>14, <1>15, <1>16, <1>17, <1>18, <1>19, <1>20, <1>21, <1>22, <1>23, <1>24, <1>25, <1>26, <1>27, <1>28
  DEF Next, NewRequest, DirectWrite, HandlerStep

\* A deleted product gets no comment but from a request that found it before.
LEMMA DeletedProductRests ==
  ASSUME ProjectsInv, [Next]_vars, NEW p0 \in Product, DeletedProduct(p0)
  PROVE (p0 \in deleted' => DeletedProduct(p0)') /\ comments'[p0] = comments[p0]
<1> USE NoneAssumption, StatusAssumption, StateAssumption
        DEF PC, Deployment, DesignState, TaskStatus, products, work, rows,
            history, Exists, Recorded, RowTypes, HandlerTypes, RequestTypes, Holds, At, DeletedProduct
<1>a. RowTypes /\ HandlerTypes /\ RequestTypes
  BY DEF ProjectsInv, TypeOK
<1>1. ASSUME NEW r \in Request, NEW p \in Product, UpdateProduct(r, p) PROVE (p0 \in deleted' => DeletedProduct(p0)') /\ comments'[p0] = comments[p0]
  BY <1>a, <1>1 DEF UpdateProduct, Serve
<1>2. ASSUME NEW r \in Request, NEW f \in Form, Submit(r, f) PROVE (p0 \in deleted' => DeletedProduct(p0)') /\ comments'[p0] = comments[p0]
  BY <1>a, <1>2 DEF Submit, Begin
<1>3. ASSUME NEW r \in Request, NEW p \in Product, CreateProduct(r, p) PROVE (p0 \in deleted' => DeletedProduct(p0)') /\ comments'[p0] = comments[p0]
  BY <1>a, <1>3 DEF CreateProduct, Goto
<1>4. ASSUME NEW r \in Request, Announce(r) PROVE (p0 \in deleted' => DeletedProduct(p0)') /\ comments'[p0] = comments[p0]
  BY <1>a, <1>4 DEF Announce, Finish
<1>5. ASSUME NEW r \in Request, NEW p \in Product, NEW s \in Status, ChooseStatus(r, p, s) PROVE (p0 \in deleted' => DeletedProduct(p0)') /\ comments'[p0] = comments[p0]
  BY <1>a, <1>5 DEF ChooseStatus, Begin
<1>6. ASSUME NEW r \in Request, UpdateStatus(r) PROVE (p0 \in deleted' => DeletedProduct(p0)') /\ comments'[p0] = comments[p0]
  BY <1>a, <1>6 DEF UpdateStatus, Finish
<1>7. ASSUME NEW r \in Request, NEW p \in Product, SoftDelete(r, p) PROVE (p0 \in deleted' => DeletedProduct(p0)') /\ comments'[p0] = comments[p0]
  BY <1>a, <1>7 DEF SoftDelete, Serve
<1>8. ASSUME NEW r \in Request, NEW p \in Product, CreateQuote(r, p) PROVE (p0 \in deleted' => DeletedProduct(p0)') /\ comments'[p0] = comments[p0]
  BY <1>a, <1>8 DEF CreateQuote, Serve
<1>9. ASSUME NEW r \in Request, NEW p \in Product, BeginApproval(r, p) PROVE (p0 \in deleted' => DeletedProduct(p0)') /\ comments'[p0] = comments[p0]
  BY <1>a, <1>9 DEF BeginApproval, Begin
<1>10. ASSUME NEW r \in Request, ApproveQuote(r) PROVE (p0 \in deleted' => DeletedProduct(p0)') /\ comments'[p0] = comments[p0]
  BY <1>a, <1>10 DEF ApproveQuote, Goto
<1>11. ASSUME NEW r \in Request, EnterScoped(r) PROVE (p0 \in deleted' => DeletedProduct(p0)') /\ comments'[p0] = comments[p0]
  BY <1>a, <1>11 DEF EnterScoped, Goto
<1>12. ASSUME NEW r \in Request, SetScoped(r) PROVE (p0 \in deleted' => DeletedProduct(p0)') /\ comments'[p0] = comments[p0]
  BY <1>a, <1>12 DEF SetScoped, Finish
<1>13. ASSUME NEW r \in Request, NEW a \in Artifact, AddDesign(r, a) PROVE (p0 \in deleted' => DeletedProduct(p0)') /\ comments'[p0] = comments[p0]
  BY <1>a, <1>13 DEF AddDesign, Serve
<1>14. ASSUME NEW r \in Request, NEW a \in Artifact, NEW v \in {"approved", "rejected"},
             BeginReview(r, a, v) PROVE (p0 \in deleted' => DeletedProduct(p0)') /\ comments'[p0] = comments[p0]
  BY <1>a, <1>14 DEF BeginReview, Begin
<1>15. ASSUME NEW r \in Request, ReviewDesign(r) PROVE (p0 \in deleted' => DeletedProduct(p0)') /\ comments'[p0] = comments[p0]
  BY <1>a, <1>15 DEF ReviewDesign, Finish
<1>16. ASSUME NEW r \in Request, NEW p \in Product, FindForComment(r, p) PROVE (p0 \in deleted' => DeletedProduct(p0)') /\ comments'[p0] = comments[p0]
  BY <1>a, <1>16 DEF FindForComment, Begin
<1>17. ASSUME NEW r \in Request, StoreComment(r) PROVE (p0 \in deleted' => DeletedProduct(p0)') /\ comments'[p0] = comments[p0]
  BY <1>a, <1>17 DEF StoreComment, Finish
<1>18. ASSUME NEW r \in Request, NEW k \in Task, CreateTask(r, k) PROVE (p0 \in deleted' => DeletedProduct(p0)') /\ comments'[p0] = comments[p0]
  BY <1>a, <1>18 DEF CreateTask, Serve
<1>19. ASSUME NEW r \in Request, NEW k \in Task, DeleteTask(r, k) PROVE (p0 \in deleted' => DeletedProduct(p0)') /\ comments'[p0] = comments[p0]
  BY <1>a, <1>19 DEF DeleteTask, Serve
<1>20. ASSUME NEW r \in Request, NEW k \in Task, NEW s \in TaskStatus, FindTask(r, k, s) PROVE (p0 \in deleted' => DeletedProduct(p0)') /\ comments'[p0] = comments[p0]
  BY <1>a, <1>20 DEF FindTask, Begin
<1>21. ASSUME NEW r \in Request, UpdateTask(r) PROVE (p0 \in deleted' => DeletedProduct(p0)') /\ comments'[p0] = comments[p0]
  BY <1>a, <1>21 DEF UpdateTask, Finish
<1>22. ASSUME NEW r \in Request, NEW d \in Deployment,
             NEW c \in Commit \cup {Unabbreviated}, RecordDeployment(r, d, c) PROVE (p0 \in deleted' => DeletedProduct(p0)') /\ comments'[p0] = comments[p0]
  BY <1>a, <1>22 DEF RecordDeployment, Serve
<1>23. ASSUME NEW r \in Request, NEW c \in Commit, NEW s \in State, ReceivePush(r, c, s) PROVE (p0 \in deleted' => DeletedProduct(p0)') /\ comments'[p0] = comments[p0]
  BY <1>a, <1>23 DEF ReceivePush, Begin
<1>24. ASSUME NEW r \in Request, NEW d \in Deployment, FindDeployment(r, d) PROVE (p0 \in deleted' => DeletedProduct(p0)') /\ comments'[p0] = comments[p0]
  BY <1>a, <1>24 DEF FindDeployment, Newest
<1>25. ASSUME NEW r \in Request, FindsNoDeployment(r) PROVE (p0 \in deleted' => DeletedProduct(p0)') /\ comments'[p0] = comments[p0]
  BY <1>a, <1>25 DEF FindsNoDeployment, Finish
<1>26. ASSUME NEW r \in Request, Report(r) PROVE (p0 \in deleted' => DeletedProduct(p0)') /\ comments'[p0] = comments[p0]
  BY <1>a, <1>26 DEF Report, Finish
<1>27. ASSUME NEW r \in Request, Fail(r) PROVE (p0 \in deleted' => DeletedProduct(p0)') /\ comments'[p0] = comments[p0]
  BY <1>a, <1>27 DEF Fail, ErrorShown, Finish
<1>28. CASE UNCHANGED vars
  BY <1>a, <1>28 DEF vars
<1>29. QED
  BY <1>1, <1>2, <1>3, <1>4, <1>5, <1>6, <1>7, <1>8, <1>9, <1>10, <1>11, <1>12, <1>13, <1>14, <1>15, <1>16, <1>17, <1>18, <1>19, <1>20, <1>21, <1>22, <1>23, <1>24, <1>25, <1>26, <1>27, <1>28
  DEF Next, NewRequest, DirectWrite, HandlerStep

\* A deployment followed by another of its commit is final.
LEMMA SupersededRests ==
  ASSUME ProjectsInv, [Next]_vars, NEW d0 \in Deployment, Superseded(d0)
  PROVE Superseded(d0)' /\ dep'[d0] = dep[d0]
<1> USE NoneAssumption, StatusAssumption, StateAssumption
        DEF PC, Deployment, DesignState, TaskStatus, products, work, rows,
            history, Exists, Recorded, RowTypes, HandlerTypes, RequestTypes, Holds, At, Superseded
<1>a. RowTypes /\ HandlerTypes /\ RequestTypes
  BY DEF ProjectsInv, TypeOK
<1>1. ASSUME NEW r \in Request, NEW p \in Product, UpdateProduct(r, p) PROVE Superseded(d0)' /\ dep'[d0] = dep[d0]
  BY <1>a, <1>1 DEF UpdateProduct, Serve
<1>2. ASSUME NEW r \in Request, NEW f \in Form, Submit(r, f) PROVE Superseded(d0)' /\ dep'[d0] = dep[d0]
  BY <1>a, <1>2 DEF Submit, Begin
<1>3. ASSUME NEW r \in Request, NEW p \in Product, CreateProduct(r, p) PROVE Superseded(d0)' /\ dep'[d0] = dep[d0]
  BY <1>a, <1>3 DEF CreateProduct, Goto
<1>4. ASSUME NEW r \in Request, Announce(r) PROVE Superseded(d0)' /\ dep'[d0] = dep[d0]
  BY <1>a, <1>4 DEF Announce, Finish
<1>5. ASSUME NEW r \in Request, NEW p \in Product, NEW s \in Status, ChooseStatus(r, p, s) PROVE Superseded(d0)' /\ dep'[d0] = dep[d0]
  BY <1>a, <1>5 DEF ChooseStatus, Begin
<1>6. ASSUME NEW r \in Request, UpdateStatus(r) PROVE Superseded(d0)' /\ dep'[d0] = dep[d0]
  BY <1>a, <1>6 DEF UpdateStatus, Finish
<1>7. ASSUME NEW r \in Request, NEW p \in Product, SoftDelete(r, p) PROVE Superseded(d0)' /\ dep'[d0] = dep[d0]
  BY <1>a, <1>7 DEF SoftDelete, Serve
<1>8. ASSUME NEW r \in Request, NEW p \in Product, CreateQuote(r, p) PROVE Superseded(d0)' /\ dep'[d0] = dep[d0]
  BY <1>a, <1>8 DEF CreateQuote, Serve
<1>9. ASSUME NEW r \in Request, NEW p \in Product, BeginApproval(r, p) PROVE Superseded(d0)' /\ dep'[d0] = dep[d0]
  BY <1>a, <1>9 DEF BeginApproval, Begin
<1>10. ASSUME NEW r \in Request, ApproveQuote(r) PROVE Superseded(d0)' /\ dep'[d0] = dep[d0]
  BY <1>a, <1>10 DEF ApproveQuote, Goto
<1>11. ASSUME NEW r \in Request, EnterScoped(r) PROVE Superseded(d0)' /\ dep'[d0] = dep[d0]
  BY <1>a, <1>11 DEF EnterScoped, Goto
<1>12. ASSUME NEW r \in Request, SetScoped(r) PROVE Superseded(d0)' /\ dep'[d0] = dep[d0]
  BY <1>a, <1>12 DEF SetScoped, Finish
<1>13. ASSUME NEW r \in Request, NEW a \in Artifact, AddDesign(r, a) PROVE Superseded(d0)' /\ dep'[d0] = dep[d0]
  BY <1>a, <1>13 DEF AddDesign, Serve
<1>14. ASSUME NEW r \in Request, NEW a \in Artifact, NEW v \in {"approved", "rejected"},
             BeginReview(r, a, v) PROVE Superseded(d0)' /\ dep'[d0] = dep[d0]
  BY <1>a, <1>14 DEF BeginReview, Begin
<1>15. ASSUME NEW r \in Request, ReviewDesign(r) PROVE Superseded(d0)' /\ dep'[d0] = dep[d0]
  BY <1>a, <1>15 DEF ReviewDesign, Finish
<1>16. ASSUME NEW r \in Request, NEW p \in Product, FindForComment(r, p) PROVE Superseded(d0)' /\ dep'[d0] = dep[d0]
  BY <1>a, <1>16 DEF FindForComment, Begin
<1>17. ASSUME NEW r \in Request, StoreComment(r) PROVE Superseded(d0)' /\ dep'[d0] = dep[d0]
  BY <1>a, <1>17 DEF StoreComment, Finish
<1>18. ASSUME NEW r \in Request, NEW k \in Task, CreateTask(r, k) PROVE Superseded(d0)' /\ dep'[d0] = dep[d0]
  BY <1>a, <1>18 DEF CreateTask, Serve
<1>19. ASSUME NEW r \in Request, NEW k \in Task, DeleteTask(r, k) PROVE Superseded(d0)' /\ dep'[d0] = dep[d0]
  BY <1>a, <1>19 DEF DeleteTask, Serve
<1>20. ASSUME NEW r \in Request, NEW k \in Task, NEW s \in TaskStatus, FindTask(r, k, s) PROVE Superseded(d0)' /\ dep'[d0] = dep[d0]
  BY <1>a, <1>20 DEF FindTask, Begin
<1>21. ASSUME NEW r \in Request, UpdateTask(r) PROVE Superseded(d0)' /\ dep'[d0] = dep[d0]
  BY <1>a, <1>21 DEF UpdateTask, Finish
<1>22. ASSUME NEW r \in Request, NEW d \in Deployment,
             NEW c \in Commit \cup {Unabbreviated}, RecordDeployment(r, d, c) PROVE Superseded(d0)' /\ dep'[d0] = dep[d0]
  BY <1>a, <1>22 DEF RecordDeployment, Serve
<1>23. ASSUME NEW r \in Request, NEW c \in Commit, NEW s \in State, ReceivePush(r, c, s) PROVE Superseded(d0)' /\ dep'[d0] = dep[d0]
  BY <1>a, <1>23 DEF ReceivePush, Begin
<1>24. ASSUME NEW r \in Request, NEW d \in Deployment, FindDeployment(r, d) PROVE Superseded(d0)' /\ dep'[d0] = dep[d0]
  BY <1>a, <1>24 DEF FindDeployment, Newest
<1>25. ASSUME NEW r \in Request, FindsNoDeployment(r) PROVE Superseded(d0)' /\ dep'[d0] = dep[d0]
  BY <1>a, <1>25 DEF FindsNoDeployment, Finish
<1>26. ASSUME NEW r \in Request, Report(r) PROVE Superseded(d0)' /\ dep'[d0] = dep[d0]
  <2>1. req[r].on \in Deployment /\ req[r].input \in State /\ req[r].on # d0
    BY <1>a, <1>26 DEF Report
  <2>2. dep'[req[r].on] = [commit |-> dep[req[r].on].commit, status |-> req[r].input]
    BY <1>a, <2>1, <1>26 DEF Report
  <2>3. \A e \in Deployment : e # req[r].on => dep'[e] = dep[e]
    BY <1>a, <2>1, <1>26 DEF Report
  <2>4. \A e \in Deployment : dep'[e].commit = dep[e].commit
                               /\ (Recorded(e) => dep'[e].status # "none")
    BY <2>1, <2>2, <2>3
  <2>5. At("report", d0)' = {}
    BY <1>a, <2>1, <1>26 DEF Report, Finish
  <2>6. QED
    BY <1>a, <2>1, <2>3, <2>4, <2>5
<1>27. ASSUME NEW r \in Request, Fail(r) PROVE Superseded(d0)' /\ dep'[d0] = dep[d0]
  BY <1>a, <1>27 DEF Fail, ErrorShown, Finish
<1>28. CASE UNCHANGED vars
  BY <1>a, <1>28 DEF vars
<1>29. QED
  BY <1>1, <1>2, <1>3, <1>4, <1>5, <1>6, <1>7, <1>8, <1>9, <1>10, <1>11, <1>12, <1>13, <1>14, <1>15, <1>16, <1>17, <1>18, <1>19, <1>20, <1>21, <1>22, <1>23, <1>24, <1>25, <1>26, <1>27, <1>28
  DEF Next, NewRequest, DirectWrite, HandlerStep

\* Settled rows rest: what was deleted and what was superseded changes no more, once the
\* requests that found it before have ended.
THEOREM SettledRowsAreFinal == Spec => SettledRowsRest
<1>1. ProjectsInv /\ [Next]_vars =>
        [/\ \A k \in Task : DeletedTask(k) => DeletedTask(k)' /\ task'[k] = task[k]
         /\ \A p \in Product : DeletedProduct(p) =>
              (p \in deleted' => DeletedProduct(p)') /\ comments'[p] = comments[p]
         /\ \A d \in Deployment : Superseded(d) => Superseded(d)' /\ dep'[d] = dep[d]]_vars
  BY DeletedTaskRests, DeletedProductRests, SupersededRests
<1>2. QED
  BY ProjectsInvariant, <1>1, PTL DEF Spec, SettledRowsRest

=============================================================================
