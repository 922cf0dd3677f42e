-------------------------------- MODULE Tickets --------------------------------
(***************************************************************************)
(* Support tickets and their AI triage (modules/tickets, modules/ai).      *)
(*                                                                         *)
(* Opening a ticket starts a triage that nobody waits for: it logs the AI  *)
(* action, stores a suggested reply on the ticket, and appends a draft to  *)
(* its thread, in three awaited calls that race everything else and whose  *)
(* failure is swallowed.  A reply reads the ticket once, and later sets    *)
(* its status to pending if it was open when it was read.  Staff set the   *)
(* status at any time.  Runbooks open tickets too, without a triage.       *)
(*                                                                         *)
(* Whether the AI service answers or the built-in heuristic stands in for  *)
(* it makes no difference to what is stored.                               *)
(***************************************************************************)
CONSTANTS
  Ticket,      \* the tickets that can be opened
  OrgOf,       \* OrgOf[t]: the organisation of ticket t
  Request,     \* the requests ever made: each runs one handler
  NoTicket,    \* the request has no handler in flight
  StaffStatus  \* the statuses that staff set

ASSUME NoTicketAssumption    == NoTicket \notin Ticket
ASSUME StaffStatusAssumption == "none" \notin StaffStatus

VARIABLES
  status,      \* status[t]: "none" (no row yet) or the row's status
  resolvedAt,  \* the tickets with a resolvedAt
  suggested,   \* the tickets with an aiSuggestedReply
  drafts,      \* the tickets with a draft of the AI agent in their thread
  log,         \* log[t]: the AiActionLog row of t's triage, by humanApproved
  triage,      \* triage[t]: the next call of t's triage, or how it ended
  pc,          \* pc[r]: the next awaited call of the handler serving r
  tick,        \* tick[r]: the ticket it works on
  sawOpen,     \* sawOpen[r]: the reply read an open ticket
  ai,          \* ai[r]: the reply came with isAiDraft
  replied,     \* history: the tickets with a reply
  sent,        \* history: the tickets with a reply that came with isAiDraft
  excused,     \* history: the answered tickets that may be open: staff set them
               \* to open, or a reply died half way
  overtaken    \* history: tickets whose latest status change by staff came
               \* while a reply that had read an open ticket was in flight

rows    == <<status, resolvedAt, suggested, drafts, log>>
handler == <<pc, tick, sawOpen, ai>>
history == <<replied, sent, excused, overtaken>>
vars    == <<rows, triage, handler, history>>

Idle        == "idle"         \* the request was not made yet
Done        == "done"         \* the handler returned, threw or died
StartTriage == "startTriage"  \* create: the ticket is stored
StoreReply  == "storeReply"   \* reply, before ticketMessage.create
Approve     == "approve"      \* reply, before aiActionLog.updateMany
SetPending  == "setPending"   \* reply, before ticket.update

PC     == {Idle, Done, StartTriage, StoreReply, Approve, SetPending}
Triage == {"off", "log", "suggest", "draft", "done", "failed"}

-----------------------------------------------------------------------------

Exists(t) == status[t] # "none"

Goto(r, step) == pc' = [pc EXCEPT ![r] = step]

Release(r) ==
  /\ Goto(r, Done)
  /\ tick'    = [tick EXCEPT ![r] = NoTicket]
  /\ sawOpen' = [sawOpen EXCEPT ![r] = FALSE]
  /\ ai'      = [ai EXCEPT ![r] = FALSE]

\* A reply to t that will set it to pending.
WillSetPending(r, t) == tick[r] = t /\ sawOpen[r]

\* TicketsService.create stores the ticket ...
CreateTicket(r, t) ==
  /\ pc[r] = Idle
  /\ ~Exists(t)
  /\ status' = [status EXCEPT ![t] = "open"]
  /\ Goto(r, StartTriage)
  /\ tick' = [tick EXCEPT ![r] = t]
  /\ UNCHANGED <<resolvedAt, suggested, drafts, log, triage, sawOpen, ai, history>>

\* ... then its first message, and starts the triage without waiting for it.
BeginTriage(r) ==
  /\ pc[r] = StartTriage
  /\ triage' = [triage EXCEPT ![tick[r]] = "log"]
  /\ Release(r)
  /\ UNCHANGED <<rows, history>>

\* AutomationService.actionOpenTicket.
OpenAutomatedTicket(t) ==
  /\ ~Exists(t)
  /\ status' = [status EXCEPT ![t] = "open"]
  /\ UNCHANGED <<resolvedAt, suggested, drafts, log, triage, handler, history>>

\* Faulty: the triage goes on when its log entry was refused.
LogTriageOptional(t) ==
  /\ triage[t] = "log"
  /\ log' \in {log, [log EXCEPT ![t] = "unapproved"]}
  /\ triage' = [triage EXCEPT ![t] = "suggest"]
  /\ UNCHANGED <<status, resolvedAt, suggested, drafts, handler, history>>

\* AiService.triage: the result is logged before it is returned.
LogTriage(t) ==
  /\ triage[t] = "log"
  /\ log' = [log EXCEPT ![t] = "unapproved"]
  /\ triage' = [triage EXCEPT ![t] = "suggest"]
  /\ UNCHANGED <<status, resolvedAt, suggested, drafts, handler, history>>

\* Faulty: the continuation ends after its first call.
StoreSuggestionOnly(t) ==
  /\ triage[t] = "suggest"
  /\ suggested' = suggested \cup {t}
  /\ triage' = [triage EXCEPT ![t] = "done"]
  /\ UNCHANGED <<status, resolvedAt, drafts, log, handler, history>>

\* The continuation of create writes the suggestion ...
StoreSuggestion(t) ==
  /\ triage[t] = "suggest"
  /\ suggested' = suggested \cup {t}
  /\ triage' = [triage EXCEPT ![t] = "draft"]
  /\ UNCHANGED <<status, resolvedAt, drafts, log, handler, history>>

\* ... and the draft.
StoreDraft(t) ==
  /\ triage[t] = "draft"
  /\ drafts' = drafts \cup {t}
  /\ triage' = [triage EXCEPT ![t] = "done"]
  /\ UNCHANGED <<status, resolvedAt, suggested, log, handler, history>>

\* A call of the triage is rejected - .catch(() => undefined) - or its process dies.
TriageDies(t) ==
  /\ triage[t] \in {"log", "suggest", "draft"}
  /\ triage' = [triage EXCEPT ![t] = "failed"]
  /\ UNCHANGED <<rows, handler, history>>

\* TicketsService.reply reads the ticket.
BeginReply(r, t, isAiDraft) ==
  /\ pc[r] = Idle
  /\ Exists(t)
  /\ Goto(r, StoreReply)
  /\ tick'    = [tick EXCEPT ![r] = t]
  /\ sawOpen' = [sawOpen EXCEPT ![r] = (status[t] = "open")]
  /\ ai'      = [ai EXCEPT ![r] = isAiDraft]
  /\ UNCHANGED <<rows, triage, history>>

\* Send on the page, or POST tickets/:id/reply: an answer of one's own.
SendReply(r, t) == BeginReply(r, t, FALSE)

\* Approve & send, or the same route with isAiDraft: the page shows the button with a
\* suggestion only, the route takes the flag with any text on any ticket.
ApproveAndSend(r, t) == BeginReply(r, t, TRUE)

\* Faulty: the status is not updated.
AfterApprovalReturn(r) == Release(r)

\* Go on to ticket.update if the ticket was open when it was read.
AfterApproval(r) ==
  IF sawOpen[r] THEN Goto(r, SetPending) /\ UNCHANGED <<tick, sawOpen, ai>>
                ELSE Release(r)

StoreTheReply(r) ==
  /\ pc[r] = StoreReply
  /\ replied' = replied \cup {tick[r]}
  /\ sent' = IF ai[r] THEN sent \cup {tick[r]} ELSE sent
  /\ IF ai[r] THEN Goto(r, Approve) /\ UNCHANGED <<tick, sawOpen, ai>>
              ELSE AfterApproval(r)
  /\ UNCHANGED <<rows, triage, excused, overtaken>>

\* Faulty: the organisation is missing from the where clause.
ApprovedByAnyone(t) == {x \in Ticket : log[x] = "unapproved"}

\* The where clause of the aiActionLog.updateMany in a reply to t: all that is
\* unapproved in the organisation.
ApprovedBy(t) == {x \in Ticket : log[x] = "unapproved" /\ OrgOf[x] = OrgOf[t]}

ApproveLogs(r) ==
  /\ pc[r] = Approve
  /\ log' = [t \in Ticket |-> IF t \in ApprovedBy(tick[r]) THEN "approved" ELSE log[t]]
  /\ AfterApproval(r)
  /\ UNCHANGED <<status, resolvedAt, suggested, drafts, triage, history>>

\* Faulty: a reply resolves the ticket.
MarkResolved(r) ==
  /\ pc[r] = SetPending
  /\ status' = [status EXCEPT ![tick[r]] = "resolved"]
  /\ Release(r)
  /\ UNCHANGED <<resolvedAt, suggested, drafts, log, triage, history>>

\* Whatever the status is by now; resolvedAt is left alone.
MarkPending(r) ==
  /\ pc[r] = SetPending
  /\ status' = [status EXCEPT ![tick[r]] = "pending"]
  /\ Release(r)
  /\ UNCHANGED <<resolvedAt, suggested, drafts, log, triage, history>>

\* TicketsService.updateStatus.
UpdateStatus(t, s) ==
  /\ Exists(t)
  /\ status' = [status EXCEPT ![t] = s]
  /\ resolvedAt' = IF s = "resolved" THEN resolvedAt \cup {t} ELSE resolvedAt \ {t}
  /\ excused'    = IF s = "open" THEN excused \cup {t} ELSE excused
  /\ overtaken'  = IF \E r \in Request : WillSetPending(r, t)
                   THEN overtaken \cup {t} ELSE overtaken \ {t}
  /\ UNCHANGED <<suggested, drafts, log, triage, handler, replied, sent>>

\* The staff's buttons, and whoever of them calls the route with another status.
StaffStep(t) == \E s \in StaffStatus : UpdateStatus(t, s)

\* The next call of a handler is rejected or its process dies before it.
Fail(r) ==
  /\ pc[r] \notin {Idle, Done}
  /\ excused' = IF pc[r] \in {Approve, SetPending} THEN excused \cup {tick[r]} ELSE excused
  /\ Release(r)
  /\ UNCHANGED <<rows, triage, replied, sent, overtaken>>

-----------------------------------------------------------------------------

Init ==
  /\ status     = [t \in Ticket |-> "none"]
  /\ resolvedAt = {}
  /\ suggested  = {}
  /\ drafts     = {}
  /\ log        = [t \in Ticket |-> "none"]
  /\ triage     = [t \in Ticket |-> "off"]
  /\ pc         = [r \in Request |-> Idle]
  /\ tick       = [r \in Request |-> NoTicket]
  /\ sawOpen    = [r \in Request |-> FALSE]
  /\ ai         = [r \in Request |-> FALSE]
  /\ replied    = {}
  /\ sent       = {}
  /\ excused    = {}
  /\ overtaken  = {}

TriageStep(t) == LogTriage(t) \/ StoreSuggestion(t) \/ StoreDraft(t)

HandlerStep(r) == BeginTriage(r) \/ StoreTheReply(r) \/ ApproveLogs(r) \/ MarkPending(r)

Next ==
  \/ \E t \in Ticket :
       \/ TriageStep(t)
       \/ TriageDies(t)
       \/ OpenAutomatedTicket(t)
       \/ StaffStep(t)
       \/ \E r \in Request :
            CreateTicket(r, t) \/ SendReply(r, t) \/ ApproveAndSend(r, t)
  \/ \E r \in Request : HandlerStep(r) \/ Fail(r)

Spec == Init /\ [][Next]_vars

\* A triage that was started goes on: its calls are answered or rejected, the AI
\* service within ten seconds.
Fairness == \A t \in Ticket : WF_vars(TriageStep(t))

FairSpec == Spec /\ Fairness

-----------------------------------------------------------------------------
(* Properties *)

TypeOK ==
  /\ status     \in [Ticket -> {"none", "open", "pending"} \cup StaffStatus]
  /\ resolvedAt \in SUBSET Ticket
  /\ suggested  \in SUBSET Ticket
  /\ drafts     \in SUBSET Ticket
  /\ log        \in [Ticket -> {"none", "unapproved", "approved"}]
  /\ triage     \in [Ticket -> Triage]
  /\ pc         \in [Request -> PC]
  /\ tick       \in [Request -> Ticket \cup {NoTicket}]
  /\ sawOpen    \in [Request -> BOOLEAN]
  /\ ai         \in [Request -> BOOLEAN]
  /\ replied    \in SUBSET Ticket
  /\ sent       \in SUBSET Ticket
  /\ excused    \in SUBSET Ticket
  /\ overtaken  \in SUBSET Ticket

\* "Every AI output logged" (SECURITY.md): no suggestion and no draft is stored
\* without an entry in the AI log, whatever fails, and no draft without the
\* suggestion that the approval button sends.
AiOutputIsLogged ==
  /\ \A t \in suggested : log[t] # "none"
  /\ drafts \subseteq suggested

\* An approval in the AI log goes back to a reply in that organisation's threads:
\* somebody sent one as an AI draft, in a ticket of the same organisation.
ApprovalsStayInOrg ==
  \A t \in Ticket : log[t] = "approved" =>
    \E s \in sent : OrgOf[s] = OrgOf[t]

\* resolvedAt tells whether the ticket is resolved, unless the reply of somebody
\* who saw it open overtook the change.
ResolvedAtAgrees ==
  \A t \in Ticket \ overtaken : t \in resolvedAt <=> status[t] = "resolved"

InReply(t) ==
  \E r \in Request : pc[r] \in {Approve, SetPending} /\ WillSetPending(r, t)

\* A ticket that was answered does not stay in the queue of open tickets, unless
\* staff put it back, a reply died half way or is still at work.
AnsweredIsNotOpen ==
  \A t \in replied : status[t] = "open" =>
    t \in excused \/ InReply(t)

\* The triage ends with a draft in the thread or with a failure.
TriageSettles ==
  \A t \in Ticket : triage[t] = "log" ~> t \in drafts \/ triage[t] = "failed"

-----------------------------------------------------------------------------
(* What makes them inductive. *)

\* The triage has stored what precedes its next call.
TriageInv ==
  \A t \in Ticket :
    /\ triage[t] \in {"suggest", "draft"} => log[t] # "none"
    /\ triage[t] = "draft" => t \in suggested
    /\ triage[t] = "done" => t \in drafts

\* A handler works on a stored ticket, and the reply before its approval is sent.
\* What a reply read still holds, but for what staff did since.
HandlersInv ==
  \A r \in Request :
    /\ pc[r] \notin {Idle, Done} => tick[r] \in Ticket /\ Exists(tick[r])
    /\ pc[r] \in {Idle, Done} => tick[r] = NoTicket /\ ~sawOpen[r] /\ ~ai[r]
    /\ pc[r] = SetPending => sawOpen[r]
    /\ pc[r] = Approve => tick[r] \in sent
    /\ pc[r] = StartTriage => ~sawOpen[r]
    /\ sawOpen[r] /\ tick[r] \notin overtaken =>
         status[tick[r]] \in {"open", "pending"} /\ tick[r] \notin resolvedAt
    /\ pc[r] \in {StoreReply, Approve} /\ ~sawOpen[r] /\ status[tick[r]] = "open"
         => tick[r] \in excused

\* Tickets are not deleted.
RepliedExist == \A t \in replied : Exists(t)

TicketsInv ==
  /\ TypeOK
  /\ RepliedExist
  /\ TriageInv
  /\ HandlersInv
  /\ AiOutputIsLogged
  /\ ApprovalsStayInOrg
  /\ ResolvedAtAgrees
  /\ AnsweredIsNotOpen
=============================================================================
