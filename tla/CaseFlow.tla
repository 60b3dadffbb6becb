------------------------------ MODULE CaseFlow ------------------------------
(***************************************************************************)
(* From a case snapshot to its ticket and its WhatsApp reply.  Assembly    *)
(* numbers revisions of a case and announces them; CaseReadyWorker loads   *)
(* the latest snapshot, runs the pipeline (semantic cache, decision) and   *)
(* commits the new case state together with the commands it leads to;      *)
(* ToolGatewayWorker executes ticket and message commands, each inside the *)
(* transaction that consumes it.  The supervisor stops all of them when    *)
(* one exits, and an operator starts them again.                           *)
(*                                                                         *)
(* Topics are queues that hand each record over until its transaction      *)
(* commits: what EffectOnce promises and, for a poll of one record,        *)
(* Delivery implements.  The ticket simulator lives in the gateway's       *)
(* process; the ledger, the rows and the knowledge bank are in PostgreSQL. *)
(***************************************************************************)
EXTENDS Decision, Sequences, FiniteSets

CONSTANTS
  Cases, Conversations,
  ConversationOf,   \* the conversation of each case
  LastRevision,     \* bound: revisions of each case
  Readings,         \* bound: what the models may read in a snapshot
  Categories, CivilAdmin, NoCategory,
  NoCase, NoRow, NoJob, NoEntry,
  MaxFaults         \* bound: crashes, outages and timeouts

ASSUME CaseFlowAssumption ==
  /\ ConversationOf \in [Cases -> Conversations]
  /\ LastRevision \in [Cases -> Nat]
  /\ CivilAdmin \in Categories /\ NoCategory \notin Categories
  /\ NoCase \notin Cases
  /\ NoEntry \notin [category : Categories, root : Categories]
  /\ Readings \subseteq
       [kind : {"inquiry", "complaint", "other"}, category : Categories,
        root : Categories \cup {NoCategory}, complete : BOOLEAN,
        covered : BOOLEAN, correction : BOOLEAN]
  /\ Readings # {}
  /\ MaxFaults \in Nat

VARIABLES
  revision,   \* the latest snapshot of each case; 0 before the first
  reading,    \* what the models read in it
  row,        \* processing_state, category and ticket_id of each case
  ready,      \* topic cases.ready.v1
  job,        \* the snapshot the case worker has loaded
  bank,       \* the knowledge bank's entry of each case
  tickets,    \* topic commands.ticket.v1
  messages,   \* topic commands.message.v1
  ledger,     \* the WhatsApp send ledger, by idempotency key
  sends,      \* how often the message of a key reached WhatsApp
  simulated,  \* the revision the simulator holds under a case's create key
  issued,     \* how many tickets the simulator ever made for a case
  denied,     \* ticket commands the policy denied
  up,         \* whether the services run
  faults      \* bound: faults so far

caseVars == <<revision, reading, ready>>
workerVars == <<job, bank>>
ticketVars == <<tickets, simulated, issued, denied>>
messageVars == <<messages, ledger, sends>>
vars == <<caseVars, row, workerVars, ticketVars, messageVars, up, faults>>

-----------------------------------------------------------------------------
(* Messages to the citizen *)

Revisions == UNION {1 .. LastRevision[c] : c \in Cases}

(* An idempotency key names the purpose, the conversation and the revision  *)
(* (or clarification round): never the case.                                *)
Keys ==
  {"status-inq", "dup-ticket", "ticket-receipt"} \X Conversations \X Revisions
    \cup {"clarification"} \X Conversations \X {1}

(* What a text says, about which case's ticket, of which category.          *)
Texts ==
  [says : {"unknown", "linked", "receipt", "where", "what"},
   about : Cases \cup {NoCase}, category : Categories \cup {NoCategory}]

Rows == [status : {"SENT", "DELIVERY_UNKNOWN"}, text : Texts]

ASSUME NoRowAssumption == NoRow \notin Rows

Message(c, purpose, n, says, about, category) ==
  [case |-> c,
   key |-> <<purpose, ConversationOf[c], n>>,
   text |-> [says |-> says, about |-> about, category |-> category]]

(* The worker's transaction has updated the row of case c and not ended:    *)
(* assembly and the gateway wait with theirs.                               *)
RowLocked(c) ==
  job # NoJob /\ job.case = c /\ job.marked /\ job.revision = revision[c]

Fault == faults < MaxFaults /\ faults' = faults + 1

GoDownKeepingTickets == up' = FALSE /\ job' = NoJob /\ UNCHANGED simulated

(* One service exits, the supervisor stops the others: what they hold in    *)
(* memory is gone, open transactions roll back.                             *)
GoDown ==
  /\ up' = FALSE
  /\ job' = NoJob
  /\ simulated' = [c \in Cases |-> 0]

Init ==
  /\ revision = [c \in Cases |-> 0]
  /\ reading = [c \in Cases |-> CHOOSE r \in Readings : TRUE]
  /\ row = [c \in Cases |->
       [state |-> "NONE", category |-> NoCategory, ticket |-> 0]]
  /\ ready = <<>> /\ tickets = <<>> /\ messages = <<>>
  /\ job = NoJob
  /\ bank = [c \in Cases |-> NoEntry]
  /\ ledger = [k \in Keys |-> NoRow]
  /\ sends = [k \in Keys |-> 0]
  /\ simulated = [c \in Cases |-> 0]
  /\ issued = [c \in Cases |-> 0]
  /\ denied = {}
  /\ up = TRUE
  /\ faults = 0
-----------------------------------------------------------------------------
(* Updates of cases *)
Marked(c, state) == [row EXCEPT ![c].state = state]
Decided(c, state, category) ==
  [row EXCEPT ![c].state = state, ![c].category = category]
Ticketed(c, number) ==
  [row EXCEPT ![c].state = "TICKETED", ![c].ticket = number]

(* Assembly commits the next revision of a case. *)

Assemble(c) ==
  /\ up
  /\ revision[c] < LastRevision[c]
  /\ ~RowLocked(c)
  /\ revision' = [revision EXCEPT ![c] = @ + 1]
  /\ \E r \in Readings : reading' = [reading EXCEPT ![c] = r]
  /\ row' = Marked(c, "READY")
  /\ ready' = Append(ready, <<c, revision[c] + 1>>)
  /\ UNCHANGED <<workerVars, ticketVars, messageVars, up, faults>>

-----------------------------------------------------------------------------
(* The pipeline, on the job's snapshot; every operator takes the job j      *)
(* and what the semantic cache answered, look.                              *)

Banked == {c \in Cases : bank[c] # NoEntry}

(* A text is new to the bank, the same incident as an entry, or similar     *)
(* enough to an entry to reuse its analysis.                                *)
Lookups(j) ==
  [hit : {"none"}, entry : {NoCase}]
    \cup [hit : {"linked"}, entry : Banked \ {j.case}]
    \cup [hit : {"reuse"}, entry : Banked]

Read(j, look) ==
  IF look.hit = "reuse" THEN bank[look.entry].root ELSE j.reading.category

(* cases.category, as the last revision that was decided left it *)
Previous(j) == row[j.case].category

Conflicts(j, look) ==
  {[type |-> "CLASSIFICATION", left |-> previous, right |-> Read(j, look),
    consequence |-> 10, routeChanges |-> TRUE, visual |-> FALSE] :
     previous \in {Previous(j)} \ {NoCategory}}

Category(j, look) ==
  IF /\ Previous(j) # NoCategory
     /\ ~j.reading.correction
     /\ j.revision > 1
  THEN Previous(j)
  ELSE Read(j, look)

(* The authority directory has a unit for every category of the default     *)
(* jurisdiction, and no escalation is ever on offer.                        *)
Plan(j, look) ==
  Mode([complaint |-> j.reading.kind = "complaint", allowed |-> TRUE,
        severities |-> Diagnosed(Conflicts(j, look)),
        complete |-> j.reading.complete, covered |-> j.reading.covered,
        candidates |-> {}, threshold |-> 0, clarifiable |-> TRUE])

(* Outcome: the new state and category, the ticket ordered and the message  *)
(* sent, if any.                                                            *)
NoTicketFound(j) ==
  [state |-> "READY", category |-> CivilAdmin, tickets |-> <<>>,
   message |-> <<Message(j.case, "status-inq", j.revision,
                         "unknown", NoCase, NoCategory)>>]

Linked(j, look) ==
  LET category == bank[look.entry].category
  IN [state |-> "TICKETED", category |-> category, tickets |-> <<>>,
      message |-> <<Message(j.case, "dup-ticket", j.revision,
                            "linked", look.entry, category)>>]

ExecuteFirstOnly(j, category) ==
  [state |-> "TICKETED", category |-> category,
   tickets |-> IF j.revision = 1 THEN <<<<j.case, 1>>>> ELSE <<>>,
   message |-> <<Message(j.case, "ticket-receipt", j.revision,
                         "receipt", j.case, category)>>]

Execute(j, category) ==
  [state |-> "TICKETED", category |-> category,
   tickets |-> <<<<j.case, j.revision>>>>,
   message |-> <<Message(j.case, "ticket-receipt", j.revision,
                         "receipt", j.case, category)>>]

(* Each REQUEST_CLARIFICATION starts a session of its own, at round 1. *)
Clarify(j, category) ==
  [state |-> "WAITING_CLARIFICATION", category |-> category, tickets |-> <<>>,
   message |-> <<IF j.reading.complete
                 THEN Message(j.case, "clarification", 1,
                              "what", NoCase, NoCategory)
                 ELSE Message(j.case, "clarification", 1,
                              "where", NoCase, category)>>]

Reject(category) ==
  [state |-> "REJECTED", category |-> category, tickets |-> <<>>,
   message |-> <<>>]

Outcome(j, look) ==
  IF j.reading.kind = "inquiry" THEN NoTicketFound(j)
  ELSE IF look.hit = "linked" THEN Linked(j, look)
  ELSE CASE Plan(j, look) = "EXECUTE" -> Execute(j, Category(j, look))
         [] Plan(j, look) = "REQUEST_CLARIFICATION" -> Clarify(j, Category(j, look))
         [] OTHER -> Reject(Category(j, look))

BankAlways(j, look) ==
  [bank EXCEPT ![j.case] =
    [category |-> Category(j, look), root |-> Category(j, look)]]

(* record_case commits on a connection of its own, before the worker does. *)
BankAfter(j, look) ==
  IF Outcome(j, look).tickets = <<>> THEN bank
  ELSE [bank EXCEPT ![j.case] =
         [category |-> Category(j, look),
          root |-> IF look.hit # "reuse" /\ j.reading.root # NoCategory
                   THEN j.reading.root ELSE Category(j, look)]]

-----------------------------------------------------------------------------
(* CaseReadyWorker *)

(* The event of a revision that is no longer the latest is only audited. *)
SkipStale ==
  /\ up /\ job = NoJob /\ ready # <<>>
  /\ Head(ready)[2] # revision[Head(ready)[1]]
  /\ ready' = Tail(ready)
  /\ UNCHANGED <<revision, reading, row, workerVars, ticketVars, messageVars, up, faults>>

LoadLatest ==
  /\ up /\ job = NoJob /\ ready # <<>>
  /\ LET c == Head(ready)[1] IN
       job' = [case |-> c, revision |-> revision[c], reading |-> reading[c],
                 marked |-> FALSE]
  /\ UNCHANGED <<caseVars, row, bank, ticketVars, messageVars, up, faults>>

LoadSnapshot ==
  /\ up /\ job = NoJob /\ ready # <<>>
  /\ LET c == Head(ready)[1] IN
       /\ Head(ready)[2] = revision[c]
       /\ job' = [case |-> c, revision |-> revision[c], reading |-> reading[c],
                 marked |-> FALSE]
  /\ UNCHANGED <<caseVars, row, bank, ticketVars, messageVars, up, faults>>

(* The update that locks the row, if assembly has not overtaken the job.    *)
MarkAnalyzing ==
  /\ up /\ job # NoJob /\ ~job.marked
  /\ job' = [job EXCEPT !.marked = TRUE]
  /\ UNCHANGED <<caseVars, row, bank, ticketVars, messageVars, up, faults>>

CommitUnguarded ==
  /\ up /\ job # NoJob /\ job.marked
  /\ \E look \in Lookups(job) :
       LET out == Outcome(job, look) IN
       /\ row' = Decided(job.case, out.state, out.category)
       /\ tickets' = tickets \o out.tickets
       /\ messages' = messages \o out.message
       /\ bank' \in {bank, BankAfter(job, look)}
  /\ ready' = Tail(ready)
  /\ job' = NoJob
  /\ UNCHANGED <<revision, reading, simulated, issued, denied, ledger, sends, up, faults>>

(* The updates of the case are guarded by the revision, the commands are    *)
(* not; an error of the knowledge bank is swallowed.                        *)
CommitResult ==
  /\ up /\ job # NoJob /\ job.marked
  /\ \E look \in Lookups(job) :
       LET out == Outcome(job, look) IN
       /\ row' = IF job.revision = revision[job.case]
                 THEN Decided(job.case, out.state, out.category)
                 ELSE row
       /\ tickets' = tickets \o out.tickets
       /\ messages' = messages \o out.message
       /\ bank' \in {bank, BankAfter(job, look)}
  /\ ready' = Tail(ready)
  /\ job' = NoJob
  /\ UNCHANGED <<revision, reading, simulated, issued, denied, ledger, sends, up, faults>>

(* The worker dies before its commit, or the commit fails: what record_case *)
(* committed stays.                                                         *)
CaseWorkerFails ==
  /\ up /\ job # NoJob
  /\ Fault
  /\ \/ bank' = bank
     \/ job.marked /\ \E look \in Lookups(job) : bank' = BankAfter(job, look)
  /\ GoDown
  /\ UNCHANGED <<caseVars, row, tickets, issued, denied, messageVars>>

-----------------------------------------------------------------------------
(* ToolGatewayWorker: ticket commands *)

(* The create key is the case's; the payload hash covers the revision. *)
Conflicting(c, r) == simulated[c] \notin {0, r}

(* The number of the ticket that create_ticket returns *)
Receipt(c) == IF simulated[c] = 0 THEN issued[c] + 1 ELSE issued[c]

CreateTicketForLatest ==
  /\ up /\ tickets # <<>>
  /\ LET c == Head(tickets)[1]
         r == Head(tickets)[2] IN
       /\ ~Conflicting(c, r) /\ ~RowLocked(c)
       /\ simulated' = [simulated EXCEPT ![c] = r]
       /\ issued' = [issued EXCEPT ![c] = Receipt(c)]
       /\ row' = IF r # revision[c] THEN row ELSE Ticketed(c, Receipt(c))
  /\ tickets' = Tail(tickets)
  /\ UNCHANGED <<caseVars, workerVars, denied, messageVars, up, faults>>

CreateTicket ==
  /\ up /\ tickets # <<>>
  /\ LET c == Head(tickets)[1]
         r == Head(tickets)[2] IN
       /\ ~Conflicting(c, r) /\ ~RowLocked(c)
       /\ simulated' = [simulated EXCEPT ![c] = r]
       /\ issued' = [issued EXCEPT ![c] = Receipt(c)]
       /\ row' = Ticketed(c, Receipt(c))
  /\ tickets' = Tail(tickets)
  /\ UNCHANGED <<caseVars, workerVars, denied, messageVars, up, faults>>

(* OPA does not answer: the client denies, and the command is consumed. *)
DenyTicket ==
  /\ up /\ tickets # <<>> /\ ~RowLocked(Head(tickets)[1])
  /\ Fault
  /\ row' = Marked(Head(tickets)[1], "BLOCKED")
  /\ denied' = denied \cup {Head(tickets)}
  /\ tickets' = Tail(tickets)
  /\ UNCHANGED <<caseVars, workerVars, simulated, issued, messageVars, up>>

(* reconcile_create raises IdempotencyConflictError, which nothing accepts. *)
TicketConflict ==
  /\ up /\ tickets # <<>>
  /\ Conflicting(Head(tickets)[1], Head(tickets)[2])
  /\ GoDown
  /\ UNCHANGED <<caseVars, row, bank, tickets, issued, denied, messageVars, faults>>

(* The gateway dies after the ticket was made and before its commit. *)
GatewayDiesAfterTicket ==
  /\ up /\ tickets # <<>>
  /\ ~Conflicting(Head(tickets)[1], Head(tickets)[2])
  /\ Fault
  /\ issued' = [issued EXCEPT ![Head(tickets)[1]] = Receipt(Head(tickets)[1])]
  /\ GoDown
  /\ UNCHANGED <<caseVars, row, bank, tickets, denied, messageVars>>

-----------------------------------------------------------------------------
(* ToolGatewayWorker: message commands, through the send ledger *)

Consumed ==
  /\ messages' = Tail(messages)
  /\ UNCHANGED <<caseVars, row, workerVars, ticketVars, up>>

LedgerHas(text) ==
  /\ ledger[Head(messages).key] # NoRow
  /\ ledger[Head(messages).key].text = text

(* record_pending_send finds the key: the stored receipt is returned. *)
ReplaySend ==
  /\ up /\ messages # <<>>
  /\ LedgerHas(Head(messages).text)
  /\ Consumed
  /\ UNCHANGED <<ledger, sends, faults>>

(* The head of the topic repeats a key with another text. *)
Poisoned ==
  /\ messages # <<>>
  /\ ledger[Head(messages).key] # NoRow
  /\ ~LedgerHas(Head(messages).text)

(* IdempotencyConflictError of the ledger, which nothing accepts *)
SendConflict ==
  /\ up /\ Poisoned
  /\ GoDown
  /\ UNCHANGED <<caseVars, row, bank, tickets, issued, denied, messageVars, faults>>

UnsentAnyway == messages # <<>>

Unsent == messages # <<>> /\ ledger[Head(messages).key] = NoRow

Reached == sends' = [sends EXCEPT ![Head(messages).key] = @ + 1]

Recorded(status) ==
  ledger' = [ledger EXCEPT ![Head(messages).key] =
              [status |-> status, text |-> Head(messages).text]]

Send ==
  /\ up /\ Unsent
  /\ Reached
  /\ Recorded("SENT")
  /\ Consumed
  /\ UNCHANGED faults

(* TimeoutError: it may or may not have arrived, and is not sent again. *)
SendTimesOut ==
  /\ up /\ Unsent
  /\ Fault
  /\ Reached \/ UNCHANGED sends
  /\ Recorded("DELIVERY_UNKNOWN")
  /\ Consumed

(* An error answer is re-raised, an invalid answer too, and a crash comes   *)
(* before the commit: the ledger row rolls back with the transaction.       *)
SendFails ==
  /\ up /\ Unsent
  /\ Fault
  /\ Reached \/ UNCHANGED sends
  /\ GoDown
  /\ UNCHANGED <<caseVars, row, bank, tickets, issued, denied, messages, ledger>>

(* run_all_workers.py is started again. *)
Restart ==
  /\ ~up
  /\ up' = TRUE
  /\ UNCHANGED <<caseVars, row, workerVars, ticketVars, messageVars, faults>>

-----------------------------------------------------------------------------
CaseStep == SkipStale \/ LoadSnapshot \/ MarkAnalyzing \/ CommitResult
TicketStep == CreateTicket \/ TicketConflict
MessageStep == ReplaySend \/ Send \/ SendConflict

Next ==
  \/ \E c \in Cases : Assemble(c)
  \/ CaseStep \/ CaseWorkerFails
  \/ TicketStep \/ DenyTicket \/ GatewayDiesAfterTicket
  \/ MessageStep \/ SendTimesOut \/ SendFails
  \/ Restart

Spec == Init /\ [][Next]_vars

(* The workers poll for ever, and the services are started again. *)
Fairness ==
  /\ WF_vars(CaseStep) /\ WF_vars(TicketStep) /\ WF_vars(MessageStep)
  /\ WF_vars(Restart)

FairSpec == Spec /\ Fairness
-----------------------------------------------------------------------------
(* Properties *)

RowStates ==
  {"NONE", "READY", "TICKETED", "WAITING_CLARIFICATION", "REJECTED", "BLOCKED"}
Decisions == {d \in Cases \X Revisions : d[2] <= LastRevision[d[1]]}

(* Every variable keeps the shape the tables, topics and processes give it. *)
TypeOK ==
  /\ revision \in [Cases -> Nat]
  /\ \A c \in Cases : revision[c] <= LastRevision[c]
  /\ reading \in [Cases -> Readings]
  /\ row \in [Cases -> [state : RowStates, category : Categories \cup {NoCategory},
                        ticket : Nat]]
  /\ ready \in Seq(Decisions) /\ tickets \in Seq(Decisions)
  /\ job \in {NoJob} \cup
       [case : Cases, revision : Revisions, reading : Readings, marked : BOOLEAN]
  /\ bank \in [Cases -> {NoEntry} \cup [category : Categories, root : Categories]]
  /\ messages \in Seq([case : Cases, key : Keys, text : Texts])
  /\ ledger \in [Keys -> {NoRow} \cup Rows]
  /\ sends \in [Keys -> Nat]
  /\ simulated \in [Cases -> {0} \cup Revisions]
  /\ issued \in [Cases -> Nat]
  /\ denied \subseteq Decisions
  /\ up \in BOOLEAN
  /\ faults \in 0 .. MaxFaults

Elements(s) == {s[i] : i \in 1 .. Len(s)}

(* The text was told, or is on its way to the citizen. *)
Told(text) ==
  \/ \E m \in Elements(messages) : m.text = text
  \/ \E k \in Keys : ledger[k] # NoRow /\ ledger[k].text = text

Ordered(c) == \E r \in Revisions : <<c, r>> \in Elements(tickets)
Denied(c) == \E r \in Revisions : <<c, r>> \in denied
Backed(c) == Ordered(c) \/ issued[c] > 0 \/ Denied(c)

(* A citizen who is told that a case has a ticket is told the truth, or     *)
(* will be: the command is on its topic, the ticket was made, or the policy *)
(* denied it.  Reply and command travel on two topics and are executed in   *)
(* any order, through crashes of either worker.                             *)
PromisesAreBacked ==
  \A text \in Texts :
    text.says = "receipt" /\ Told(text) => Backed(text.about)

(* Cases whose ticket a citizen was told of as the one of his own report,   *)
(* although it is neither ordered nor made nor denied.                      *)
FalseLinks ==
  {c \in Cases : /\ ~Backed(c)
                 /\ \E text \in Texts :
                      text.says = "linked" /\ text.about = c /\ Told(text)}

(* The knowledge bank, which commits apart from the case, is ahead of it    *)
(* only for a job that died in between: each fault makes at most one case   *)
(* others are linked to without a ticket, however many are linked, and      *)
(* swallowed errors and stale results make none.                            *)
LinksFollowCommits == Cardinality(FalseLinks) <= faults

(* No ticket gets lost between the simulator and the case: the last ticket  *)
(* made for a case is the one its row names, unless a command that will set *)
(* it is pending, or was denied when it came again; and always when the     *)
(* running simulator holds the create key.                                  *)
TicketsAreRecorded ==
  \A c \in Cases :
    /\ ~Ordered(c) /\ ~Denied(c) => row[c].ticket = issued[c]
    /\ simulated[c] # 0 => row[c].ticket = issued[c]

(* A message reaches WhatsApp more often than its ledger row accounts for   *)
(* only by faults: redelivered commands and equal keys send nothing.        *)
SendsAreLedgered ==
  \A k \in Keys : sends[k] <= faults + (IF ledger[k] = NoRow THEN 0 ELSE 1)

(* A key whose outcome is on record, DELIVERY_UNKNOWN included, is never    *)
(* sent again, and the record stays (PRD 42: no blind resend).              *)
LedgerRowsAreFinal ==
  [][\A k \in Keys : ledger[k] # NoRow =>
       ledger'[k] = ledger[k] /\ sends'[k] = sends[k]]_vars

(* A job whose case moved on while it was analysed changes no case, however *)
(* it ends.                                                                 *)
StaleResultsDiscarded ==
  [][job # NoJob /\ job' = NoJob /\ job.revision # revision[job.case]
       => row' = row]_vars

(* What was decided about a revision stands: the state of a rejected case,  *)
(* or of one that waits for its citizen, changes only with a new revision,  *)
(* or when a ticket ordered by an older one is executed late (the gateway's *)
(* updates have no revision guard).                                         *)
DecisionsAreFinal ==
  [][\A c \in Cases :
       /\ row[c].state \in {"REJECTED", "WAITING_CLARIFICATION"}
       /\ row'[c].state # row[c].state
       => \/ revision'[c] = revision[c] + 1
          \/ /\ tickets # <<>> /\ tickets' = Tail(tickets)
             /\ Head(tickets)[1] = c /\ Head(tickets)[2] < revision[c]]_vars

(* Every event and command is handled in the end, through crashes and the   *)
(* ticket conflicts that end with the next start: or the message topic is   *)
(* stuck on a key with two texts.                                           *)
EveryCommandExecuted ==
  \/ <>Poisoned
  \/ <>[](ready = <<>> /\ tickets = <<>> /\ messages = <<>>)

(* docs/PRD.md:941: a poison event is quarantined, so the replies behind it *)
(* are sent.  Refuted: keys do not name the case, two texts meet under one, *)
(* and the gateway stops at the second on every start.                      *)
EveryMessageHandled == <>[](messages = <<>>)

(* docs/PRD.md:708: revisions and restarts do not change the create key, so *)
(* a case gets one ticket.  Refuted: the simulator forgets with its process *)
(* what it did under a key.                                                 *)
OneTicketPerCase == \A c \in Cases : issued[c] <= 1

=============================================================================
