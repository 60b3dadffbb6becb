# Kawal: TLA+ models, checks and proofs

Kawal takes citizen messages from WhatsApp and replayed datasets, assembles
them into cases, decides what to do about each case and carries the decision
out: a ticket, a clarification question, an escalation. The program is a set of
processes that share a PostgreSQL database and a Redpanda topic, each of which may
stop anywhere, be started again, or overlap with a second copy of itself. This
directory models the parts of it whose correctness is a matter of order,
interleaving and failure; TLC checks them on small instances and TLAPS proves
the safety properties for every instance.

Everything is translated from `src/`; line references are in `PROJECT.json`
(`map`), which also lists the hazards that the properties are aimed at and the
places where a document promises something the code does not do (`findings`).

## The system

| Component | Code | State it keeps | Operations | Modelled |
|---|---|---|---|---|
| Conversation assembly | `services/intake/{assembly,service,worker}.py` | `raw_messages`, `assembly_timers`, `message_case_links`, `cases`, `case_snapshots`, `outbox` rows of `case.ready.v1` | accept (ingest + timer upsert), claim, assemble, finalize | `Assembly`, `CaseLog` |
| Outbox relay | `services/outbox/relay.py`, `core/persistence.py` | `outbox` with its lease columns | claim, publish, mark published, reconcile leases | `Delivery`, `EffectOnce` |
| Broker and inbox consumer | `services/outbox/{broker,consumer}.py` | topic, consumer group offset, `inbox` | publish, poll, inbox + handler in one transaction, commit offset | `Delivery`, `EffectOnce` |
| Ticket client | `services/reliability/*.py` | breaker, dead letter queue, the call in progress | create (retry, reconcile), update, transfer, close | `TicketClient`, `CircuitBreaker` |
| Ticket simulator | `services/simulator/store.py` | operations by key, tickets, fault counter | create, update, transfer, close, lookup | `TicketSimulator` |
| Case processing | `services/core/{worker,pipeline,decision}.py` | case state, category, commands | handle `case.ready.v1`: load, decide, commit under a revision guard | `CaseFlow`, `Decision` |
| Tool gateway worker | `services/core/gateway_worker.py`, `escalation.py` | `cases` (state, ticket), `audit_traces` (executions, denials) | ticket, message, escalation, denial | `CaseFlow`, `Egress` |
| Send ledger | `services/intake/{send_ledger,openwa}.py` | `whatsapp_send_ledger` | pending, sent, failed, unknown | `CaseFlow`, `Clarification` |
| Semantic cache | `services/intelligence/semantic_cache.py` | `case_knowledge_bank` | lookup, record | `CaseFlow` |
| Supervisor | `scripts/run_all_workers.py` | the child processes | start, stop all when one exits | `CaseFlow` |
| Clarification | `services/clarification/*.py` | sessions, rounds, questions | open, reply, expire, dispatch | `Clarification` |
| Egress batcher, model gateway | `services/core/{batcher,model_gateway}.py` | the lock, the items of a batch | submit, send a chunk, fall back, distribute | `Egress` |
| Text preparation | `services/intelligence/{chunking,ner}.py` | | cut into windows, merge spans | `Windows`, `Spans` |
| Data set splits | `services/dataset/splits.py` | | split the families, audit a data set | `Splits`, `Audit` |
| Ticket policy | `services/core/{policy,opa}.py`, `policies/policy.rego` | | allow or deny a ticket | `Policy` |
| Intake edge, attachments, machine learning, offline scripts, dashboard | see *Not modelled* | | | |

How they interact:

```
OpenWA / replay --accept--> raw_messages, timer          (one transaction)
assembly worker --claim, assemble, finalize-->           (three transactions)
   links, snapshots, case.ready.v1 row in the outbox
relay --claim, publish, mark--> topic                    (database, broker, database)
consumer --poll--> inbox + handler --commit--> offset    (broker, one transaction, broker)
   handler of cases.ready.v1: semantic cache (its own connection), decision,
      case state, commands.ticket.v1 and commands.message.v1 rows in the outbox
   handler of commands.*: policy, ticket client, OpenWA send, model escalation
```

Every arrow that is not inside one transaction is a place where a crash, a
duplicate, a late answer or a second process may fall. What is hard:

* **Assembly.** Timers are leases with a token *and* a generation; ingests change
  the generation while a worker holds the lease; workers overlap when a lease
  ends too early; statements of one transaction see what others committed
  between them (READ COMMITTED). Correct means: no stored message is left behind
  by a timer that fired, every revision announced exists, a link once made never
  changes, a quoted reply joins the case it quotes, every armed timer fires.
* **Delivery.** Publication and its mark, and effect and offset, are in different
  systems. Correct means: at most one effect per event, nothing published that
  was not sent, no offset past an unhandled record (Redpanda's may pass the rest
  of a poll), offsets never go back, and every event takes effect eventually.
* **Ticket client.** The ticket system may commit and then time out; callers may
  share a key; the breaker's answer and the report that follows it are separate
  calls. Correct means: one ticket per key, each operation applied once, a
  stored ticket's receipt returned, the half-open slot given back.
* **From case to ticket and reply.** The worker decides about a snapshot that
  assembly may overtake; its commands go out on two topics; the gateway performs
  effects outside the database inside the transaction that consumes the command,
  and a rollback forgets the rows but not the effects. Correct means: what the
  citizen is told is or becomes true, no ticket is lost to its case, a stale result
  changes nothing, a decision stands until there is a reason, no message is sent
  twice but by a fault, every command is executed in the end.
* **Clarification.** Replies, expiry, limits and failed sends meet in one session.
  Correct means: each round reaches the citizen at most once, a session ends
  for the reason it gives, nothing known is asked, late replies change nothing.
* **Egress.** Threads share one lock around a provider that may refuse, answer for
  the wrong items or break. Correct means: one call at a time, nothing forbidden
  leaves, every item has its own result, every caller gets through.
* **What runs alone.** Loops with boundaries (windows, quotas), folds whose order
  matters (spans, the audit), and one policy written in two languages.

## Modules

| Module | Lines are about | Built on |
|---|---|---|
| `CaseLog` | abstract: messages are stored, a batch of them is assigned to cases and snapshotted whole | |
| `Assembly` | ingest, timers, leases, assembly | refines `CaseLog` |
| `EffectOnce` | abstract: an event is emitted, then takes effect once | |
| `Delivery` | 2 relays, 2 consumers, fair, Redpanda, 2 events (one unprocessable, one parked), 2 records a poll, 3 faults | `DeliveryInv` (types, published rows were sent); commits skip at most the rest of a poll and never go back; refinement of `EffectOnce`; every event is applied or passed by a commit |
| `CircuitBreaker` | the breaker's methods as functions | |
| `TicketSimulator` | the ticket system's calls | |
| `TicketClient` | callers over breaker and ticket system | composes the two |
| `Decision` | `decide` and `diagnose_conflict` as functions | |
| `CaseFlow` | snapshot, pipeline, commands, gateway, ledger, restart | extends `Decision`; its topics are what `EffectOnce` promises |
| `Clarification` | one session and its dispatcher | |
| `Egress` | egress rules, model gateway, batcher, their callers | |
| `Windows`, `Spans`, `Splits`, `Audit`, `Policy` | one piece of sequential code each | |
| `Sequential` | the five, one at a time | composes them |
| `MCAssembly`, `MCDelivery`, `MCTicketClient`, `MCCaseFlow`, `MCClarification`, `MCEgress`, `MCSequential` | small instances for TLC | |
| `AssemblyProofs`, `AssemblySoloProofs`, `DeliveryProofs`, `TicketClientProofs`, `CaseFlowProofs`, `ClarificationProofs`, `EgressProofs`, `SequentialProofs` | proofs | |

Operators such as `TimerOnIngestSameGeneration` or `HandleWithoutInbox`, which stand
before the definition they vary and are used by nothing, are mutants: plausible
bugs that `PROJECT.json` pairs with the property that must catch them.

### Assembly

`received`, `link`, `timer`, `snapshots` are the tables (`raw_messages.received_at`,
`message_case_links`, `assembly_timers`, `case_snapshots`), `announced` the
`outbox` rows of `case.ready.v1`, `worker` the local state of each
`IntakeAssemblyWorker` process and `txn` the uncommitted rows of its open
transaction. `Ingest` is `accept` with the timer upsert (`TimerOnIngest` is the
`ON CONFLICT DO UPDATE`, case by case); `Redeliver` is a duplicate.
`StartPass`, `Claim` and `EndPass` are `process_due_timers`: the time is sampled
once a pass. `AssembleSelect`, `ChooseCase`, `InsertLink`, `ReadSnapshots` and
`AssembleCommit` are the statements of the assemble transaction, one action
each, and `Blocks` is the wait of `INSERT ... ON CONFLICT DO NOTHING` for a row of
another open transaction. `ReadSnapshots` reads the evidence and the revision
number of all touched cases at once, the code case by case. `Finalize` tests token
and generation; `FinalizeConflict` is the `IntakeConflictError` that ends the
process. `Crash` rolls the open transaction back.

Abstracted: contents of messages (identity, conversation, quoted message and case
key remain); case ids are the pair the uuid5 is computed from; a lease token is
named by the generation its claim creates; time is a small counter, with the
windows in its units. A `received_at` may lag its arrival by `MaxDelay`, as the
connector's timestamps do.

### Delivery

`outbox` is the state of each row (absent, free, leased, parked behind a
far-future lease, published), `relay` the local state of each
`OutboxRelayDaemon`, `log` the topic, `committed` and `owner` the consumer
group, `consumer` each `AtomicInboxConsumer`, `inbox` and `effects` what its
transactions commit. `Emit` is the business transaction; `Claim`, `Publish` /
`PublishFails`, `MarkPublished` the steps of `relay_next`; `Reconcile` the script
that releases parked rows. `Poll`, `Handle`, `Discard`, `CommitOffset` are
`consume_batch` and `process_message`; `CommitRejected` the commit of a member
that lost the partition; `ConsumerFails` a handler error that is re-raised. The
constant `Redpanda` selects the broker: on Redpanda `commit_offset` commits the
position of the whole poll, in memory it takes the offset it is given. The runs are
of Redpanda, the broker that is deployed, with two records a poll (`consume_once`
asks for ten; a second record is what a poll of one lacks); the proofs are of both
brokers and of any poll.

Abstracted: events are numbered in `created_at` order and the topic has one
partition; a lease ends when `LeaseExpires` says so, however late its holder is,
instead of after a duration; `SKIP LOCKED` gives the oldest claimable row; a
parked row stands for the far-future lease of `message.received.v1`; `Reconcile`
releases all of them. Group membership and rebalances are the external
`KafkaConsumer`; its producer may append a record twice on a retry. In memory a
"crash" of a consumer is an exception that leaves `consume_batch`. Effects of a
handler outside the database are the subject of `CaseFlow`, not of this module. The
older `OutboxRelay.dispatch_next` is not used by any process and not modelled.

### Ticket client

`operations` and `tickets` are the store's dictionaries, `breaker` the circuit
breaker, `dlq` the dead letter queue, `thread` where each caller's call is. Every
method of store, breaker and queue holds a lock and is one action; calls
interleave between them. `Call` enters (`create_ticket` reconciles first, the
others ask the breaker), `Ask` is `allow_request`, `FindReceipt`,
`FindConflict`, `FindNothing` are the outcomes of `reconcile_create` at its three
places (`lookup` before the loop, `recheck` before a later attempt,
`reconcile` after a failure), `Send` the call of the store with its outcomes
(receipt, conflict, error before the commit, timeout after it), `Succeed` and
`Fail` the report to the breaker, `Quarantine` the dead letter. One client is
shared by a thread pool in `services/evaluation/stress.py`; the gateway's process
has one thread.

Abstracted: payloads are hashes; `cooled` is the one thing time is needed for,
whether 30 seconds have run since the last failure; the failure count stops at
the threshold; fields that an update or a transfer sets are left out. The ghost
fields `stored` and `probe` of a thread are read by properties only. The
dictionaries live in memory: the restart of the process that forgets them is in
`CaseFlow`. A conflict may leave a probe slot taken (Known divergences);
`ProbeHasCaller` says that nothing else does: while no key is stored
with another caller's payload, a taken slot belongs to a caller that will report.

### Case processing and the gateway

`CaseFlow` starts where assembly ends and stops where a message has left.
`Assemble` is the commit of a revision with its event (what happens inside is
`Assembly`); `ready`, `tickets` and `messages` are the topics `cases.ready.v1`,
`commands.ticket.v1` and `commands.message.v1`. A topic is a queue whose head is
removed by the transaction that handles it: an effect in the database happens
once per event, which is what `EffectOnce` promises and `Delivery` is shown to
implement, with a poll of one record, which is what makes the order one of a
queue. With larger polls records are lost (`DeliveryLost`), and this module would
lose them too. The real topics are partitioned by tenant and case, so one queue
fixes an order between cases that the broker does not; the order of one case's
records is the partition's.

`LoadSnapshot` and `SkipStale` are the two sides of the revision check in
`CaseReadyWorker`, `MarkAnalyzing` its first update, which locks the row of the case
until the transaction ends unless assembly has overtaken it (`RowLocked`: assembly
and the gateway's updates wait), `CommitResult` the rest: the updates of the case
have a revision guard, the inserts of the commands have none, and `record_case` has
committed on its own connection before (`CaseWorkerFails` keeps either half) or has
failed, which is logged and ignored (`CommitResult` may leave the bank as it was).
`Outcome` is the pipeline: status inquiry, duplicate of a known incident,
execute, clarify, reject. What the models read in the text (kind, category,
root cause, completeness, a correction) is a member of `Readings`, whether a text
is like another an element of `Lookups`; the code computes each from the same
text, and since no property depends on their agreement they are chosen freely.
In particular a greeting may carry any category.

`CreateTicket`, `TicketConflict` and `GatewayDiesAfterTicket` are the ticket
command over the simulator, whose memory (`simulated`) goes with the process
while `issued` counts the tickets it ever made; `DenyTicket` is the OPA client that
denies what it cannot ask. `Send`, `SendTimesOut`, `SendFails`, `ReplaySend`,
`SendConflict` are `send_text` over the ledger. `GoDown` is one service that exits
and the supervisor that stops the rest; `Restart` is the operator. Nothing
restarts one service alone.

Abstracted: the ticket client's retries (here a call succeeds, conflicts, or the
process dies around it; `TicketClient` has the rest), the text of messages but for
what it says and of which case, escalation commands (the default pipeline has no
candidate task, so `Plan` never escalates; `Egress` has the handler).

### Clarification

`session`, `missing` and `image` are the `ClarificationSession`; `Questions` is
`generate_round_questions`, `AfterReply` is `submit_clarification_reply`, `Reply`
and `ReplyRaises` are `handle_citizen_reply`, which submits and then sends the next
round and whose caller keeps the old session when the send raises; `Dispatch`
sends the current round, for the first time or again. `ledger` is the connector's default ledger, in
memory: other than the one in the database it keeps a failed row. Which fields a
reply resolves is the environment's choice. Abstracted: the words of a question,
of which the list of fields remains. A list of missing fields names none twice: the
pipeline passes a single field (`pipeline.py:491`). (Of a list that did, the second
pass of `generate_round_questions` would ask the same question twice in a round.)

### Egress

`EgressAllowed` and `Named` are the egress rules and the adapter check of the
model gateway, `Submit` judges every item first, `Chunks` are the micro-batches in
order of urgency, `Acquire` and `Release` the lock of the process, `CallChunk`,
`BatchReturns`, `SingleReturns` a chunk's call, `FallBack`, `FallbackCall`,
`FallbackReturns` the single calls under the same lock, `Repeat` the second call
of the gateway's handler (a known divergence). `Breaks` is an answer that no
adapter catches: the exception leaves the `with` block. `results` remembers with
which items a result was asked for; `stray` is a ghost that notes an answer about
an item that was not asked.

### What runs alone

`Windows` is the loop of `chunk_text` over token counts. `Spans` is
`merge_overlapping_spans`, one span a step. `Splits` is
`build_stratified_family_split_map` for one category, ratios in percent (the code
has 0.7, 0.15, 0.15). `Audit` is `audit_family_splits`, one bubble a step: a text is
its normalised form, `Phrases` its six- and seven-word runs that are not all
common words, and the checks that look inside one trajectory are the flag
`flawed`. Family and split are noted with each bubble, in the code with each
trajectory: one without bubbles is a bubble of an empty text, which has no phrase
and is not compared. `Policy` is `evaluate_ticket_creation` next to the rules of
`policy.rego`, which OPA evaluates without an order, and the client that asks it.
`Sequential` starts one of the five on one input.

## Runs

| Run | Instance | Shows |
|---|---|---|
| `Assembly` | 2 workers, 1 conversation, 3 messages (one quotes another, one has a case key), lease 1, quiet 1, burst 2, clock to 4, ingest to 2, one period of crashes, delay 1 | `AssemblyInv` (types, fencing, locks, a fired timer covers every message received by then); announced revisions have snapshots; links are final |
| `AssemblySolo` | 1 worker, fair, 2 conversations, clock to 4, crashes to 2 | snapshots hold the evidence of their case; each revision adds evidence; quoted replies join their case; refinement of `CaseLog`; every armed timer fires |
| `Delivery` | 2 relays, 2 consumers, fair, Redpanda, 3 events (one unprocessable, one parked), 1 record a poll, 2 faults | `DeliveryInv` (types, published rows were sent); commits skip nothing and never go back; refinement of `EffectOnce`; every event takes effect |
| `TicketClient` | 2 threads, 5 requests over 3 keys (two payloads of one key, update with If-Match, transfer under the update's key, close), 2 attempts, threshold 2, 3 faults | operations applied once; stored tickets returned; receipts match requests; the breaker counts failures whatever reports come late; a probe slot has its caller |
| `CaseFlow` | 2 cases of one conversation, one with a second revision, 5 readings over 3 categories, 1 fault, fair | promises are backed; links follow commits but for one case a fault; tickets are recorded; sends are ledgered; stale results are discarded; decisions are final; every command is executed |
| `Clarification` | reports that lack 0, 1, 3 and 6 fields, with or without an image, expiry 1, clock to 2, 1 fault | types; ends are earned; repeats come last; rounds are sent once; late replies change nothing; known facts are not asked |
| `Egress` | 2 threads, 1 handler, batches of up to three of four items (urgent, normal, other model, personal data), chunks of 2, fair | single flight; only allowed items leave; every item has its result; every caller ends |
| `Sequential` | texts of up to 9 tokens, up to 3 spans, up to 12 families, data sets of up to 3 bubbles of 4 texts in 3 splits, 64 questions over a directory of three entries | phrases stay whole; merging is faithful; shares are kept; the audit is exact; the two policies agree |
| `AssemblyStranded` | 1 finding | a message outside the sampled window, inside the claimed generation, is never assembled |
| `DeliveryLost` | 1 finding | with several records a poll on Redpanda, the first commit covers records that then fail |
| `CasePoison` | 1 finding | two texts meet under one key, the gateway exits at the second on every start, the replies behind it stay |
| `CaseTwoTickets` | 1 finding | the gateway dies between ticket and commit, and the restarted simulator makes a second ticket under the same key |

A type invariant that a run does not list is a conjunct of the run's invariant
(`AssemblyInv`, `DeliveryInv`) or is proved only (`TicketClient`, `CaseFlow`,
`Egress`, `Windows`): TLC evaluates every state of those runs anyway, and the
theorem says more than the instance.

Why the bounds are enough. Each hazard needs few actors: one stale process and
one current one, one message early and one late, one record behind another, one
case overtaken and one beside it. The constants are the smallest for which these
cases occur (lease as long as the quiet window so that it ends during an assembly;
an ingest deadline before the end of the clock so that everything after it can
drain; faults enough to reach the threshold and to time out once more; a report
of six fields because three rounds of two run out with it; four batch items
because a chunk of two may mix what another forbids). The bounds are named in the
modules: `MaxTime`, `LastIngest`, `LastFault`, `MaxDelay`, `MaxFaults`,
`LastRevision`, `Readings`, `Batches`, `MissingLists`, `DataSets`. `TicketClient` counts two
threads and two attempts because a third repeats the second; the proofs lift the
safety properties to every instance. Symmetry is used over workers and threads,
only in runs of safety properties.

Deadlock is checked except where the system really stops: once every event is
relayed and handled (`Delivery`), once every revision has been assembled and every
command executed (`CaseFlow`), once every caller has returned (`Egress`), at the
end of a loop (`Sequential`). The models have no step for empty polls. The workers
of `Assembly` and the callers of `TicketClient` can always start another pass or
call, and a clarification session accepts replies for ever.

### Fairness

`Assembly!FairSpec`: time passes (`WF` of `Tick`) and a worker that can take a
step takes it, including being started again after it exits, which the operator of
`run_all_workers.py` or the container's restart policy does. Ingests and
crashes are never forced, and crashes stop at `LastFault`: with crashes for ever
nothing fires. `Delivery` assumes the same of its relays and consumers, that leases
end, and that faults are finitely many (`MaxFaults`). `CaseFlow` assumes that the
case worker, the gateway's ticket consumer and its message consumer each take a
step they can take (each is a loop of its own), and `Restart`; faults are finitely
many. `Egress` assumes that a thread that can step does, which includes that a call
ends: the adapters have a timeout; the lock need not be fair, since every caller
sends finitely many chunks. None assumes anything of the order in which processes
run, and weak fairness is all they need. `EveryEventSettled` excludes the events
whose handler always fails (`Unprocessable`) and those parked behind a far-future
lease, which only the operator's script releases. `EveryCommandExecuted` says what
the code gives: everything is executed, *or* the message topic is stuck on a key
with two texts, which `CasePoison` shows to happen. `Clarification` and
`Sequential` state no fairness: nothing obliges a citizen to reply.

## Proofs

TLAPS proves, from the constants' assumptions (each module's `ASSUME`s, which TLC
evaluates in the runs), for every value of the constants:

* `AssemblyProofs`. `AssemblyInvariant`, the inductive invariant, and from it
  `AssemblyTypeCorrect`, `FiredTimersCoverReceived`, `LinksNeverChange`,
  `AnnouncementsMatchSnapshots`. A fired timer covers what was received *because*
  a worker whose token and generation are still the timer's has missed no ingest
  since its claim (`HolderMissesNothing`), which rests on every ingest changing
  the generation (`ClaimsAreFenced`) and on the exclusive row locks of links that
  are not committed yet (`LinkRowsAreExclusive`).
* `AssemblySoloProofs`. With one worker (`Workers` a singleton) what the
  transaction has read is still current when it commits (`SoloInvariant`), hence
  `SnapshotsHoldEvidence`, `RevisionsGrow` (the batch of a transaction is unlinked, so
  no snapshot has any of it yet), `QuotesTakePrecedence` and the refinement
  `AssemblyImplementsCaseLog`. With two workers these fail (Known divergences).
* `DeliveryProofs`. `DeliveryInvariant`: every published row and every busy
  consumer's records are on the topic, the inbox says exactly what has taken effect, and the
  owner of the partition is never behind the committed offset (`OwnerIsAhead`).
  From it `PublishedRowsWereSent`, `OffsetsNeverGoBack`, `DeliveryAppliesOnce`
  (the refinement of `EffectOnce`). A second invariant, `BatchInv`, says what a
  consumer has left behind it: every record is done or in the same poll as one that
  is (`Covered`), because a consumer commits only after a record it handled. Hence
  `CommitsSkipLessThanAPoll`, for both brokers and polls of any size. It is as much
  as the code gives: on Redpanda the rest of a poll may be skipped (`DeliveryLost`).
* `TicketClientProofs`. `ClientInvariant`: the key of every ticket is known to the
  store (so a create of an unknown key cannot make its second ticket), revisions
  count operations, and a create whose ticket is stored is past its last send and
  will find its own operation. From it `KeysMakeOneTicket`, `OperationsCounted`,
  `StoredCallsReturn`, `ReceiptsAreOwn`, `BreakerIsSound`, `ClientTypeCorrect`.
  `SlotIsHeld`: the half-open slot has one holder, a call still under way that will
  report to the breaker. Its exception is exact: only the conflict of a contested
  key raises past the code that gives the slot back.
* `CaseFlowProofs`. `CaseFlowInvariant` has four parts besides the types. `Order`:
  the loaded job is the head of its topic, every event and every ticket command
  is on its topic once and never on both, is of a revision that exists, and keeps
  its case from being closed. `Accounts`: what the running simulator holds under
  a key is on the row. `Promises`: receipts told are backed, and the cases
  without a ticket that entries of the bank name, or links told, are no more than the
  faults: only a job that dies leaves one. `SendsAreLedgered`. Without `Order` a redelivered event could
  order a ticket after its case was rejected, and none of the others would be
  inductive. From them `ReceiptsAreBacked`, `LinksAreBacked`,
  `TicketsReachTheirCase`, `SendsAreAccounted`, `LedgerRowsStay`,
  `StaleResultsChangeNothing`, `DecisionsStand`.
  Two more theorems say how far the two findings about this component go.
  `RevisionsHaveOneTicket`: a case has at most one ticket per revision plus one per
  fault (each revision still waits or has had its ticket, and only a gateway that
  dies leaves both the ticket and the command). A second ticket needs no fault: a
  second revision's command conflicts, the services stop, and after the restart the
  simulator no longer knows the first. `OnlyClarificationsPoison`: where every
  conversation has one case, only a clarification can meet another text under its
  key, since its round starts again at 1; the other keys count revisions (`KeysInv`).
* `ClarificationProofs`. `ClarificationInvariant`: a row on record holds what its
  round asks, rounds after the first are on record before the session has them.
  `RoundsAreSentOnce` and `LateRepliesAreIgnored`, whatever the questions are. About
  the questions, `RoundsInvariant`: either everything missing has been asked about
  or every round so far asked two fields that none before it asked (`Covered`). So
  three rounds that leave a fact unasked asked six others, which is why
  `SessionsEndForTheirReason` holds of reports of any length. `OldQuestionsComeLast`,
  `KnownFactsStayKnown` and `ClarificationTypeCorrect` follow. What the loops over
  the fields keep (`KeptKeeps`) is induction over data; it is done by hand, from the
  least number at which a property, written as a set of numbers, fails (`UpwardsTo`).
* `EgressProofs`. `EgressInvariant`: whoever works holds the lock, and what a
  caller holds comes from a batch of which every item was allowed before the
  first was sent. `OneCallAtATime`, `ForbiddenStays`, `CallsNameTheAdapter`. For
  `NoItemIsLost` a second invariant, `ProgressInv`: an item of the batch has its
  result or is in the chunks still to be sent. It starts from the chunks covering
  the batch: the order of urgency is a bijection of positions (`SortingLosesNothing`)
  and the cuts leave no gap (`ChunksCover`).
  The safe half of `EveryCallerEnds` is proved too: nobody ends with the lock
  (`LockIsPassedOn`), and after submission every step of a caller lowers a natural
  number that no other caller's step raises (`EveryStepCounts`), whatever the
  provider answers. Liveness adds only that a caller that can step does.
* `SequentialProofs`. For texts, spans, quotas and data sets of any size, by loop
  invariants: `PhrasesAreKept`, `WindowsAdvance`, `MergingIsFaithful`,
  `SplitsServeAll`, `SplitsKeepShares`, `AuditFindsAll` (while nothing was found
  the first split of a phrase is its only one, so remembering one is enough), and
  `GatesAgree`: for every directory and input OPA has exactly one result, the one
  of the Python evaluator.

Every invariant, action property and refinement of the passing runs is so proved,
the ones of `AssemblySolo` for one worker. Only model-checked: liveness
(`EveryTimerFires`, `EveryEventSettled`, `EveryCommandExecuted`,
`EveryCallerEnds`), since the prover has no `ENABLED`; and the
violations, for which a counterexample is the proof.

## Findings

Four places where a document promises more than the code does; each has a run
whose counterexample shows it, and `PROJECT.json` quotes the document: messages
left without a timer, records lost behind a batch commit, replies stuck behind a key
with two texts, a second ticket after a restart.

### Known divergences without a run

Met while modelling; the models have the code's behaviour and no property claims
the opposite.

* The burst limit moves: a message that comes while the timer is leased resets the
  deadline (`assembly.py:98`, `docs/PRD.md:261`).
* After a relay crash, or with two relays, younger rows of a partition are published
  first (`persistence.py:257`, `docs/PRD.md:646`).
* Two assemblies of one case that overlap read the same `MAX(revision) + 1`. The
  INSERT of the second is dropped (`ON CONFLICT DO NOTHING`, `assembly.py:293`), its
  revision is announced again, and its messages are linked but in no snapshot
  (`docs/PRD.md:269`, `271`). `SnapshotsComplete` is checked for one worker, as deployed;
  TLC finds this behaviour when it is added to the run `Assembly`.
* A report of a call admitted before the breaker opened frees the slot of the
  probe in flight (`circuit_breaker.py:71`, `80`), and a second probe is let through
  (`docs/PRD.md:958`).
* `IdempotencyConflictError` of a reconciliation inside the retry loop leaves
  `create_ticket` after it took the half-open slot and before any report
  (`client.py:64`): the breaker then denies every caller.
* A timeout that opens the breaker is undone with no cooldown when its ticket is
  found (`client.py:82`).
* The knowledge bank commits before the case (`semantic_cache.py:259`). A worker that
  dies in between leaves an entry that links another citizen to a case whose next
  revision may order no ticket (`README.md:43`); `LinksFollowCommits` allows one such
  case a fault.
* A late ticket or denial overwrites the state a newer revision was given
  (`gateway_worker.py:109`, `docs/PRD.md:473`, `646`); `DecisionsAreFinal` bounds it.
* A case is TICKETED, and its citizen told so, before the ticket exists
  (`docs/PRD.md:605`); a denied command is not scheduled again (`docs/PRD.md:532`), so the
  promise may stay unkept. `PromisesAreBacked` counts a denial as an end for this reason.
* A ticket made by a gateway that died, and denied when its command came again, is
  on no row.
* Every clarification of a conversation starts at round 1 under one key: the same
  text again is answered from the ledger and never sent.
* A reply after `expires_at` turns a resolved session into an expired one
  (`engine.py:192`). A first round whose send failed is answered from the in-memory
  ledger, never sent, and the session goes on; a later round whose send failed and
  whose questions have changed conflicts for ever. The branch "no question left, so
  resolved" is never reached.
* A denied item makes `execute_batch` raise, since a `ModelGateway` has no
  `provider` (`batcher.py:91`, docstring at 49). The gateway's handler evaluates the
  default of a `.get` eagerly and so calls the provider twice, the second time
  without the lock (`gateway_worker.py:144`). Items that name another model leave
  inside a batch whose first item names the adapter's (`batcher.py:153`); an answer about
  another chunk's item overwrites its result. A production escalation names the
  provider "local", which the OmniRoute gateway denies.
* Spans of one label that overlap stay apart when a span of another label lies
  between them (`ner.py:209`).
* `replay_to_durable_ticket` dispatches the oldest outbox row and may return the
  receipt of another fixture (`replay.py:113`).
* On the in-memory broker `max_records` consecutive records that `on_error` swallows
  are polled for ever (`broker.py:269`).

## Not modelled

* **Offline programs**: data generation, training, evaluation and export
  (`scripts/train_*`, `evaluate_*`, `generate_*`, `services/dataset`,
  `services/evaluation`, more than half of all lines). They run alone, keep no
  state between runs and consist of text templates, floating point, file output
  and validation of arguments. The two loops of them whose order matters are
  `Splits` and `Audit`.
* **Machine learning components**: inference, calibration, retrieval, lexical
  rules, geocoding. Stateless functions of a text or an image into numbers; their
  result is an input of `CaseFlow`.
* **Intake edge** (`api.py`, webhook normalisation): translation; its one state
  change is `Ingest`.
* **Attachments**: `AttachmentStore.persist` has no caller outside the tests.
* **Older paths that no process starts**: `OutboxRelay.dispatch_next`,
  `M1Store`, the in-line execution of the pipeline.
* **Dashboard and observability**: views, counters, and one upsert that nothing reads.
* **Data types** (`contracts/models.py`): the vocabulary of the models.
* Parts of modelled components that are left out are named in `PROJECT.json` and
  in the sections above.

What is left to do: `CaseFlow` with `Delivery` in place of its queues, which TLC
cannot cover in one instance today; and the ML runtime's loading and fallback
rules, should they come to keep state.
