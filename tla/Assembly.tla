------------------------------ MODULE Assembly ------------------------------
(***************************************************************************)
(* Conversation assembly: IntakeService.accept ingests citizen messages    *)
(* and arms a durable timer per conversation; one or more                  *)
(* IntakeAssemblyWorker processes claim due timers under a lease, link the *)
(* pending messages to cases, write a snapshot revision per touched case,  *)
(* and mark the timer fired.  Claim, assemble and finalize are three       *)
(* transactions (AssemblyWorker.process_due), so ingests, other workers,   *)
(* crashes and the lease clock interleave between them.                    *)
(*                                                                         *)
(* Ingest, claim and finalize are one action each.  The transaction of     *)
(* assemble runs at READ COMMITTED, so each of its statements sees what    *)
(* other workers committed before it: it is one action per statement, with *)
(* its uncommitted rows in txn, and it waits for the rows that another     *)
(* open transaction has inserted (ON CONFLICT DO NOTHING).                 *)
(***************************************************************************)
EXTENDS Integers, Sequences

CONSTANTS
  Conversations,       \* (tenant, connector, account, conversation) keys
  Messages,            \* message ids, ordered as the column orders them
  CaseKeys,            \* explicit case_key values of the replay connector
  Workers,             \* IntakeAssemblyWorker processes
  ConversationOf,      \* the conversation of each message
  Quote,               \* the message it quotes, or NoMessage
  CaseKeyOf,           \* its case_key, or NoKey
  NoConversation, NoKey, NoCase,
  QUIET_WINDOW, BURST_LIMIT, ASSEMBLY_LEASE, ASSOCIATION_HORIZON,
  MaxTime,             \* bound: the clock stops here
  LastIngest,          \* bound: no message arrives after this instant
  LastFault,           \* bound: no worker crashes after this instant
  MaxDelay             \* bound: received_at lags the arrival by at most this

NoMessage == 0
Never == -1            \* SQL NULL of a timestamp
NoLease == 0           \* SQL NULL of lease_token

ASSUME AssemblyAssumption ==
  /\ Messages \subseteq Nat \ {NoMessage}
  /\ ConversationOf \in [Messages -> Conversations]
  /\ Quote \in [Messages -> Messages \cup {NoMessage}]
  /\ CaseKeyOf \in [Messages -> CaseKeys \cup {NoKey}]
  /\ NoKey \notin CaseKeys
  /\ NoConversation \notin Conversations
  /\ QUIET_WINDOW \in Nat /\ BURST_LIMIT \in Nat
  /\ ASSEMBLY_LEASE \in Nat /\ ASSOCIATION_HORIZON \in Nat
  /\ MaxTime \in Nat /\ LastIngest \in Nat /\ LastFault \in Nat
  /\ MaxDelay \in Nat

(* The uuid5 of the case key, or of the first message, in its conversation. *)
CaseIdsOf(c) ==
  {<<c, k>> : k \in CaseKeys} \cup
  {<<c, m>> : m \in {n \in Messages : ConversationOf[n] = c}}
CaseIds == UNION {CaseIdsOf(c) : c \in Conversations}

ASSUME NoCaseAssumption == NoCase \notin CaseIds

VARIABLES
  clock,      \* wall clock shared by the connector and the workers
  received,   \* raw_messages: received_at of each stored message
  timer,      \* assembly_timers: one row per conversation
  link,       \* message_case_links: the case of each linked message
  snapshots,  \* case_snapshots: the message sets of revisions 1, 2, ...
  announced,  \* outbox: the revisions of each case's case.ready.v1 rows
  worker,     \* each process: where it is in its pass and what it claimed
  txn         \* each process: the open transaction of its assemble

cases == <<link, snapshots, announced>>
vars == <<clock, received, timer, cases, worker, txn>>

Time == 0 .. MaxTime

Min2(a, b) == IF a <= b THEN a ELSE b

Stored(m) == received[m] # Never
Linked(m) == link[m] # NoCase
PendingIgnoringLinks(c, now) ==
  {m \in Messages : ConversationOf[m] = c /\ Stored(m) /\ received[m] <= now}

Pending(c, now) ==
  {m \in Messages : /\ ConversationOf[m] = c
                    /\ Stored(m) /\ received[m] <= now
                    /\ ~Linked(m)}

ArmedTimer(due, hard, generation) ==
  [due |-> due, hard |-> hard, generation |-> generation,
   token |-> NoLease, expires |-> Never, fired |-> Never]

(* Generation 0 stands for a row that does not exist yet. *)
NoTimer == ArmedTimer(0, 0, 0)

HasTimer(c) == timer[c].generation > 0
Armed(c) == HasTimer(c) /\ timer[c].fired = Never

IdleWorker == [pc |-> "idle", now |-> 0, conversation |-> NoConversation,
               generation |-> 0, token |-> NoLease]

(* batch: selected messages still to link; target: the case chosen for the  *)
(* first of them; links, touched: rows of message_case_links and cases      *)
(* written so far; number, evidence: the snapshot rows about to be written. *)
NoTransaction == [batch |-> {}, target |-> NoCase,
                  links |-> [m \in Messages |-> NoCase], touched |-> {},
                  number |-> [k \in CaseIds |-> 0],
                  evidence |-> [k \in CaseIds |-> {}]]

Init ==
  /\ clock = 0
  /\ received = [m \in Messages |-> Never]
  /\ timer = [c \in Conversations |-> NoTimer]
  /\ link = [m \in Messages |-> NoCase]
  /\ snapshots = [k \in CaseIds |-> <<>>]
  /\ announced = [k \in CaseIds |-> <<>>]
  /\ worker = [w \in Workers |-> IdleWorker]
  /\ txn = [w \in Workers |-> NoTransaction]

Tick ==
  /\ clock < MaxTime
  /\ clock' = clock + 1
  /\ UNCHANGED <<received, timer, cases, worker, txn>>

-----------------------------------------------------------------------------
(* IntakeService.accept *)

TimerOnIngestSameGeneration(t, at) ==
  LET due == at + QUIET_WINDOW
      hard == at + BURST_LIMIT
  IN  IF t.generation = 0 \/ t.fired # Never
      THEN ArmedTimer(due, hard, t.generation + 1)
      ELSE [t EXCEPT !.due = Min2(t.hard, due)]

(* The upsert of assembly_timers: insert, re-arm a fired timer, restart the *)
(* windows of a leased one, or push back a waiting one up to its hard due.  *)
TimerOnIngest(t, at) ==
  LET due == at + QUIET_WINDOW
      hard == at + BURST_LIMIT
  IN  CASE t.generation = 0 ->
             ArmedTimer(due, hard, 1)
        [] t.generation > 0 /\ t.fired # Never ->
             ArmedTimer(due, hard, t.generation + 1)
        [] t.generation > 0 /\ t.fired = Never /\ t.token # NoLease ->
             [t EXCEPT !.due = due, !.hard = hard,
                       !.generation = t.generation + 1]
        [] OTHER ->
             [t EXCEPT !.due = Min2(t.hard, due)]

Ingest(m, at) ==
  /\ ~Stored(m)
  /\ clock <= LastIngest
  /\ received' = [received EXCEPT ![m] = at]
  /\ timer' = [timer EXCEPT ![ConversationOf[m]] = TimerOnIngest(@, at)]
  /\ UNCHANGED <<clock, cases, worker, txn>>

(* A redelivered source message conflicts on its identity: accept returns   *)
(* False, or raises IntakeConflictError on other content.  Nothing changes. *)
Redeliver(m) ==
  /\ Stored(m)
  /\ UNCHANGED vars

-----------------------------------------------------------------------------
(* IntakeAssemblyWorker.process_due_timers, one pass: the time is sampled   *)
(* once, then timers are claimed and assembled until none is due.           *)

StartPass(w) ==
  /\ worker[w].pc = "idle"
  /\ worker' = [worker EXCEPT ![w].pc = "looping", ![w].now = clock]
  /\ UNCHANGED <<clock, received, timer, cases, txn>>

ClaimableUnleased(now) ==
  {c \in Conversations : Armed(c) /\ timer[c].due <= now
                         /\ timer[c].token = NoLease}

Claimable(now) ==
  {c \in Conversations : /\ Armed(c)
                         /\ timer[c].due <= now
                         /\ timer[c].expires <= now}

(* SKIP LOCKED: any due row may be the first one not locked by an ingest.   *)
(* The fresh uuid4 token is named by the generation the claim creates.      *)
Claim(w, c) ==
  LET now == worker[w].now
      g == timer[c].generation + 1
  IN  /\ worker[w].pc = "looping"
      /\ c \in Claimable(now)
      /\ timer' = [timer EXCEPT ![c].token = g, ![c].generation = g,
                                ![c].expires = now + ASSEMBLY_LEASE]
      /\ worker' = [worker EXCEPT ![w].pc = "claimed",
                                  ![w].conversation = c,
                                  ![w].generation = g, ![w].token = g]
      /\ UNCHANGED <<clock, received, cases, txn>>

EndPass(w) ==
  /\ worker[w].pc = "looping"
  /\ Claimable(worker[w].now) = {}
  /\ worker' = [worker EXCEPT ![w] = IdleWorker]
  /\ UNCHANGED <<clock, received, timer, cases, txn>>

(* The first SELECT of assemble: the unlinked messages received by now. *)
AssembleSelect(w) ==
  /\ worker[w].pc = "claimed"
  /\ worker' = [worker EXCEPT ![w].pc = "linking"]
  /\ txn' = [txn EXCEPT
       ![w].batch = Pending(worker[w].conversation, worker[w].now)]
  /\ UNCHANGED <<clock, received, timer, cases>>

(* ORDER BY received_at, message_id *)
Before(m, n) ==
  \/ received[m] < received[n]
  \/ received[m] = received[n] /\ m < n

Firsts(S) == {m \in S : \A n \in S : ~Before(n, m)}
Latest(S) == CHOOSE m \in S : \A n \in S : ~Before(m, n)

(* The links a transaction sees: those committed, and its own. *)
View(w) ==
  [m \in Messages |-> IF txn[w].links[m] # NoCase THEN txn[w].links[m]
                      ELSE link[m]]

CaseIdForKeyFirst(m, now, view) ==
  LET c == ConversationOf[m]
      q == Quote[m]
  IN  CASE CaseKeyOf[m] # NoKey -> <<c, CaseKeyOf[m]>>
        [] /\ CaseKeyOf[m] = NoKey
           /\ q # NoMessage /\ ConversationOf[q] = c /\ view[q] # NoCase -> view[q]
        [] OTHER -> <<c, m>>

(* _case_id: the case of the quoted message, else of the case key, else of  *)
(* the most recent linked message within the horizon, else a new case.      *)
CaseIdFor(m, now, view) ==
  LET c == ConversationOf[m]
      q == Quote[m]
      recent == {n \in Messages : /\ ConversationOf[n] = c
                                  /\ view[n] # NoCase
                                  /\ received[n] >= now - ASSOCIATION_HORIZON}
      quoted == /\ q # NoMessage
                /\ ConversationOf[q] = c
                /\ view[q] # NoCase
  IN  CASE quoted -> view[q]
        [] ~quoted /\ CaseKeyOf[m] # NoKey -> <<c, CaseKeyOf[m]>>
        [] ~quoted /\ CaseKeyOf[m] = NoKey /\ recent # {} -> view[Latest(recent)]
        [] OTHER -> <<c, m>>

ChooseCase(w) ==
  /\ worker[w].pc = "linking"
  /\ txn[w].target = NoCase
  /\ \E m \in Firsts(txn[w].batch), k \in CaseIds :
       /\ k = CaseIdFor(m, worker[w].now, View(w))
       /\ txn' = [txn EXCEPT ![w].target = k]
  /\ UNCHANGED <<clock, received, timer, cases, worker>>

BlocksNothing(v, m, k) == FALSE

(* An insert waits for the open transaction that inserted the same link row *)
(* or the same new case row.                                                *)
Blocks(v, m, k) ==
  \/ txn[v].links[m] # NoCase
  \/ k \in txn[v].touched /\ snapshots[k] = <<>>

(* INSERT the case and the link, ON CONFLICT DO NOTHING: a message that was *)
(* linked since the SELECT keeps its case, but the chosen case is touched.  *)
InsertLink(w) ==
  LET tx == txn[w]
      k == tx.target
  IN  /\ worker[w].pc = "linking"
      /\ k # NoCase
      /\ \E m \in Firsts(tx.batch) :
           /\ \A v \in Workers \ {w} : ~Blocks(v, m, k)
           /\ txn' = [txn EXCEPT ![w] = [tx EXCEPT
                !.batch = tx.batch \ {m},
                !.target = NoCase,
                !.links = [tx.links EXCEPT ![m] = IF Linked(m) THEN NoCase ELSE k],
                !.touched = tx.touched \cup {k}]]
      /\ UNCHANGED <<clock, received, timer, cases, worker>>

EvidenceOfNewLinks(w, k) == {m \in Messages : txn[w].links[m] = k}

Evidence(w, k) == {m \in Messages : View(w)[m] = k}

LastRevision(k) == Len(snapshots[k])

NextRevision(k) == Len(snapshots[k]) + 1

(* Per touched case: read its messages and MAX(revision) + 1. *)
ReadSnapshots(w) ==
  /\ worker[w].pc = "linking"
  /\ txn[w].batch = {}
  /\ worker' = [worker EXCEPT ![w].pc = "drafted"]
  /\ txn' = [txn EXCEPT ![w] = [txn[w] EXCEPT
       !.number = [k \in CaseIds |->
         IF k \in txn[w].touched THEN NextRevision(k) ELSE 0],
       !.evidence = [k \in CaseIds |->
         IF k \in txn[w].touched THEN Evidence(w, k) ELSE {}]]]
  /\ UNCHANGED <<clock, received, timer, cases>>

(* Insert the snapshots ON CONFLICT DO NOTHING, announce every touched case *)
(* whether or not its snapshot was inserted, and commit.                    *)
AssembleCommit(w) ==
  LET tx == txn[w]
  IN  /\ worker[w].pc = "drafted"
      /\ link' = View(w)
      /\ snapshots' = [k \in CaseIds |->
           IF k \in tx.touched /\ tx.number[k] > Len(snapshots[k])
           THEN Append(snapshots[k], tx.evidence[k]) ELSE snapshots[k]]
      /\ announced' = [k \in CaseIds |->
           IF k \in tx.touched
           THEN Append(announced[k], tx.number[k]) ELSE announced[k]]
      /\ worker' = [worker EXCEPT ![w].pc = "assembled"]
      /\ txn' = [txn EXCEPT ![w] = NoTransaction]
      /\ UNCHANGED <<clock, received, timer>>

HoldsLease(w) ==
  /\ timer[worker[w].conversation].token = worker[w].token
  /\ timer[worker[w].conversation].generation = worker[w].generation

Finalize(w) ==
  LET me == worker[w]
  IN  /\ me.pc = "assembled"
      /\ HoldsLease(w)
      /\ timer' = [timer EXCEPT ![me.conversation].fired = me.now,
                                ![me.conversation].token = NoLease,
                                ![me.conversation].expires = Never]
      /\ worker' = [worker EXCEPT ![w] = [IdleWorker EXCEPT !.pc = "looping",
                                                            !.now = me.now]]
      /\ UNCHANGED <<clock, received, cases, txn>>

(* IntakeConflictError leaves the pass and the loop: the process exits. *)
FinalizeConflict(w) ==
  /\ worker[w].pc = "assembled"
  /\ ~HoldsLease(w)
  /\ worker' = [worker EXCEPT ![w] = [IdleWorker EXCEPT !.pc = "down"]]
  /\ UNCHANGED <<clock, received, timer, cases, txn>>

(* A crash aborts the open transaction and forgets the claim. *)
Crash(w) ==
  /\ worker[w].pc # "down"
  /\ clock <= LastFault
  /\ worker' = [worker EXCEPT ![w] = [IdleWorker EXCEPT !.pc = "down"]]
  /\ txn' = [txn EXCEPT ![w] = NoTransaction]
  /\ UNCHANGED <<clock, received, timer, cases>>

Restart(w) ==
  /\ worker[w].pc = "down"
  /\ worker' = [worker EXCEPT ![w] = IdleWorker]
  /\ UNCHANGED <<clock, received, timer, cases, txn>>

WorkerStep(w) ==
  \/ StartPass(w)
  \/ \E c \in Conversations : Claim(w, c)
  \/ EndPass(w)
  \/ AssembleSelect(w)
  \/ ChooseCase(w)
  \/ InsertLink(w)
  \/ ReadSnapshots(w)
  \/ AssembleCommit(w)
  \/ Finalize(w)
  \/ FinalizeConflict(w)
  \/ Restart(w)

Next ==
  \/ Tick
  \/ \E m \in Messages :
       \/ \E at \in {t \in Time : clock - MaxDelay <= t /\ t <= clock} :
            Ingest(m, at)
       \/ Redeliver(m)
  \/ \E w \in Workers : WorkerStep(w) \/ Crash(w)

Spec == Init /\ [][Next]_vars

(* Time passes, and a process that can take a step takes it; an exited      *)
(* process is started again.  Arrivals and crashes are never forced.        *)
FairSpec == Spec /\ WF_vars(Tick) /\ \A w \in Workers : WF_vars(WorkerStep(w))

-----------------------------------------------------------------------------
(* Properties *)

TimerRow ==
  [due : Nat, hard : Nat, generation : Nat, token : Nat,
   expires : Nat \cup {Never}, fired : Nat \cup {Never}]

WorkerState ==
  [pc : {"idle", "looping", "claimed", "linking", "drafted", "assembled", "down"},
   now : Nat, conversation : Conversations \cup {NoConversation},
   generation : Nat, token : Nat]

Transaction ==
  [batch : SUBSET Messages, target : CaseIds \cup {NoCase},
   links : [Messages -> CaseIds \cup {NoCase}], touched : SUBSET CaseIds,
   number : [CaseIds -> Nat], evidence : [CaseIds -> SUBSET Messages]]

(* The type of the state, with the lease columns NULL together             *)
(* (ck_assembly_timer_lease_pair).                                         *)
TypeOK ==
  /\ clock \in Nat
  /\ received \in [Messages -> Nat \cup {Never}]
  /\ timer \in [Conversations -> TimerRow]
  /\ \A c \in Conversations :
       timer[c].token = NoLease <=> timer[c].expires = Never
  /\ link \in [Messages -> CaseIds \cup {NoCase}]
  /\ snapshots \in [CaseIds -> Seq(SUBSET Messages)]
  /\ announced \in [CaseIds -> Seq(Nat)]
  /\ worker \in [Workers -> WorkerState]
  /\ txn \in [Workers -> Transaction]

(* A timer that has fired covered every message its conversation had       *)
(* received up to the instant it fired at: none of them waits for a timer  *)
(* that will not run.  Ingests between claim and finalize, stale workers   *)
(* and delayed deliveries all attack this.                                 *)
FiredCoversReceived ==
  \A c \in Conversations :
    (HasTimer(c) /\ ~Armed(c)) =>
      \A m \in Messages :
        (/\ ConversationOf[m] = c
         /\ Stored(m)
         /\ received[m] <= timer[c].fired) => Linked(m)

(* Why FiredCoversReceived is inductive: a worker that still holds the      *)
(* lease under the generation it claimed has missed no ingest since, so     *)
(* what it selected and then linked is all there is to link.                *)
InTransaction(w) == worker[w].pc \in {"linking", "drafted"}
HoldsClaim(w) == worker[w].pc \in {"claimed", "linking", "drafted", "assembled"}

ClaimsAreFenced ==
  /\ \A c \in Conversations :
       /\ timer[c].token <= timer[c].generation
       /\ timer[c].token # NoLease => timer[c].fired = Never
  /\ \A w \in Workers : HoldsClaim(w) =>
       /\ worker[w].conversation \in Conversations
       /\ worker[w].token # NoLease
       /\ worker[w].generation <= timer[worker[w].conversation].generation

(* The row locks: a message has one uncommitted link row at most, and none  *)
(* once it is linked.                                                       *)
LinkRowsAreExclusive ==
  \A w \in Workers :
    /\ ~InTransaction(w) => txn[w] = NoTransaction
    /\ worker[w].pc = "drafted" => txn[w].batch = {}
    /\ txn[w].target # NoCase => txn[w].batch # {}
    /\ \A m \in txn[w].batch : Stored(m) /\ txn[w].links[m] = NoCase
    /\ \A m \in Messages : txn[w].links[m] # NoCase =>
         /\ Stored(m) /\ ~Linked(m)
         /\ \A v \in Workers \ {w} : txn[v].links[m] = NoCase

HolderMissesNothing ==
  \A w \in Workers :
    (HoldsClaim(w) /\ HoldsLease(w) /\ worker[w].pc # "claimed") =>
      \A m \in Pending(worker[w].conversation, worker[w].now) :
        m \in txn[w].batch \/ txn[w].links[m] # NoCase

AssemblyInv ==
  /\ TypeOK
  /\ ClaimsAreFenced
  /\ LinkRowsAreExclusive
  /\ HolderMissesNothing
  /\ FiredCoversReceived

(* A message is linked to a case once and for all, although several workers *)
(* may link the same conversation at once.                                  *)
LinksAreFinal == [][\A m \in Messages : Linked(m) => link'[m] = link[m]]_vars

(* Every snapshot revision of a case is announced, and no revision is       *)
(* announced that has no snapshot: a consumer of case.ready.v1 finds the    *)
(* snapshot of the revision it names.                                       *)
AnnouncedRevisionsExist ==
  \A k \in CaseIds :
    {announced[k][i] : i \in 1 .. Len(announced[k])} = 1 .. Len(snapshots[k])

-----------------------------------------------------------------------------
(* What holds when one worker assembles at a time *)

(* The newest snapshot of a case holds exactly the messages linked to it.  *)
SnapshotsComplete ==
  \A k \in CaseIds :
    LET evidence == {m \in Messages : link[m] = k}
        n == Len(snapshots[k])
    IN  IF n = 0 THEN evidence = {} ELSE snapshots[k][n] = evidence

(* A message assembled after its quoted message joins that message's case, *)
(* whatever case key it carries and whatever crashed in between.           *)
QuotedReplyJoinsCase ==
  [][\A m \in Messages :
       LET q == Quote[m]
       IN  (/\ ~Linked(m) /\ Linked(m)'
            /\ q # NoMessage
            /\ ConversationOf[q] = ConversationOf[m]
            /\ Linked(q)) => link'[m] = link[q]]_vars

(* Each new revision of a case adds a message to it: a case is not         *)
(* announced ready for no evidence, or for evidence announced before.      *)
RevisionsAddEvidence ==
  \A k \in CaseIds :
    \A i \in 1 .. Len(snapshots[k]) :
      snapshots[k][i] # (IF i = 1 THEN {} ELSE snapshots[k][i - 1])

(* The case log of CaseLog: links are final, and every batch is snapshotted *)
(* whole in the cases it was assigned to.                                   *)
Log == INSTANCE CaseLog WITH stored <- {m \in Messages : Stored(m)}

ImplementsCaseLog == Log!Spec

-----------------------------------------------------------------------------
(* Every armed timer fires, whatever was ingested, crashed or lost its     *)
(* lease in between: an armed conversation is never left behind.           *)
EveryTimerFires ==
  \A c \in Conversations : Armed(c) ~> ~Armed(c)

(* Every stored message is eventually linked to a case. *)
EveryMessageAssembled ==
  \A m \in Messages : Stored(m) ~> Linked(m)

=============================================================================
