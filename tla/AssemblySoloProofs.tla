------------------------- MODULE AssemblySoloProofs -------------------------
(* What conversation assembly guarantees when one worker assembles at a     *)
(* time, as scripts/run_all_workers.py starts it: complete snapshots, quote *)
(* precedence, and the abstract case log.                                   *)
EXTENDS AssemblyProofs

OneWorker == \A v, w \in Workers : v = w

(* What the open transaction has drafted is what its commit will make true, *)
(* because nobody else writes the case tables meanwhile.                    *)
DraftsAreCurrent ==
  \A w \in Workers :
    /\ \A m \in txn[w].batch : ~Linked(m)
    /\ txn[w].touched = {k \in CaseIds : \E m \in Messages : txn[w].links[m] = k}
    /\ worker[w].pc = "drafted" => \A k \in txn[w].touched :
         /\ txn[w].number[k] = Len(snapshots[k]) + 1
         /\ txn[w].evidence[k] = Evidence(w, k)

QuotesLinked(m) ==
  /\ Quote[m] # NoMessage
  /\ ConversationOf[Quote[m]] = ConversationOf[m]
  /\ Linked(Quote[m])

QuotesAreFollowed ==
  \A w \in Workers :
    /\ \A m \in Messages : (txn[w].links[m] # NoCase /\ QuotesLinked(m)) =>
         txn[w].links[m] = link[Quote[m]]
    /\ \A m \in Firsts(txn[w].batch) :
         (txn[w].target # NoCase /\ QuotesLinked(m)) =>
           txn[w].target = link[Quote[m]]

SoloInv == DraftsAreCurrent /\ QuotesAreFollowed

(* ORDER BY received_at, message_id has one first row. *)
LEMMA FirstIsUnique ==
  ASSUME AssemblyAssumption, TypeOK, NEW S \in SUBSET Messages,
         NEW m \in Firsts(S), NEW n \in Firsts(S)
  PROVE  m = n
<1>1. /\ m \in Nat /\ n \in Nat /\ m \in S /\ n \in S
      /\ received[m] \in Int /\ received[n] \in Int
  BY DEF AssemblyAssumption, TypeOK, Firsts, Never
<1>2. ~Before(m, n) /\ ~Before(n, m)
  BY <1>1 DEF Firsts
<1>3. QED
  BY <1>1, <1>2 DEF Before

LEMMA EmptyTransactionIsSolo ==
  ASSUME AssemblyAssumption, NoCaseAssumption, AssemblyInv, NEW w \in Workers,
         ~InTransaction(w)
  PROVE  /\ txn[w].batch = {} /\ txn[w].target = NoCase
         /\ \A m \in Messages : txn[w].links[m] = NoCase
         /\ txn[w].touched = {}
         /\ {k \in CaseIds : \E m \in Messages : txn[w].links[m] = k} = {}
<1>1. txn[w] = NoTransaction
  BY DEF AssemblyInv, LinkRowsAreExclusive
<1>2. /\ txn[w].batch = {} /\ txn[w].target = NoCase
      /\ \A m \in Messages : txn[w].links[m] = NoCase
      /\ txn[w].touched = {}
  BY <1>1 DEF NoTransaction
<1>3. QED
  BY <1>2 DEF NoCaseAssumption

-----------------------------------------------------------------------------
(* Steps outside the transaction *)

(* A step that leaves the transactions and the case tables alone. *)
LEMMA FrameKeepsSolo ==
  ASSUME AssemblyAssumption, AssemblyInv, SoloInv,
         UNCHANGED <<link, snapshots, txn>>,
         \A m \in Messages : Stored(m) => received'[m] = received[m],
         \A w \in Workers : worker'[w].pc = "drafted" => worker[w].pc = "drafted"
  PROVE  SoloInv'
<1>1. DraftsAreCurrent'
  <2>1. \A w, k : Evidence(w, k)' = Evidence(w, k)
    BY DEF Evidence, View
  <2>2. QED
    BY <2>1 DEF SoloInv, DraftsAreCurrent, Linked
<1>2. QuotesAreFollowed'
  <2>1. ASSUME NEW w \in Workers, NEW m \in Firsts(txn[w].batch)'
        PROVE  m \in Firsts(txn[w].batch)
    <3>1. \A n \in txn[w].batch : n \in Messages /\ received'[n] = received[n]
      BY DEF AssemblyInv, LinkRowsAreExclusive, TypeOK, Transaction
    <3>2. m \in txn[w].batch /\ \A n \in txn[w].batch : ~Before(n, m)'
      BY <2>1 DEF Firsts
    <3>3. QED
      BY <3>1, <3>2 DEF Firsts, Before
  <2>2. \A m : QuotesLinked(m)' <=> QuotesLinked(m)
    BY DEF QuotesLinked, Linked
  <2>3. QED
    BY <2>1, <2>2 DEF SoloInv, QuotesAreFollowed
<1>3. QED
  BY <1>1, <1>2 DEF SoloInv

(* A state in which no transaction is open. *)
LEMMA NoTransactionIsSolo ==
  ASSUME AssemblyAssumption, NoCaseAssumption, AssemblyInv,
         \A w \in Workers : ~InTransaction(w)
  PROVE  SoloInv
<1>1. DraftsAreCurrent
  BY EmptyTransactionIsSolo DEF DraftsAreCurrent, InTransaction
<1>2. QuotesAreFollowed
  BY EmptyTransactionIsSolo DEF QuotesAreFollowed
<1>3. QED
  BY <1>1, <1>2 DEF SoloInv

-----------------------------------------------------------------------------
(* Steps of the transaction *)

LEMMA SelectKeepsSolo ==
  ASSUME AssemblyAssumption, NoCaseAssumption, OneWorker, AssemblyInv, SoloInv,
         NEW w \in Workers, AssembleSelect(w)
  PROVE  SoloInv'
<1> DEFINE pending == Pending(worker[w].conversation, worker[w].now)
           tx == [txn[w] EXCEPT !.batch = pending]
<1>1. /\ ~InTransaction(w) /\ worker[w] \in WorkerState
      /\ worker' = [worker EXCEPT ![w].pc = "linking"]
      /\ worker \in [Workers -> WorkerState]
      /\ txn' = [txn EXCEPT ![w] = tx]
      /\ txn \in [Workers -> Transaction]
      /\ UNCHANGED <<received, link, snapshots>>
  BY DEF AssembleSelect, InTransaction, cases, AssemblyInv, TypeOK
<1>2. pending \subseteq Messages /\ \A m \in pending : ~Linked(m)
  BY DEF Pending
<1> HIDE DEF pending
<1>3. /\ tx.batch = pending /\ tx.target = txn[w].target
      /\ tx.links = txn[w].links /\ tx.touched = txn[w].touched
  BY <1>1 DEF Transaction
<1> HIDE DEF tx
<1>4. txn'[w] = tx /\ worker'[w].pc = "linking"
  BY <1>1 DEF WorkerState
<1>5. DraftsAreCurrent'
  <2>1. \A v \in Workers : v = w
    BY DEF OneWorker
  <2>2. QED
    BY <1>1, <1>2, <1>3, <1>4, <2>1, EmptyTransactionIsSolo
       DEF DraftsAreCurrent, Linked
<1>6. QuotesAreFollowed'
  <2>1. tx.target = NoCase /\ \A m \in Messages : tx.links[m] = NoCase
    BY <1>1, <1>3, EmptyTransactionIsSolo
  <2>2. \A v \in Workers : v = w
    BY DEF OneWorker
  <2>3. QED
    BY <1>4, <2>1, <2>2 DEF QuotesAreFollowed
<1>7. QED
  BY <1>5, <1>6 DEF SoloInv

LEMMA ChooseKeepsSolo ==
  ASSUME AssemblyAssumption, NoCaseAssumption, OneWorker, AssemblyInv, SoloInv,
         NEW w \in Workers, ChooseCase(w)
  PROVE  SoloInv'
<1>1. PICK m \in Firsts(txn[w].batch), k \in CaseIds :
        /\ worker[w].pc = "linking"
        /\ k = CaseIdFor(m, worker[w].now, View(w))
        /\ txn' = [txn EXCEPT ![w].target = k]
        /\ UNCHANGED <<received, link, snapshots, worker>>
  BY DEF ChooseCase, cases
<1> DEFINE tx == [txn[w] EXCEPT !.target = k]
<1>2. txn' = [txn EXCEPT ![w] = tx] /\ txn \in [Workers -> Transaction]
  BY <1>1 DEF AssemblyInv, TypeOK
<1>3. /\ tx.batch = txn[w].batch /\ tx.target = k
      /\ tx.links = txn[w].links /\ tx.touched = txn[w].touched
  BY <1>2 DEF Transaction
<1> HIDE DEF tx
<1>4. txn'[w] = tx /\ m \in Messages /\ txn[w].batch \in SUBSET Messages
  BY <1>1, <1>2 DEF Transaction, Firsts
<1>5. DraftsAreCurrent'
  <2>1. \A v \in Workers : v = w
    BY DEF OneWorker
  <2>2. /\ \A n \in tx.batch : ~Linked(n)'
        /\ tx.touched = {j \in CaseIds : \E n \in Messages : tx.links[n] = j}
    BY <1>1, <1>3 DEF SoloInv, DraftsAreCurrent, Linked
  <2>3. worker'[w].pc # "drafted"
    BY <1>1
  <2>4. QED
    BY <1>4, <2>1, <2>2, <2>3 DEF DraftsAreCurrent
<1>6. QuotesAreFollowed'
  <2>1. QuotesLinked(m) => k = link[Quote[m]]
    <3>1. ASSUME QuotesLinked(m) PROVE k = link[Quote[m]]
      <4>1. Quote[m] \in Messages
        BY <1>4, <3>1 DEF QuotesLinked, AssemblyAssumption
      <4>2. txn[w].links[Quote[m]] = NoCase
        BY <3>1, <4>1 DEF QuotesLinked, AssemblyInv, LinkRowsAreExclusive
      <4>3. View(w)[Quote[m]] = link[Quote[m]] /\ link[Quote[m]] # NoCase
        BY <3>1, <4>1, <4>2 DEF View, QuotesLinked, Linked
      <4>4. CaseIdFor(m, worker[w].now, View(w)) = View(w)[Quote[m]]
        BY <3>1, <4>3 DEF CaseIdFor, QuotesLinked
      <4>5. QED
        BY <1>1, <4>3, <4>4
    <3>2. QED
      BY <3>1
  <2>2. \A n \in Firsts(txn[w].batch) : n = m
    BY <1>1, <1>4, FirstIsUnique DEF AssemblyInv
  <2>3. Firsts(txn[w].batch)' = Firsts(txn[w].batch)
    BY <1>1, <1>3, <1>4 DEF Firsts, Before
  <2>4. \A n : QuotesLinked(n)' <=> QuotesLinked(n)
    BY <1>1 DEF QuotesLinked, Linked
  <2>5. ASSUME NEW v \in Workers
        PROVE  /\ \A n \in Messages :
                    (txn'[v].links[n] # NoCase /\ QuotesLinked(n)') =>
                      txn'[v].links[n] = link'[Quote[n]]
               /\ \A n \in Firsts(txn[v].batch)' :
                    (txn'[v].target # NoCase /\ QuotesLinked(n)') =>
                      txn'[v].target = link'[Quote[n]]
    <3>1. v = w
      BY DEF OneWorker
    <3>2. QED
      BY <1>1, <1>3, <1>4, <2>1, <2>2, <2>3, <2>4, <3>1
         DEF SoloInv, QuotesAreFollowed
  <2>6. QED
    BY <2>5 DEF QuotesAreFollowed
<1>7. QED
  BY <1>5, <1>6 DEF SoloInv

LEMMA InsertKeepsSolo ==
  ASSUME AssemblyAssumption, NoCaseAssumption, OneWorker, AssemblyInv, SoloInv,
         NEW w \in Workers, InsertLink(w)
  PROVE  SoloInv'
<1> DEFINE k == txn[w].target
<1>1. PICK m \in Firsts(txn[w].batch) :
        /\ worker[w].pc = "linking" /\ k # NoCase
        /\ txn' = [txn EXCEPT ![w] = [txn[w] EXCEPT
             !.batch = txn[w].batch \ {m},
             !.target = NoCase,
             !.links = [txn[w].links EXCEPT ![m] =
                          IF Linked(m) THEN NoCase ELSE k],
             !.touched = txn[w].touched \cup {k}]]
        /\ UNCHANGED <<received, link, snapshots, worker>>
  BY DEF InsertLink, cases
<1>2. /\ txn \in [Workers -> Transaction] /\ txn[w] \in Transaction
      /\ m \in txn[w].batch /\ m \in Messages /\ k \in CaseIds
  BY <1>1 DEF AssemblyInv, TypeOK, Transaction, Firsts
<1>3. ~Linked(m) /\ txn[w].links[m] = NoCase
  BY <1>2 DEF SoloInv, DraftsAreCurrent, AssemblyInv, LinkRowsAreExclusive
<1> DEFINE links == [txn[w].links EXCEPT ![m] = k]
           tx == [txn[w] EXCEPT !.batch = txn[w].batch \ {m}, !.target = NoCase,
                                !.links = links,
                                !.touched = txn[w].touched \cup {k}]
<1>4. txn' = [txn EXCEPT ![w] = tx]
  BY <1>1, <1>3
<1>5. /\ links[m] = k
      /\ \A n \in Messages : n # m => links[n] = txn[w].links[n]
  BY <1>2 DEF Transaction
<1> HIDE DEF links
<1>6. /\ tx.batch = txn[w].batch \ {m} /\ tx.target = NoCase
      /\ tx.links = links /\ tx.touched = txn[w].touched \cup {k}
  BY <1>2 DEF Transaction
<1> HIDE DEF tx
<1>7. txn'[w] = tx
  BY <1>2, <1>4
<1>8. DraftsAreCurrent'
  <2>1. tx.touched = {j \in CaseIds : \E n \in Messages : tx.links[n] = j}
    <3>1. txn[w].touched = {j \in CaseIds : \E n \in Messages : txn[w].links[n] = j}
      BY DEF SoloInv, DraftsAreCurrent
    <3>2. ASSUME NEW j \in CaseIds
          PROVE  (\E n \in Messages : tx.links[n] = j) <=>
                   (j = k \/ \E n \in Messages : txn[w].links[n] = j)
      <4>1. j # NoCase
        BY DEF NoCaseAssumption
      <4>2. QED
        BY <1>2, <1>3, <1>5, <1>6, <4>1
    <3>3. QED
      BY <1>2, <1>6, <3>1, <3>2
  <2>2. \A n \in tx.batch : ~Linked(n)'
    BY <1>1, <1>6 DEF SoloInv, DraftsAreCurrent, Linked
  <2>3. worker'[w].pc # "drafted"
    BY <1>1
  <2>4. \A v \in Workers : v = w
    BY DEF OneWorker
  <2>5. QED
    BY <1>7, <2>1, <2>2, <2>3, <2>4 DEF DraftsAreCurrent
<1>9. QuotesAreFollowed'
  <2>1. \A n : QuotesLinked(n)' <=> QuotesLinked(n)
    BY <1>1 DEF QuotesLinked, Linked
  <2>2. QuotesLinked(m) => k = link[Quote[m]]
    BY <1>1 DEF SoloInv, QuotesAreFollowed
  <2>3. ASSUME NEW n \in Messages, tx.links[n] # NoCase, QuotesLinked(n)
        PROVE  tx.links[n] = link[Quote[n]]
    <3>1. CASE n = m
      BY <1>5, <1>6, <2>2, <2>3, <3>1
    <3>2. CASE n # m
      BY <1>5, <1>6, <2>3, <3>2 DEF SoloInv, QuotesAreFollowed
    <3>3. QED
      BY <3>1, <3>2
  <2>4. QED
    BY <1>1, <1>6, <1>7, <2>1, <2>3 DEF QuotesAreFollowed, OneWorker
<1>10. QED
  BY <1>8, <1>9 DEF SoloInv

LEMMA ReadKeepsSolo ==
  ASSUME AssemblyAssumption, NoCaseAssumption, OneWorker, AssemblyInv, SoloInv,
         NEW w \in Workers, ReadSnapshots(w)
  PROVE  SoloInv'
<1> DEFINE number == [k \in CaseIds |->
             IF k \in txn[w].touched THEN NextRevision(k) ELSE 0]
           evidence == [k \in CaseIds |->
             IF k \in txn[w].touched THEN Evidence(w, k) ELSE {}]
           tx == [txn[w] EXCEPT !.number = number, !.evidence = evidence]
<1>1. /\ txn[w].batch = {}
      /\ txn' = [txn EXCEPT ![w] = tx]
      /\ txn \in [Workers -> Transaction] /\ txn[w] \in Transaction
      /\ UNCHANGED <<received, link, snapshots>>
  BY DEF ReadSnapshots, cases, AssemblyInv, TypeOK
<1>2. \A k \in txn[w].touched : /\ number[k] = Len(snapshots[k]) + 1
                                /\ evidence[k] = Evidence(w, k)
  BY <1>1 DEF Transaction, NextRevision
<1> HIDE DEF number, evidence
<1>3. /\ tx.batch = {} /\ tx.links = txn[w].links
      /\ tx.touched = txn[w].touched
      /\ tx.number = number /\ tx.evidence = evidence
  BY <1>1 DEF Transaction
<1> HIDE DEF tx
<1>4. txn'[w] = tx
  BY <1>1
<1>5. \A k : Evidence(w, k)' = Evidence(w, k)
  BY <1>1, <1>3, <1>4 DEF Evidence, View
<1>6. DraftsAreCurrent'
  BY <1>1, <1>2, <1>3, <1>4, <1>5
     DEF SoloInv, DraftsAreCurrent, OneWorker, Linked
<1>7. QuotesAreFollowed'
  <2>1. \A n : QuotesLinked(n)' <=> QuotesLinked(n)
    BY <1>1 DEF QuotesLinked, Linked
  <2>2. QED
    BY <1>1, <1>3, <1>4, <2>1 DEF SoloInv, QuotesAreFollowed, OneWorker, Firsts
<1>8. QED
  BY <1>6, <1>7 DEF SoloInv

-----------------------------------------------------------------------------
(* Commits, and the steps in between *)

LEMMA StepKeepsSolo ==
  ASSUME AssemblyAssumption, NoCaseAssumption, OneWorker,
         AssemblyInv, AssemblyInv', SoloInv, [Next]_vars
  PROVE  SoloInv'
<1>1. CASE Tick \/ UNCHANGED vars \/ (\E m \in Messages : Redeliver(m))
  <2>1. UNCHANGED <<received, link, snapshots, txn, worker>>
    BY <1>1 DEF Tick, Redeliver, vars, cases
  <2>2. QED
    BY <2>1, FrameKeepsSolo
<1>2. CASE \E m \in Messages, at \in Time : Ingest(m, at)
  <2>1. /\ UNCHANGED <<link, snapshots, txn, worker>>
        /\ \A m \in Messages : Stored(m) => received'[m] = received[m]
    BY <1>2 DEF Ingest, cases, AssemblyInv, TypeOK
  <2>2. QED
    BY <2>1, FrameKeepsSolo
<1>3. ASSUME NEW w \in Workers,
             AssembleSelect(w) \/ ChooseCase(w) \/ InsertLink(w) \/ ReadSnapshots(w)
      PROVE  SoloInv'
  BY <1>3, SelectKeepsSolo, ChooseKeepsSolo, InsertKeepsSolo, ReadKeepsSolo
<1>4. ASSUME NEW w \in Workers,
             \/ StartPass(w) \/ EndPass(w) \/ Finalize(w) \/ FinalizeConflict(w)
             \/ Crash(w) \/ Restart(w) \/ AssembleCommit(w)
             \/ \E c \in Conversations : Claim(w, c)
      PROVE  SoloInv'
  <2>1. worker \in [Workers -> WorkerState] /\ worker[w] \in WorkerState
    BY DEF AssemblyInv, TypeOK
  <2>2. worker'[w].pc \notin {"linking", "drafted"}
    <3>1. /\ IdleWorker.pc = "idle" /\ [IdleWorker EXCEPT !.pc = "down"].pc = "down"
          /\ [IdleWorker EXCEPT !.pc = "looping", !.now = worker[w].now].pc = "looping"
      BY DEF IdleWorker
    <3>2. CASE EndPass(w) \/ Finalize(w) \/ FinalizeConflict(w) \/ Crash(w) \/ Restart(w)
      BY <2>1, <3>1, <3>2 DEF EndPass, Finalize, FinalizeConflict, Crash, Restart
    <3>3. CASE StartPass(w)
      BY <2>1, <3>3 DEF StartPass, WorkerState
    <3>4. CASE AssembleCommit(w)
      BY <2>1, <3>4 DEF AssembleCommit, WorkerState
    <3>5. CASE \E c \in Conversations : Claim(w, c)
      <4>1. PICK c \in Conversations : Claim(w, c)
        BY <3>5
      <4>2. worker'[w].pc = "claimed"
        BY <2>1, <4>1 DEF Claim, WorkerState
      <4>3. QED
        BY <4>2
    <3>6. QED
      BY <1>4, <3>2, <3>3, <3>4, <3>5
  <2>3. (\A v \in Workers : ~InTransaction(v))'
    BY <2>2 DEF OneWorker, InTransaction
  <2>4. (AssemblyAssumption /\ NoCaseAssumption)'
    BY DEF AssemblyAssumption, NoCaseAssumption, CaseIds, CaseIdsOf
  <2>5. DraftsAreCurrent' /\ QuotesAreFollowed'
    <3>1. \A v \in Workers : txn'[v] = NoTransaction
      BY <2>3 DEF AssemblyInv, LinkRowsAreExclusive
    <3>2. /\ NoTransaction.touched = {}
          /\ {k \in CaseIds : \E m \in Messages : NoTransaction.links[m] = k} = {}
      BY DEF NoTransaction, NoCaseAssumption
    <3>3. QED
      BY <3>1, <3>2, NoTransactionType DEF DraftsAreCurrent, QuotesAreFollowed
  <2>6. QED
    BY <2>5 DEF SoloInv
<1>5. QED
  BY <1>1, <1>2, <1>3, <1>4 DEF Next, WorkerStep

THEOREM SoloInvariant == OneWorker => (Spec => []SoloInv)
<1> SUFFICES ASSUME OneWorker PROVE Spec => []SoloInv
  OBVIOUS
<1>1. Init => SoloInv
  <2>1. Init => \A w \in Workers : ~InTransaction(w)
    BY DEF Init, InTransaction, IdleWorker
  <2>2. QED
    BY <2>1, InitAssemblyInv, NoTransactionIsSolo, AssemblyAssumption,
       NoCaseAssumption
<1>2. AssemblyInv /\ AssemblyInv' /\ SoloInv /\ [Next]_vars => SoloInv'
  BY StepKeepsSolo, AssemblyAssumption, NoCaseAssumption
<1>3. QED
  BY <1>1, <1>2, AssemblyInvariant, PTL DEF Spec

(* What the commit of the only worker writes. *)
LEMMA SoloCommit ==
  ASSUME AssemblyAssumption, NoCaseAssumption, AssemblyInv, SoloInv,
         NEW w \in Workers, AssembleCommit(w), NEW k \in CaseIds
  PROVE  /\ k \in txn[w].touched <=> \E m \in Messages : txn[w].links[m] = k
         /\ snapshots'[k] = IF k \in txn[w].touched
                            THEN Append(snapshots[k], {m \in Messages : link'[m] = k})
                            ELSE snapshots[k]
<1>1. /\ worker[w].pc = "drafted" /\ link' = View(w)
      /\ snapshots'[k] = IF /\ k \in txn[w].touched
                            /\ txn[w].number[k] > Len(snapshots[k])
                         THEN Append(snapshots[k], txn[w].evidence[k])
                         ELSE snapshots[k]
  BY DEF AssembleCommit
<1>2. Len(snapshots[k]) \in Nat
  BY DEF AssemblyInv, TypeOK
<1>3. k \in txn[w].touched =>
        /\ txn[w].number[k] = Len(snapshots[k]) + 1
        /\ txn[w].evidence[k] = {m \in Messages : link'[m] = k}
  BY <1>1 DEF SoloInv, DraftsAreCurrent, Evidence
<1>4. k \in txn[w].touched <=> \E m \in Messages : txn[w].links[m] = k
  <2>1. txn[w].touched = {j \in CaseIds : \E m \in Messages : txn[w].links[m] = j}
    BY DEF SoloInv, DraftsAreCurrent
  <2>2. QED
    BY <2>1
<1>5. CASE k \in txn[w].touched
  <2>1. txn[w].number[k] > Len(snapshots[k])
    BY <1>2, <1>3, <1>5
  <2>2. snapshots'[k] = Append(snapshots[k], txn[w].evidence[k])
    BY <1>1, <1>5, <2>1
  <2>3. QED
    BY <1>3, <1>4, <1>5, <2>2
<1>6. CASE k \notin txn[w].touched
  BY <1>1, <1>4, <1>6
<1>7. QED
  BY <1>5, <1>6

LEMMA CommitKeepsSnapshots ==
  ASSUME AssemblyAssumption, NoCaseAssumption, AssemblyInv, SoloInv,
         SnapshotsComplete, NEW w \in Workers, AssembleCommit(w)
  PROVE  SnapshotsComplete'
<1> DEFINE evidence(k) == {m \in Messages : link[m] = k}
           evidenceNext(k) == {m \in Messages : link'[m] = k}
<1>1. SUFFICES ASSUME NEW k \in CaseIds
               PROVE  IF Len(snapshots'[k]) = 0 THEN evidenceNext(k) = {}
                      ELSE snapshots'[k][Len(snapshots'[k])] = evidenceNext(k)
  BY DEF SnapshotsComplete
<1>2. snapshots[k] \in Seq(SUBSET Messages) /\ k # NoCase
  BY DEF AssemblyInv, TypeOK, NoCaseAssumption
<1>3. /\ k \in txn[w].touched <=> \E m \in Messages : txn[w].links[m] = k
      /\ snapshots'[k] = IF k \in txn[w].touched
                         THEN Append(snapshots[k], evidenceNext(k))
                         ELSE snapshots[k]
  BY SoloCommit
<1>4. CASE k \in txn[w].touched
  <2>1. evidenceNext(k) \in SUBSET Messages
    OBVIOUS
  <2> HIDE DEF evidenceNext
  <2>2. QED
    BY <1>2, <1>3, <1>4, <2>1
<1>5. CASE k \notin txn[w].touched
  <2>1. ASSUME NEW m \in Messages
        PROVE  link'[m] = k <=> link[m] = k
    <3>1. txn[w].links[m] # k
      BY <1>3, <1>5
    <3>2. CASE txn[w].links[m] = NoCase
      BY <3>2, CommittedLinks
    <3>3. CASE txn[w].links[m] # NoCase
      <4>1. link[m] = NoCase /\ link'[m] = txn[w].links[m]
        BY <3>3, CommittedLinks DEF Linked
      <4>2. QED
        BY <1>2, <3>1, <4>1
    <3>4. QED
      BY <3>2, <3>3
  <2>2. evidenceNext(k) = evidence(k)
    BY <2>1
  <2>3. IF Len(snapshots[k]) = 0 THEN evidence(k) = {}
        ELSE snapshots[k][Len(snapshots[k])] = evidence(k)
    BY DEF SnapshotsComplete
  <2> HIDE DEF evidence, evidenceNext
  <2>4. QED
    BY <1>3, <1>5, <2>2, <2>3
<1>6. QED
  BY <1>4, <1>5

(* The evidence the commit adds to a case it touches: some message is       *)
(* linked to the case that was linked to none.                              *)
LEMMA CommitAddsEvidence ==
  ASSUME AssemblyAssumption, NoCaseAssumption, AssemblyInv, SoloInv,
         NEW w \in Workers, AssembleCommit(w),
         NEW k \in CaseIds, k \in txn[w].touched
  PROVE  \E m \in Messages : link'[m] = k /\ link[m] # k
<1>1. PICK m \in Messages : txn[w].links[m] = k
  BY SoloCommit
<1>2. k # NoCase
  BY DEF NoCaseAssumption
<1>3. link[m] = NoCase /\ link'[m] = k
  BY <1>1, <1>2, CommittedLinks DEF Linked
<1>4. QED
  BY <1>2, <1>3

LEMMA CommitKeepsRevisions ==
  ASSUME AssemblyAssumption, NoCaseAssumption, AssemblyInv, SoloInv,
         SnapshotsComplete, RevisionsAddEvidence,
         NEW w \in Workers, AssembleCommit(w)
  PROVE  RevisionsAddEvidence'
<1>1. SUFFICES ASSUME NEW k \in CaseIds, NEW i \in 1 .. Len(snapshots'[k])
               PROVE  snapshots'[k][i] # (IF i = 1 THEN {} ELSE snapshots'[k][i - 1])
  BY DEF RevisionsAddEvidence
<1> DEFINE old == snapshots[k]
           n == Len(old)
           evidence == {m \in Messages : link[m] = k}
           added == {m \in Messages : link'[m] = k}
<1>2. old \in Seq(SUBSET Messages) /\ n \in Nat
  BY DEF AssemblyInv, TypeOK
<1>3. \A j \in 1 .. n : old[j] # (IF j = 1 THEN {} ELSE old[j - 1])
  BY DEF RevisionsAddEvidence
<1>4. snapshots'[k] = IF k \in txn[w].touched THEN Append(old, added) ELSE old
  BY SoloCommit
<1>5. CASE k \notin txn[w].touched
  BY <1>3, <1>4, <1>5
<1>6. CASE k \in txn[w].touched
  <2>1. evidence # added
    BY <1>6, CommitAddsEvidence
  <2>2. IF n = 0 THEN evidence = {} ELSE old[n] = evidence
    BY DEF SnapshotsComplete
  <2>3. added \in SUBSET Messages
    OBVIOUS
  <2> HIDE DEF old, n, evidence, added
  <2>4. /\ Len(snapshots'[k]) = n + 1
        /\ snapshots'[k][n + 1] = added
        /\ \A j \in 1 .. n : snapshots'[k][j] = old[j]
    BY <1>2, <1>4, <1>6, <2>3 DEF n
  <2>5. CASE i = n + 1
    <3>1. snapshots'[k][i] = added
      BY <2>4, <2>5
    <3>2. CASE n = 0
      <4>1. i = 1
        BY <2>5, <3>2
      <4>2. evidence = {}
        BY <2>2, <3>2
      <4>3. added # {}
        BY <2>1, <4>2
      <4>4. QED
        BY <3>1, <4>1, <4>3
    <3>3. CASE n # 0
      <4>1. i # 1 /\ i - 1 = n /\ n \in 1 .. n
        BY <1>2, <2>5, <3>3
      <4>2. snapshots'[k][i - 1] = evidence
        BY <2>2, <2>4, <3>3, <4>1
      <4>3. QED
        BY <2>1, <3>1, <4>1, <4>2
    <3>4. QED
      BY <3>2, <3>3
  <2>6. CASE i # n + 1
    <3>1. i \in 1 .. n
      BY <1>2, <2>4, <2>6
    <3>2. i = 1 \/ i - 1 \in 1 .. n
      BY <1>2, <3>1
    <3>3. QED
      BY <1>3, <2>4, <3>1, <3>2
  <2>7. QED
    BY <2>5, <2>6
<1>7. QED
  BY <1>5, <1>6

-----------------------------------------------------------------------------
(* The newest snapshot of a case always holds all the evidence linked to    *)
(* it, whatever is ingested and whenever the worker crashes.                *)
THEOREM SnapshotsHoldEvidence == OneWorker => (Spec => []SnapshotsComplete)
<1> SUFFICES ASSUME OneWorker PROVE Spec => []SnapshotsComplete
  OBVIOUS
<1>1. Init => SnapshotsComplete
  BY NoCaseAssumption DEF Init, SnapshotsComplete, NoCaseAssumption
<1>2. AssemblyInv /\ SoloInv /\ SnapshotsComplete /\ [Next]_vars
        => SnapshotsComplete'
  <2>1. UNCHANGED cases /\ SnapshotsComplete => SnapshotsComplete'
    BY DEF SnapshotsComplete, cases
  <2>2. QED
    BY <2>1, OnlyCommitWrites, CommitKeepsSnapshots,
       AssemblyAssumption, NoCaseAssumption
<1>3. QED
  BY <1>1, <1>2, AssemblyInvariant, SoloInvariant, PTL DEF Spec

(* Every revision that AssembleCommit inserts adds a message to its case:   *)
(* no case.ready.v1 announces evidence that was announced before.           *)
THEOREM RevisionsGrow == OneWorker => (Spec => []RevisionsAddEvidence)
<1> SUFFICES ASSUME OneWorker PROVE Spec => []RevisionsAddEvidence
  OBVIOUS
<1>1. Init => RevisionsAddEvidence
  BY DEF Init, RevisionsAddEvidence
<1>2. AssemblyInv /\ SoloInv /\ SnapshotsComplete /\ RevisionsAddEvidence
        /\ [Next]_vars => RevisionsAddEvidence'
  <2>1. UNCHANGED cases /\ RevisionsAddEvidence => RevisionsAddEvidence'
    BY DEF RevisionsAddEvidence, cases
  <2>2. QED
    BY <2>1, OnlyCommitWrites, CommitKeepsRevisions,
       AssemblyAssumption, NoCaseAssumption
<1>3. QED
  BY <1>1, <1>2, AssemblyInvariant, SoloInvariant, SnapshotsHoldEvidence, PTL
     DEF Spec

(* Quote precedence holds of every link the worker commits. *)
THEOREM QuotesTakePrecedence == OneWorker => (Spec => QuotedReplyJoinsCase)
<1> SUFFICES ASSUME OneWorker PROVE Spec => QuotedReplyJoinsCase
  OBVIOUS
<1>1. ASSUME AssemblyInv, SoloInv, NEW w \in Workers, AssembleCommit(w),
             NEW m \in Messages, ~Linked(m), Linked(m)', QuotesLinked(m)
      PROVE  link'[m] = link[Quote[m]]
  <2>1. txn[w].links[m] # NoCase /\ link'[m] = txn[w].links[m]
    BY <1>1, CommittedLinks DEF Linked
  <2>2. QED
    BY <1>1, <2>1 DEF SoloInv, QuotesAreFollowed
<1>2. AssemblyInv /\ SoloInv /\ [Next]_vars =>
        [\A m \in Messages :
           LET q == Quote[m]
           IN  (/\ ~Linked(m) /\ Linked(m)'
                /\ q # NoMessage
                /\ ConversationOf[q] = ConversationOf[m]
                /\ Linked(q)) => link'[m] = link[q]]_vars
  BY <1>1, OnlyCommitWrites DEF Linked, QuotesLinked, cases
<1>3. QED
  BY <1>2, AssemblyInvariant, SoloInvariant, PTL DEF Spec, QuotedReplyJoinsCase

(* One worker implements the abstract case log: links are final, and every  *)
(* batch is snapshotted whole in the cases it was assigned to.              *)
THEOREM AssemblyImplementsCaseLog == OneWorker => (Spec => ImplementsCaseLog)
<1> SUFFICES ASSUME OneWorker PROVE Spec => ImplementsCaseLog
  OBVIOUS
<1>1. Init => Log!Init
  BY DEF Init, Log!Init, Stored
<1> DEFINE stored == {m \in Messages : Stored(m)}
<1>2. ASSUME AssemblyInv, NEW m \in Messages, NEW at \in Time, Ingest(m, at)
      PROVE  Log!Store(m)
  <2>1. /\ m \notin stored
        /\ received' = [received EXCEPT ![m] = at]
        /\ at # Never
        /\ UNCHANGED <<link, snapshots>>
    BY <1>2 DEF Ingest, Time, Never, cases
  <2>2. stored' = stored \cup {m}
    BY <1>2, <2>1 DEF AssemblyInv, TypeOK, Stored
  <2>3. QED
    BY <2>1, <2>2 DEF Log!Store
<1>3. ASSUME AssemblyInv, SoloInv, NEW w \in Workers, AssembleCommit(w)
      PROVE  Log!Next
  <2> DEFINE batch == {m \in Messages : txn[w].links[m] # NoCase}
             case == [m \in batch |-> txn[w].links[m]]
  <2>1. txn[w].links \in [Messages -> CaseIds \cup {NoCase}]
    BY <1>3 DEF AssemblyInv, TypeOK, Transaction
  <2>2. case \in [batch -> CaseIds] /\ batch \in SUBSET Messages
    BY <2>1
  <2>3. batch \subseteq stored /\ stored' = stored
    BY <1>3 DEF AssemblyInv, LinkRowsAreExclusive, AssembleCommit, Stored
  <2>4. link' = [m \in Messages |-> IF link[m] # NoCase THEN link[m]
                                    ELSE IF m \in batch THEN case[m] ELSE NoCase]
    <3>1. link' \in [Messages -> CaseIds \cup {NoCase}]
      BY <1>3, CommittedLinks
    <3>2. ASSUME NEW m \in Messages
          PROVE  link'[m] = IF link[m] # NoCase THEN link[m]
                            ELSE IF m \in batch THEN case[m] ELSE NoCase
      BY <1>3, CommittedLinks DEF Linked
    <3>3. QED
      BY <3>1, <3>2
  <2>5. snapshots' = [k \in CaseIds |-> IF \E m \in batch : case[m] = k
                                        THEN Append(snapshots[k], Log!Evidence(k)')
                                        ELSE snapshots[k]]
    <3>1. ASSUME NEW k \in CaseIds
          PROVE  snapshots'[k] = IF \E m \in batch : case[m] = k
                                 THEN Append(snapshots[k], Log!Evidence(k)')
                                 ELSE snapshots[k]
      <4>1. (\E m \in batch : case[m] = k) <=> k \in txn[w].touched
        <5>1. k # NoCase
          BY NoCaseAssumption DEF NoCaseAssumption
        <5>2. k \in txn[w].touched <=> \E m \in Messages : txn[w].links[m] = k
          BY <1>3, SoloCommit, AssemblyAssumption, NoCaseAssumption
        <5>3. QED
          BY <5>1, <5>2
      <4>2. Log!Evidence(k)' = {m \in Messages : link'[m] = k}
        BY DEF Log!Evidence
      <4> HIDE DEF batch, case
      <4>3. QED
        BY <1>3, <4>1, <4>2, SoloCommit, AssemblyAssumption, NoCaseAssumption
    <3>2. snapshots' = [k \in CaseIds |-> snapshots'[k]]
      BY <1>3 DEF AssembleCommit
    <3> HIDE DEF batch, case
    <3>3. QED
      BY <3>1, <3>2
  <2>6. Log!Assign(batch, case)
    BY <2>3, <2>4, <2>5 DEF Log!Assign
  <2>7. QED
    BY <2>2, <2>6 DEF Log!Next
<1>4. AssemblyInv /\ SoloInv /\ [Next]_vars => [Log!Next]_(Log!logVars)
  <2> SUFFICES ASSUME AssemblyInv, SoloInv, [Next]_vars
               PROVE  Log!Next \/ UNCHANGED Log!logVars
    OBVIOUS
  <2>1. CASE \E m \in Messages, at \in Time : Ingest(m, at)
    BY <1>2, <2>1 DEF Log!Next
  <2>2. CASE \E w \in Workers : AssembleCommit(w)
    BY <1>3, <2>2
  <2>3. CASE UNCHANGED <<received, link, snapshots>>
    BY <2>3 DEF Log!logVars, Stored
  <2>4. QED
    BY <2>1, <2>2, <2>3 DEF Next, WorkerStep, Tick, Redeliver, StartPass,
       Claim, EndPass, AssembleSelect, ChooseCase, InsertLink, ReadSnapshots,
       Finalize, FinalizeConflict, Crash, Restart, vars, cases
<1>5. QED
  BY <1>1, <1>4, AssemblyInvariant, SoloInvariant, PTL
     DEF Spec, ImplementsCaseLog, Log!Spec

=============================================================================
