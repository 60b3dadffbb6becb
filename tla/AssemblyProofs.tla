--------------------------- MODULE AssemblyProofs ---------------------------
(* Proofs about conversation assembly for every set of conversations,       *)
(* messages and workers, and every value of the windows and the bounds.     *)
EXTENDS Assembly, TLAPS

(* The timer upsert yields an armed row, under a generation that a leased   *)
(* or fired row had not reached.                                            *)
LEMMA IngestedTimer ==
  ASSUME AssemblyAssumption,
         NEW t \in TimerRow, NEW at \in Nat,
         t.token = NoLease <=> t.expires = Never,
         t.token # NoLease => t.fired = Never,
         NEW u, u = TimerOnIngest(t, at)
  PROVE  /\ u \in TimerRow
         /\ u.fired = Never
         /\ u.generation >= t.generation
         /\ u.generation > 0
         /\ u.token = NoLease <=> u.expires = Never
         /\ u.token # NoLease => /\ u.token = t.token
                                 /\ u.generation > t.generation
<1> DEFINE due == at + QUIET_WINDOW
           hard == at + BURST_LIMIT
<1>1. due \in Nat /\ hard \in Nat
  BY DEF AssemblyAssumption
<1>2. /\ t.due \in Nat /\ t.hard \in Nat /\ t.generation \in Nat
      /\ t.token \in Nat /\ t.expires \in Nat \cup {Never}
      /\ t = [due |-> t.due, hard |-> t.hard, generation |-> t.generation,
              token |-> t.token, expires |-> t.expires, fired |-> t.fired]
  BY DEF TimerRow
<1> HIDE DEF due, hard
<1>3. CASE t.generation = 0
  <2>1. u = [due |-> due, hard |-> hard, generation |-> 1, token |-> NoLease,
             expires |-> Never, fired |-> Never]
    BY <1>3 DEF TimerOnIngest, ArmedTimer, due, hard
  <2>2. QED
    BY <1>1, <1>3, <2>1 DEF TimerRow, NoLease, Never
<1>4. CASE t.generation > 0 /\ t.fired # Never
  <2>1. u = [due |-> due, hard |-> hard, generation |-> t.generation + 1,
             token |-> NoLease, expires |-> Never, fired |-> Never]
    BY <1>2, <1>4 DEF TimerOnIngest, ArmedTimer, due, hard
  <2>2. QED
    BY <1>1, <1>2, <1>4, <2>1 DEF TimerRow, NoLease, Never
<1>5. CASE t.generation > 0 /\ t.fired = Never /\ t.token # NoLease
  <2>1. u = [t EXCEPT !.due = due, !.hard = hard,
                      !.generation = t.generation + 1]
    BY <1>5 DEF TimerOnIngest, due, hard
  <2>2. u = [due |-> due, hard |-> hard, generation |-> t.generation + 1,
             token |-> t.token, expires |-> t.expires, fired |-> t.fired]
    BY <1>2, <2>1
  <2>3. QED
    BY <1>1, <1>2, <1>5, <2>2 DEF TimerRow, NoLease, Never
<1>6. CASE t.generation > 0 /\ t.fired = Never /\ t.token = NoLease
  <2>1. u = [due |-> Min2(t.hard, due), hard |-> t.hard,
             generation |-> t.generation, token |-> t.token,
             expires |-> t.expires, fired |-> t.fired]
    BY <1>2, <1>6 DEF TimerOnIngest, due
  <2>2. Min2(t.hard, due) \in Nat
    BY <1>1, <1>2 DEF Min2
  <2>3. QED
    BY <1>2, <1>6, <2>1, <2>2 DEF TimerRow, NoLease, Never
<1>7. QED
  BY <1>2, <1>3, <1>4, <1>5, <1>6

-----------------------------------------------------------------------------
(* Type correctness and the inductive invariant *)

LEMMA NoTransactionType ==
  /\ NoTransaction \in Transaction
  /\ NoTransaction.batch = {} /\ NoTransaction.target = NoCase
  /\ \A m \in Messages : NoTransaction.links[m] = NoCase
BY DEF NoTransaction, Transaction

LEMMA InitAssemblyInv ==
  ASSUME AssemblyAssumption, NoCaseAssumption, Init
  PROVE  AssemblyInv
<1>1. NoTimer \in TimerRow
  BY DEF NoTimer, ArmedTimer, TimerRow, NoLease, Never
<1>2. IdleWorker \in WorkerState
  BY DEF IdleWorker, WorkerState, NoLease
<1>3. TypeOK
  BY <1>1, <1>2, NoTransactionType
     DEF Init, TypeOK, NoTimer, ArmedTimer, NoLease, Never
<1>4. ClaimsAreFenced /\ HolderMissesNothing
  BY DEF Init, ClaimsAreFenced, HolderMissesNothing, HoldsClaim, IdleWorker,
         NoTimer, ArmedTimer, NoLease, Never
<1>5. LinkRowsAreExclusive
  <2>1. \A w \in Workers : worker[w].pc = "idle" /\ txn[w] = NoTransaction
    BY DEF Init, IdleWorker
  <2>2. QED
    BY <2>1, NoTransactionType DEF LinkRowsAreExclusive
<1>6. FiredCoversReceived
  BY DEF Init, FiredCoversReceived, HasTimer, NoTimer, ArmedTimer
<1>7. QED
  BY <1>3, <1>4, <1>5, <1>6 DEF AssemblyInv

(* Ingest: whoever held the lease of the conversation loses it, because the *)
(* upsert clears the token or bumps the generation; other conversations'    *)
(* pending sets are untouched.                                              *)
LEMMA IngestKeepsInv ==
  ASSUME AssemblyAssumption, AssemblyInv,
         NEW m \in Messages, NEW at \in Time, Ingest(m, at)
  PROVE  AssemblyInv'
<1> DEFINE c == ConversationOf[m]
           u == TimerOnIngest(timer[c], at)
<1> USE DEF AssemblyInv
<1>1. /\ c \in Conversations /\ at \in Nat
      /\ timer[c] \in TimerRow
      /\ received' = [received EXCEPT ![m] = at]
      /\ timer' = [timer EXCEPT ![c] = u]
      /\ ~Stored(m)
      /\ UNCHANGED <<clock, link, snapshots, announced, worker, txn>>
  BY DEF Ingest, AssemblyAssumption, TypeOK, Time, cases
<1>2. /\ u \in TimerRow
      /\ u.fired = Never
      /\ u.generation >= timer[c].generation
      /\ u.generation > 0
      /\ u.token = NoLease <=> u.expires = Never
      /\ u.token # NoLease => /\ u.token = timer[c].token
                              /\ u.generation > timer[c].generation
  <2>1. /\ timer[c].token = NoLease <=> timer[c].expires = Never
        /\ timer[c].token # NoLease => timer[c].fired = Never
    BY <1>1 DEF TypeOK, ClaimsAreFenced
  <2>2. QED
    BY <1>1, <2>1, IngestedTimer
<1> HIDE DEF u, c
<1>3. /\ timer'[c] = u
      /\ \A d \in Conversations : d # c => timer'[d] = timer[d]
      /\ timer' \in [Conversations -> TimerRow]
  BY <1>1, <1>2 DEF TypeOK
<1>4. /\ received' \in [Messages -> Nat \cup {Never}]
      /\ received'[m] = at
      /\ \A n \in Messages : n # m => received'[n] = received[n]
      /\ \A n \in Messages : Stored(n) => Stored(n)'
  BY <1>1 DEF TypeOK, Stored, Never
<1>5. TypeOK'
  BY <1>1, <1>2, <1>3, <1>4 DEF TypeOK
<1>6. ClaimsAreFenced'
  <2>1. \A d \in Conversations :
          /\ timer'[d].token <= timer'[d].generation
          /\ timer'[d].token # NoLease => timer'[d].fired = Never
          /\ timer[d].generation <= timer'[d].generation
    BY <1>1, <1>2, <1>3 DEF ClaimsAreFenced, TypeOK, TimerRow, NoLease
  <2>2. ASSUME NEW w \in Workers, HoldsClaim(w)
        PROVE  /\ worker[w].conversation \in Conversations
               /\ worker[w].token # NoLease
               /\ worker[w].generation
                    <= timer'[worker[w].conversation].generation
    <3>1. /\ worker[w].conversation \in Conversations
          /\ worker[w].token # NoLease
          /\ worker[w].generation
               <= timer[worker[w].conversation].generation
          /\ worker[w].generation \in Nat
      BY <2>2 DEF ClaimsAreFenced, TypeOK, WorkerState
    <3>2. \A d \in Conversations : /\ timer[d].generation \in Nat
                                   /\ timer'[d].generation \in Nat
      BY <1>3 DEF TypeOK, TimerRow
    <3>3. QED
      BY <2>1, <3>1, <3>2
  <2>3. QED
    BY <1>1, <2>1, <2>2 DEF ClaimsAreFenced, HoldsClaim
<1>7. HolderMissesNothing'
  <2>1. SUFFICES ASSUME NEW w \in Workers, HoldsClaim(w)', HoldsLease(w)'
                 PROVE  /\ worker[w].conversation # c
                        /\ HoldsClaim(w) /\ HoldsLease(w)
                        /\ Pending(worker[w].conversation, worker[w].now)'
                             = Pending(worker[w].conversation, worker[w].now)
    BY <1>1 DEF HolderMissesNothing
  <2>2. HoldsClaim(w) /\ worker[w].conversation \in Conversations
    BY <1>1, <2>1 DEF HoldsClaim, ClaimsAreFenced
  <2>3. worker[w].conversation # c
    <3>1. ASSUME worker[w].conversation = c PROVE FALSE
      <4>1. /\ u.token = worker[w].token
            /\ u.generation = worker[w].generation
            /\ worker[w].token # NoLease
            /\ worker[w].generation <= timer[c].generation
        BY <1>1, <1>3, <2>1, <2>2, <3>1 DEF HoldsLease, ClaimsAreFenced
      <4>2. QED
        BY <1>1, <1>2, <4>1 DEF TimerRow
    <3>2. QED
      BY <3>1
  <2>4. HoldsLease(w)
    BY <1>1, <1>3, <2>1, <2>2, <2>3 DEF HoldsLease
  <2>5. Pending(worker[w].conversation, worker[w].now)'
          = Pending(worker[w].conversation, worker[w].now)
    BY <1>1, <1>4, <2>3 DEF Pending, Stored, Linked, c
  <2>6. QED
    BY <2>2, <2>3, <2>4, <2>5
<1>8. FiredCoversReceived'
  BY <1>1, <1>2, <1>3, <1>4
     DEF FiredCoversReceived, HasTimer, Armed, Stored, Linked, c
<1>9. LinkRowsAreExclusive'
  <2>1. \A w \in Workers : txn[w].batch \subseteq Messages
    BY DEF TypeOK, Transaction
  <2>2. QED
    BY <1>1, <1>4, <2>1 DEF LinkRowsAreExclusive, InTransaction, Linked
<1>10. QED
  BY <1>5, <1>6, <1>7, <1>8, <1>9

(* A claim starts a new generation under a fresh token, so every earlier    *)
(* holder of the conversation is fenced off.                                *)
LEMMA ClaimKeepsInv ==
  ASSUME AssemblyAssumption, AssemblyInv,
         NEW w \in Workers, NEW c \in Conversations, Claim(w, c)
  PROVE  AssemblyInv'
<1> DEFINE g == timer[c].generation + 1
           until == worker[w].now + ASSEMBLY_LEASE
<1> USE DEF AssemblyInv
<1>1. /\ timer' = [timer EXCEPT ![c].token = g, ![c].generation = g,
                                ![c].expires = until]
      /\ worker' = [worker EXCEPT ![w].pc = "claimed",
                                  ![w].conversation = c,
                                  ![w].generation = g, ![w].token = g]
      /\ Armed(c)
      /\ worker[w].pc = "looping"
      /\ UNCHANGED <<clock, received, link, snapshots, announced, txn>>
  BY DEF Claim, Claimable, cases
<1>2. /\ timer \in [Conversations -> TimerRow]
      /\ worker \in [Workers -> WorkerState]
      /\ worker[w].now \in Nat /\ timer[c].generation \in Nat
  BY DEF TypeOK, TimerRow, WorkerState
<1>3. g \in Nat /\ g # NoLease /\ g > timer[c].generation /\ until \in Nat
  BY <1>2 DEF AssemblyAssumption, NoLease
<1> HIDE DEF g, until
<1>4. /\ timer' \in [Conversations -> TimerRow]
      /\ timer'[c].token = g /\ timer'[c].generation = g
      /\ timer'[c].expires = until /\ timer'[c].fired = timer[c].fired
      /\ \A d \in Conversations : d # c => timer'[d] = timer[d]
  BY <1>1, <1>2, <1>3 DEF TimerRow
<1>5. /\ worker' \in [Workers -> WorkerState]
      /\ worker'[w].pc = "claimed" /\ worker'[w].conversation = c
      /\ worker'[w].generation = g /\ worker'[w].token = g
      /\ \A v \in Workers : v # w => worker'[v] = worker[v]
  <2> DEFINE me == [worker[w] EXCEPT !.pc = "claimed", !.conversation = c,
                                     !.generation = g, !.token = g]
  <2>1. /\ worker' = [worker EXCEPT ![w] = me]
        /\ worker[w] \in WorkerState
    BY <1>1, <1>2
  <2>2. /\ me \in WorkerState
        /\ me.pc = "claimed" /\ me.conversation = c
        /\ me.generation = g /\ me.token = g
    BY <1>3, <2>1 DEF WorkerState
  <2> HIDE DEF me
  <2>3. QED
    BY <1>2, <2>1, <2>2
<1>6. TypeOK'
  <2>1. \A d \in Conversations :
          timer'[d].token = NoLease <=> timer'[d].expires = Never
    <3>1. \A d \in Conversations :
            timer[d].token = NoLease <=> timer[d].expires = Never
      BY DEF TypeOK
    <3>2. until # Never
      BY <1>3 DEF Never
    <3>3. QED
      BY <1>3, <1>4, <3>1, <3>2
  <2>2. QED
    BY <1>1, <1>4, <1>5, <2>1 DEF TypeOK
<1>7. ClaimsAreFenced'
  <2>1. \A d \in Conversations :
          /\ timer'[d].token <= timer'[d].generation
          /\ timer'[d].token # NoLease => timer'[d].fired = Never
          /\ timer[d].generation <= timer'[d].generation
          /\ timer[d].generation \in Nat /\ timer'[d].generation \in Nat
    BY <1>1, <1>2, <1>3, <1>4 DEF ClaimsAreFenced, Armed, TimerRow
  <2>2. ASSUME NEW v \in Workers, HoldsClaim(v)'
        PROVE  /\ worker'[v].conversation \in Conversations
               /\ worker'[v].token # NoLease
               /\ worker'[v].generation
                    <= timer'[worker'[v].conversation].generation
    <3>1. CASE v = w
      BY <1>3, <1>4, <1>5, <3>1
    <3>2. CASE v # w
      <4>1. HoldsClaim(v) /\ worker'[v] = worker[v]
        BY <1>5, <2>2, <3>2 DEF HoldsClaim
      <4>2. /\ worker[v].conversation \in Conversations
            /\ worker[v].token # NoLease
            /\ worker[v].generation
                 <= timer[worker[v].conversation].generation
            /\ worker[v].generation \in Nat
        BY <1>2, <4>1 DEF ClaimsAreFenced, WorkerState
      <4>3. QED
        BY <2>1, <4>1, <4>2
    <3>3. QED
      BY <3>1, <3>2
  <2>3. QED
    BY <2>1, <2>2 DEF ClaimsAreFenced
<1>8. HolderMissesNothing'
  <2>1. SUFFICES ASSUME NEW v \in Workers, HoldsClaim(v)', HoldsLease(v)', v # w
                 PROVE  /\ HoldsClaim(v) /\ HoldsLease(v)
                        /\ worker'[v] = worker[v]
    BY <1>1, <1>5 DEF HolderMissesNothing, Pending, Stored, Linked
  <2>2. HoldsClaim(v) /\ worker'[v] = worker[v]
    BY <1>5, <2>1 DEF HoldsClaim
  <2>3. worker[v].conversation # c
    <3>1. ASSUME worker[v].conversation = c PROVE FALSE
      BY <1>2, <1>3, <1>4, <2>1, <2>2, <3>1
         DEF HoldsLease, ClaimsAreFenced, WorkerState
    <3>2. QED
      BY <3>1
  <2>4. QED
    BY <1>4, <2>1, <2>2, <2>3 DEF HoldsLease, ClaimsAreFenced
<1>9. FiredCoversReceived'
  <2>1. \A d \in Conversations :
          (HasTimer(d) /\ ~Armed(d))' =>
            HasTimer(d) /\ ~Armed(d) /\ timer'[d].fired = timer[d].fired
    BY <1>1, <1>4 DEF HasTimer, Armed
  <2>2. QED
    BY <1>1, <2>1 DEF FiredCoversReceived, Stored, Linked
<1>10. LinkRowsAreExclusive'
  BY <1>1, <1>5 DEF LinkRowsAreExclusive, InTransaction, Linked, Stored
<1>11. QED
  BY <1>6, <1>7, <1>8, <1>9, <1>10

(* A step of a worker that ends without a claim and without a transaction:  *)
(* starting or ending a pass, losing the lease at finalize, crashing,       *)
(* restarting.                                                              *)
LEMMA UnclaimedStepKeepsInv ==
  ASSUME AssemblyInv,
         NEW w \in Workers, NEW x \in WorkerState,
         x.pc \in {"idle", "looping", "down"},
         worker' = [worker EXCEPT ![w] = x],
         txn' = [txn EXCEPT ![w] = NoTransaction],
         UNCHANGED <<clock, received, timer, link, snapshots, announced>>
  PROVE  AssemblyInv'
<1> USE DEF AssemblyInv
<1>1. /\ worker' \in [Workers -> WorkerState]
      /\ worker'[w] = x
      /\ \A v \in Workers : v # w => worker'[v] = worker[v]
  BY DEF TypeOK
<1>2. /\ txn' \in [Workers -> Transaction]
      /\ txn'[w] = NoTransaction
      /\ \A v \in Workers : v # w => txn'[v] = txn[v]
  BY NoTransactionType DEF TypeOK
<1>3. \A v \in Workers : HoldsClaim(v)' => /\ v # w /\ HoldsClaim(v)
                                           /\ worker'[v] = worker[v]
                                           /\ txn'[v] = txn[v]
  BY <1>1, <1>2 DEF HoldsClaim
<1>4. TypeOK'
  BY <1>1, <1>2 DEF TypeOK
<1>5. ClaimsAreFenced'
  BY <1>3 DEF ClaimsAreFenced
<1>6. HolderMissesNothing'
  BY <1>3 DEF HolderMissesNothing, HoldsLease, Pending, Stored, Linked
<1>7. LinkRowsAreExclusive'
  BY <1>1, <1>2, NoTransactionType
     DEF LinkRowsAreExclusive, InTransaction, Stored, Linked
<1>8. FiredCoversReceived'
  BY DEF FiredCoversReceived, HasTimer, Armed, Stored, Linked
<1>9. QED
  BY <1>4, <1>5, <1>6, <1>7, <1>8

(* A state tx of the open transaction of w that keeps the row locks and has *)
(* dropped no message that is still to link.                                *)
Lawful(w, pc, tx) ==
  /\ pc = "drafted" => tx.batch = {}
  /\ tx.target # NoCase => tx.batch # {}
  /\ \A m \in tx.batch : Stored(m) /\ tx.links[m] = NoCase
  /\ \A m \in Messages : tx.links[m] # NoCase =>
       /\ Stored(m) /\ ~Linked(m)
       /\ \A v \in Workers \ {w} : txn[v].links[m] = NoCase
  /\ HoldsLease(w) =>
       \A m \in Pending(worker[w].conversation, worker[w].now) :
         m \in tx.batch \/ tx.links[m] # NoCase

(* A statement of the transaction of assemble commits nothing: it keeps the *)
(* invariant if it leaves the transaction lawful.                           *)
LEMMA TransactionStepKeepsInv ==
  ASSUME AssemblyInv,
         NEW w \in Workers, HoldsClaim(w), worker[w].pc # "assembled",
         NEW pc \in {"linking", "drafted"}, NEW tx \in Transaction,
         worker' = [worker EXCEPT ![w].pc = pc],
         txn' = [txn EXCEPT ![w] = tx],
         UNCHANGED <<clock, received, timer, link, snapshots, announced>>,
         Lawful(w, pc, tx)
  PROVE  AssemblyInv'
<1> DEFINE me == [worker[w] EXCEPT !.pc = pc]
<1> USE DEF AssemblyInv
<1>1. /\ worker' = [worker EXCEPT ![w] = me]
      /\ worker \in [Workers -> WorkerState]
      /\ txn \in [Workers -> Transaction]
  BY DEF TypeOK
<1>2. /\ me \in WorkerState /\ me.pc = pc
      /\ me.now = worker[w].now /\ me.conversation = worker[w].conversation
      /\ me.generation = worker[w].generation /\ me.token = worker[w].token
  BY <1>1 DEF WorkerState
<1> HIDE DEF me
<1>3. /\ worker' \in [Workers -> WorkerState]
      /\ worker'[w] = me
      /\ \A v \in Workers : v # w => worker'[v] = worker[v]
      /\ txn' \in [Workers -> Transaction]
      /\ txn'[w] = tx
      /\ \A v \in Workers : v # w => txn'[v] = txn[v]
  BY <1>1, <1>2
<1>4. \A v \in Workers :
        /\ HoldsClaim(v)' <=> HoldsClaim(v)
        /\ HoldsLease(v)' <=> HoldsLease(v)
        /\ worker'[v].conversation = worker[v].conversation
        /\ worker'[v].generation = worker[v].generation
        /\ worker'[v].token = worker[v].token
        /\ worker'[v].now = worker[v].now
  BY <1>2, <1>3 DEF HoldsClaim, HoldsLease
<1>5. TypeOK'
  BY <1>3 DEF TypeOK
<1>6. ClaimsAreFenced'
  BY <1>4 DEF ClaimsAreFenced
<1>7. HolderMissesNothing'
  <2>1. \A c, now : Pending(c, now)' = Pending(c, now)
    BY DEF Pending, Stored, Linked
  <2>2. ASSUME NEW v \in Workers, HoldsClaim(v), HoldsLease(v),
               worker'[v].pc # "claimed",
               NEW m \in Pending(worker[v].conversation, worker[v].now)
        PROVE  m \in txn'[v].batch \/ txn'[v].links[m] # NoCase
    <3>1. CASE v = w
      BY <1>3, <2>2, <3>1 DEF Lawful
    <3>2. CASE v # w
      BY <1>3, <2>2, <3>2 DEF HolderMissesNothing
    <3>3. QED
      BY <3>1, <3>2
  <2>3. QED
    BY <1>4, <2>1, <2>2 DEF HolderMissesNothing
<1>8. LinkRowsAreExclusive'
  <2>1. \A m \in Messages : (Stored(m)' <=> Stored(m)) /\ (Linked(m)' <=> Linked(m))
    BY DEF Stored, Linked
  <2>2. tx.batch \subseteq Messages /\ \A v \in Workers : txn[v].batch \subseteq Messages
    BY <1>1 DEF Transaction
  <2>3. ASSUME NEW v \in Workers
        PROVE  /\ ~InTransaction(v)' => txn'[v] = NoTransaction
               /\ worker'[v].pc = "drafted" => txn'[v].batch = {}
               /\ txn'[v].target # NoCase => txn'[v].batch # {}
               /\ \A m \in txn'[v].batch : Stored(m)' /\ txn'[v].links[m] = NoCase
               /\ \A m \in Messages : txn'[v].links[m] # NoCase =>
                    /\ Stored(m)' /\ ~Linked(m)'
                    /\ \A u \in Workers \ {v} : txn'[u].links[m] = NoCase
    <3>1. CASE v = w
      BY <1>2, <1>3, <2>1, <2>2, <3>1 DEF InTransaction, Lawful
    <3>2. CASE v # w
      <4>1. /\ txn'[v] = txn[v] /\ worker'[v] = worker[v]
            /\ InTransaction(v)' <=> InTransaction(v)
        BY <1>3, <3>2 DEF InTransaction
      <4>2. \A m \in Messages : txn[v].links[m] # NoCase => tx.links[m] = NoCase
        BY <3>2 DEF Lawful
      <4>3. QED
        BY <1>3, <2>1, <2>2, <3>2, <4>1, <4>2 DEF LinkRowsAreExclusive
    <3>3. QED
      BY <3>1, <3>2
  <2>4. QED
    BY <2>3 DEF LinkRowsAreExclusive
<1>9. FiredCoversReceived'
  BY DEF FiredCoversReceived, HasTimer, Armed, Stored, Linked
<1>10. QED
  BY <1>5, <1>6, <1>7, <1>8, <1>9

(* The transaction starts from what its SELECT sees: every pending message  *)
(* of the conversation.                                                     *)
LEMMA SelectKeepsInv ==
  ASSUME AssemblyInv, NEW w \in Workers, AssembleSelect(w)
  PROVE  AssemblyInv'
<1> DEFINE pending == Pending(worker[w].conversation, worker[w].now)
           tx == [txn[w] EXCEPT !.batch = pending]
<1>1. /\ worker[w].pc = "claimed" /\ HoldsClaim(w)
      /\ worker' = [worker EXCEPT ![w].pc = "linking"]
      /\ txn' = [txn EXCEPT ![w] = tx]
      /\ UNCHANGED <<clock, received, timer, link, snapshots, announced>>
  BY DEF AssembleSelect, HoldsClaim, cases
<1>2. txn[w] = NoTransaction
  BY <1>1 DEF AssemblyInv, LinkRowsAreExclusive, InTransaction
<1>3. pending \subseteq Messages /\ \A m \in pending : Stored(m)
  BY DEF Pending
<1> HIDE DEF pending
<1>4. /\ tx \in Transaction /\ tx.batch = pending /\ tx.target = NoCase
      /\ \A m \in Messages : tx.links[m] = NoCase
  BY <1>2, <1>3, NoTransactionType DEF Transaction
<1> HIDE DEF tx
<1>5. Lawful(w, "linking", tx)
  BY <1>3, <1>4 DEF Lawful, pending
<1>6. QED
  BY <1>1, <1>4, <1>5, TransactionStepKeepsInv

(* Facts about an open transaction that the steps within it rest on. *)
LEMMA OpenTransaction ==
  ASSUME AssemblyInv, NEW w \in Workers, InTransaction(w)
  PROVE  /\ HoldsClaim(w) /\ worker[w].pc # "assembled"
         /\ txn[w] \in Transaction
         /\ Lawful(w, worker[w].pc, txn[w])
<1>1. HoldsClaim(w) /\ worker[w].pc \notin {"claimed", "assembled"}
  BY DEF InTransaction, HoldsClaim
<1>2. QED
  BY <1>1 DEF AssemblyInv, TypeOK, LinkRowsAreExclusive, HolderMissesNothing,
              Lawful

LEMMA ChooseKeepsInv ==
  ASSUME AssemblyInv, NEW w \in Workers, ChooseCase(w)
  PROVE  AssemblyInv'
<1>1. PICK k \in CaseIds :
        /\ worker[w].pc = "linking" /\ txn[w].batch # {}
        /\ txn' = [txn EXCEPT ![w].target = k]
        /\ UNCHANGED <<clock, received, timer, link, snapshots, announced, worker>>
  BY DEF ChooseCase, Firsts, cases
<1> DEFINE tx == [txn[w] EXCEPT !.target = k]
<1>2. txn' = [txn EXCEPT ![w] = tx]
  BY <1>1
<1>3. InTransaction(w)
  BY <1>1 DEF InTransaction
<1>4. worker' = [worker EXCEPT ![w].pc = "linking"]
  <2>1. worker \in [Workers -> WorkerState]
    BY DEF AssemblyInv, TypeOK
  <2>2. worker[w] = [worker[w] EXCEPT !.pc = "linking"]
    BY <1>1, <2>1 DEF WorkerState
  <2>3. QED
    BY <1>1, <2>1, <2>2
<1>5. /\ tx \in Transaction /\ tx.batch = txn[w].batch
      /\ tx.links = txn[w].links
  BY <1>3, OpenTransaction DEF Transaction
<1> HIDE DEF tx
<1>6. Lawful(w, "linking", tx)
  BY <1>1, <1>3, <1>5, OpenTransaction DEF Lawful
<1>7. HoldsClaim(w) /\ worker[w].pc # "assembled"
  BY <1>3, OpenTransaction
<1>8. QED
  BY <1>1, <1>2, <1>4, <1>5, <1>6, <1>7, TransactionStepKeepsInv

(* Linking the next message: the wait for other open transactions is what   *)
(* keeps the link rows exclusive.                                           *)
LEMMA InsertKeepsInv ==
  ASSUME AssemblyInv, NEW w \in Workers, InsertLink(w)
  PROVE  AssemblyInv'
<1>1. PICK m \in txn[w].batch :
        /\ worker[w].pc = "linking" /\ txn[w].target # NoCase
        /\ \A v \in Workers \ {w} : ~Blocks(v, m, txn[w].target)
        /\ txn' = [txn EXCEPT ![w] = [txn[w] EXCEPT
             !.batch = txn[w].batch \ {m},
             !.target = NoCase,
             !.links = [txn[w].links EXCEPT ![m] =
                          IF Linked(m) THEN NoCase ELSE txn[w].target],
             !.touched = txn[w].touched \cup {txn[w].target}]]
        /\ UNCHANGED <<clock, received, timer, link, snapshots, announced, worker>>
  BY DEF InsertLink, Firsts, cases
<1> DEFINE k == txn[w].target
           links == [txn[w].links EXCEPT ![m] = IF Linked(m) THEN NoCase ELSE k]
           tx == [txn[w] EXCEPT !.batch = txn[w].batch \ {m}, !.target = NoCase,
                                !.links = links,
                                !.touched = txn[w].touched \cup {k}]
<1>2. txn' = [txn EXCEPT ![w] = tx]
  BY <1>1
<1>3. InTransaction(w)
  BY <1>1 DEF InTransaction
<1>4. worker' = [worker EXCEPT ![w].pc = "linking"]
  <2>1. worker \in [Workers -> WorkerState]
    BY DEF AssemblyInv, TypeOK
  <2>2. worker[w] = [worker[w] EXCEPT !.pc = "linking"]
    BY <1>1, <2>1 DEF WorkerState
  <2>3. QED
    BY <1>1, <2>1, <2>2
<1>5. /\ txn[w] \in Transaction /\ m \in Messages
      /\ k \in CaseIds
  BY <1>1, <1>3, OpenTransaction DEF Transaction
<1>6. /\ links \in [Messages -> CaseIds \cup {NoCase}]
      /\ links[m] = IF Linked(m) THEN NoCase ELSE k
      /\ \A n \in Messages : n # m => links[n] = txn[w].links[n]
  BY <1>5 DEF Transaction
<1> HIDE DEF links, k
<1>7. /\ tx \in Transaction /\ tx.batch = txn[w].batch \ {m}
      /\ tx.links = links /\ tx.target = NoCase
  BY <1>5, <1>6 DEF Transaction
<1> HIDE DEF tx
<1>8. \A n \in tx.batch : Stored(n) /\ tx.links[n] = NoCase
  <2>1. txn[w].batch \subseteq Messages
    BY <1>5 DEF Transaction
  <2>2. QED
    BY <1>3, <1>6, <1>7, <2>1, OpenTransaction DEF Lawful
<1>9. ASSUME NEW n \in Messages, tx.links[n] # NoCase
      PROVE  /\ Stored(n) /\ ~Linked(n)
             /\ \A v \in Workers \ {w} : txn[v].links[n] = NoCase
  <2>1. CASE n = m
    BY <1>1, <1>3, <1>6, <1>7, <1>9, <2>1, OpenTransaction
       DEF Blocks, Lawful
  <2>2. CASE n # m
    BY <1>3, <1>6, <1>7, <1>9, <2>2, OpenTransaction DEF Lawful
  <2>3. QED
    BY <2>1, <2>2
<1>10. ASSUME HoldsLease(w),
              NEW n \in Pending(worker[w].conversation, worker[w].now)
       PROVE  n \in tx.batch \/ tx.links[n] # NoCase
  <2>1. n \in Messages /\ ~Linked(n)
    BY DEF Pending
  <2>2. n \in txn[w].batch \/ txn[w].links[n] # NoCase
    BY <1>3, <1>10, OpenTransaction DEF Lawful
  <2>3. k # NoCase
    BY <1>1 DEF k
  <2>4. QED
    BY <1>6, <1>7, <2>1, <2>2, <2>3
<1>11. HoldsClaim(w) /\ worker[w].pc # "assembled"
  BY <1>3, OpenTransaction
<1>12. Lawful(w, "linking", tx)
  BY <1>7, <1>8, <1>9, <1>10 DEF Lawful
<1>13. QED
  BY <1>1, <1>2, <1>4, <1>7, <1>11, <1>12, TransactionStepKeepsInv

LEMMA ReadKeepsInv ==
  ASSUME AssemblyInv, NEW w \in Workers, ReadSnapshots(w)
  PROVE  AssemblyInv'
<1> DEFINE number == [k \in CaseIds |->
             IF k \in txn[w].touched THEN NextRevision(k) ELSE 0]
           evidence == [k \in CaseIds |->
             IF k \in txn[w].touched THEN Evidence(w, k) ELSE {}]
           tx == [txn[w] EXCEPT !.number = number, !.evidence = evidence]
<1>1. /\ worker[w].pc = "linking" /\ txn[w].batch = {}
      /\ worker' = [worker EXCEPT ![w].pc = "drafted"]
      /\ txn' = [txn EXCEPT ![w] = tx]
      /\ UNCHANGED <<clock, received, timer, link, snapshots, announced>>
  BY DEF ReadSnapshots, cases
<1>2. InTransaction(w)
  BY <1>1 DEF InTransaction
<1>3. number \in [CaseIds -> Nat] /\ evidence \in [CaseIds -> SUBSET Messages]
  <2>1. \A k \in CaseIds : Len(snapshots[k]) \in Nat
    BY DEF AssemblyInv, TypeOK
  <2>2. QED
    BY <2>1 DEF NextRevision, Evidence
<1> HIDE DEF number, evidence
<1>4. /\ tx \in Transaction /\ tx.batch = txn[w].batch
      /\ tx.links = txn[w].links /\ tx.target = txn[w].target
  BY <1>2, <1>3, OpenTransaction DEF Transaction
<1> HIDE DEF tx
<1>5. tx.target = NoCase
  BY <1>1, <1>4 DEF AssemblyInv, LinkRowsAreExclusive
<1>6. Lawful(w, "drafted", tx)
  BY <1>1, <1>2, <1>4, <1>5, OpenTransaction DEF Lawful
<1>7. HoldsClaim(w) /\ worker[w].pc # "assembled"
  BY <1>2, OpenTransaction
<1>8. QED
  BY <1>1, <1>4, <1>6, <1>7, TransactionStepKeepsInv

(* What a commit does to the links: it adds the transaction's own, which    *)
(* the row locks have kept off every linked message.                        *)
LEMMA CommittedLinks ==
  ASSUME AssemblyInv, NEW w \in Workers, AssembleCommit(w)
  PROVE  /\ link' \in [Messages -> CaseIds \cup {NoCase}]
         /\ \A m \in Messages : Linked(m) =>
              link'[m] = link[m] /\ txn[w].links[m] = NoCase
         /\ \A m \in Messages : txn[w].links[m] # NoCase =>
              link'[m] = txn[w].links[m]
         /\ \A m \in Messages : txn[w].links[m] = NoCase => link'[m] = link[m]
<1>1. InTransaction(w) /\ link' = View(w)
  BY DEF AssembleCommit, InTransaction
<1>2. txn[w].links \in [Messages -> CaseIds \cup {NoCase}]
  BY <1>1, OpenTransaction DEF Transaction
<1>3. link \in [Messages -> CaseIds \cup {NoCase}]
  BY DEF AssemblyInv, TypeOK
<1>4. QED
  BY <1>1, <1>2, <1>3, OpenTransaction DEF View, Lawful

LEMMA CommitKeepsInv ==
  ASSUME AssemblyInv, NEW w \in Workers, AssembleCommit(w)
  PROVE  AssemblyInv'
<1> DEFINE me == [worker[w] EXCEPT !.pc = "assembled"]
<1> USE DEF AssemblyInv
<1>1. /\ worker' = [worker EXCEPT ![w] = me]
      /\ txn' = [txn EXCEPT ![w] = NoTransaction]
      /\ worker[w].pc = "drafted" /\ HoldsClaim(w)
      /\ UNCHANGED <<clock, received, timer>>
      /\ worker \in [Workers -> WorkerState]
      /\ txn \in [Workers -> Transaction]
  BY DEF AssembleCommit, TypeOK, HoldsClaim
<1>2. /\ me \in WorkerState /\ me.pc = "assembled"
      /\ me.now = worker[w].now /\ me.conversation = worker[w].conversation
      /\ me.generation = worker[w].generation /\ me.token = worker[w].token
  BY <1>1 DEF WorkerState
<1> HIDE DEF me
<1>3. /\ worker' \in [Workers -> WorkerState]
      /\ worker'[w] = me
      /\ \A v \in Workers : v # w => worker'[v] = worker[v]
      /\ txn' \in [Workers -> Transaction]
      /\ txn'[w] = NoTransaction
      /\ \A v \in Workers : v # w => txn'[v] = txn[v]
  BY <1>1, <1>2, NoTransactionType
<1>4. \A v \in Workers :
        /\ HoldsClaim(v)' <=> HoldsClaim(v)
        /\ HoldsLease(v)' <=> HoldsLease(v)
        /\ worker'[v].conversation = worker[v].conversation
        /\ worker'[v].generation = worker[v].generation
        /\ worker'[v].token = worker[v].token
        /\ worker'[v].now = worker[v].now
  BY <1>1, <1>2, <1>3 DEF HoldsClaim, HoldsLease
<1>5. \A m \in Messages : /\ Linked(m) => Linked(m)'
                          /\ txn[w].links[m] # NoCase => Linked(m)'
                          /\ txn[w].links[m] = NoCase => (Linked(m)' <=> Linked(m))
                          /\ Stored(m)' <=> Stored(m)
  BY <1>1, CommittedLinks DEF Linked, Stored
<1>6. TypeOK'
  <2>1. snapshots' \in [CaseIds -> Seq(SUBSET Messages)]
    <3>1. \A k \in CaseIds : txn[w].evidence[k] \in SUBSET Messages
      BY <1>1 DEF Transaction
    <3>2. \A k \in CaseIds : snapshots[k] \in Seq(SUBSET Messages)
      BY DEF TypeOK
    <3>3. QED
      BY <3>1, <3>2 DEF AssembleCommit
  <2>2. announced' \in [CaseIds -> Seq(Nat)]
    <3>1. \A k \in CaseIds : txn[w].number[k] \in Nat
      BY <1>1 DEF Transaction
    <3>2. \A k \in CaseIds : announced[k] \in Seq(Nat)
      BY DEF TypeOK
    <3>3. QED
      BY <3>1, <3>2 DEF AssembleCommit
  <2>3. link' \in [Messages -> CaseIds \cup {NoCase}]
    BY CommittedLinks
  <2>4. QED
    BY <1>1, <1>3, <2>1, <2>2, <2>3 DEF TypeOK
<1>7. ClaimsAreFenced'
  BY <1>1, <1>4 DEF ClaimsAreFenced
<1>8. HolderMissesNothing'
  <2>1. ASSUME NEW v \in Workers, HoldsClaim(v), HoldsLease(v),
               worker'[v].pc # "claimed", NEW m \in Messages,
               ConversationOf[m] = worker[v].conversation,
               Stored(m), received[m] <= worker[v].now, ~Linked(m)'
        PROVE  m \in txn'[v].batch \/ txn'[v].links[m] # NoCase
    <3>1. m \in Pending(worker[v].conversation, worker[v].now)
      BY <1>5, <2>1 DEF Pending
    <3>2. CASE v = w
      <4>1. m \in txn[w].batch \/ txn[w].links[m] # NoCase
        BY <1>1, <2>1, <3>1, <3>2 DEF HolderMissesNothing
      <4>2. txn[w].batch = {}
        BY <1>1 DEF LinkRowsAreExclusive
      <4>3. QED
        BY <1>5, <2>1, <4>1, <4>2
    <3>3. CASE v # w
      BY <1>3, <2>1, <3>1, <3>3 DEF HolderMissesNothing
    <3>4. QED
      BY <3>2, <3>3
  <2>2. QED
    BY <1>1, <1>4, <1>5, <2>1 DEF HolderMissesNothing, Pending
<1>9. LinkRowsAreExclusive'
  <2>1. ASSUME NEW v \in Workers
        PROVE  /\ ~InTransaction(v)' => txn'[v] = NoTransaction
               /\ worker'[v].pc = "drafted" => txn'[v].batch = {}
               /\ txn'[v].target # NoCase => txn'[v].batch # {}
               /\ \A m \in txn'[v].batch : Stored(m)' /\ txn'[v].links[m] = NoCase
               /\ \A m \in Messages : txn'[v].links[m] # NoCase =>
                    /\ Stored(m)' /\ ~Linked(m)'
                    /\ \A u \in Workers \ {v} : txn'[u].links[m] = NoCase
    <3>1. CASE v = w
      BY <1>2, <1>3, <3>1, NoTransactionType DEF InTransaction
    <3>2. CASE v # w
      <4>1. /\ txn'[v] = txn[v] /\ worker'[v] = worker[v]
            /\ InTransaction(v)' <=> InTransaction(v)
            /\ txn[v].batch \subseteq Messages
        BY <1>1, <1>3, <3>2 DEF InTransaction, Transaction
      <4>2. \A m \in Messages : txn[v].links[m] # NoCase => txn[w].links[m] = NoCase
        BY <3>2 DEF LinkRowsAreExclusive
      <4>3. \A u \in Workers, m \in Messages :
              txn[u].links[m] = NoCase => txn'[u].links[m] = NoCase
        BY <1>3, NoTransactionType
      <4>4. QED
        BY <1>5, <3>2, <4>1, <4>2, <4>3 DEF LinkRowsAreExclusive
    <3>3. QED
      BY <3>1, <3>2
  <2>2. QED
    BY <2>1 DEF LinkRowsAreExclusive
<1>10. FiredCoversReceived'
  BY <1>1, <1>5 DEF FiredCoversReceived, HasTimer, Armed, Stored
<1>11. QED
  BY <1>6, <1>7, <1>8, <1>9, <1>10

(* Finalize: the holder of the lease has linked all that was pending at its *)
(* now, which is the instant the timer is marked fired at.                  *)
LEMMA FinalizeKeepsInv ==
  ASSUME AssemblyAssumption, AssemblyInv, NEW w \in Workers, Finalize(w)
  PROVE  AssemblyInv'
<1> DEFINE c == worker[w].conversation
           now == worker[w].now
           me == [IdleWorker EXCEPT !.pc = "looping", !.now = now]
           t == [timer[c] EXCEPT !.fired = now, !.token = NoLease,
                                 !.expires = Never]
<1> USE DEF AssemblyInv
<1>1. /\ worker' = [worker EXCEPT ![w] = me]
      /\ timer' = [timer EXCEPT ![c] = t]
      /\ worker[w].pc = "assembled" /\ HoldsClaim(w) /\ HoldsLease(w)
      /\ UNCHANGED <<clock, received, link, snapshots, announced, txn>>
      /\ worker \in [Workers -> WorkerState]
      /\ timer \in [Conversations -> TimerRow]
      /\ c \in Conversations /\ now \in Nat
  BY DEF Finalize, TypeOK, HoldsClaim, ClaimsAreFenced, WorkerState, cases
<1>2. /\ me \in WorkerState /\ me.pc = "looping"
  BY <1>1 DEF IdleWorker, WorkerState, NoLease
<1>3. /\ t \in TimerRow
      /\ t.fired = now /\ t.token = NoLease /\ t.expires = Never
      /\ t.generation = timer[c].generation
  <2>1. timer[c] \in TimerRow /\ now \in Nat
    BY <1>1
  <2>2. /\ t.fired = now /\ t.token = NoLease /\ t.expires = Never
        /\ t.generation = timer[c].generation
    BY <2>1 DEF TimerRow
  <2>3. t \in TimerRow
    BY <2>1 DEF TimerRow, NoLease, Never
  <2>4. QED
    BY <2>2, <2>3
<1>4. Pending(c, now) = {}
  <2>1. txn[w] = NoTransaction
    BY <1>1 DEF LinkRowsAreExclusive, InTransaction
  <2>2. txn[w].batch = {} /\ \A m \in Messages : txn[w].links[m] = NoCase
    BY <2>1 DEF NoTransaction
  <2>3. QED
    BY <1>1, <2>2 DEF HolderMissesNothing, Pending
<1> HIDE DEF me, t, c, now
<1>5. /\ worker' \in [Workers -> WorkerState]
      /\ worker'[w] = me
      /\ \A v \in Workers : v # w => worker'[v] = worker[v]
      /\ timer' \in [Conversations -> TimerRow]
      /\ timer'[c] = t
      /\ \A d \in Conversations : d # c => timer'[d] = timer[d]
  BY <1>1, <1>2, <1>3
<1>6. \A v \in Workers : HoldsClaim(v)' => /\ v # w /\ HoldsClaim(v)
                                           /\ worker'[v] = worker[v]
  BY <1>2, <1>5 DEF HoldsClaim
<1>7. TypeOK'
  BY <1>1, <1>3, <1>5 DEF TypeOK
<1>8. ClaimsAreFenced'
  <2>2. \A d \in Conversations :
          /\ timer'[d].token <= timer'[d].generation
          /\ timer'[d].token # NoLease => timer'[d].fired = Never
          /\ timer'[d].generation = timer[d].generation
    BY <1>1, <1>3, <1>5 DEF ClaimsAreFenced, TimerRow, NoLease
  <2>3. QED
    BY <1>6, <2>2 DEF ClaimsAreFenced
<1>9. HolderMissesNothing'
  <2>1. ASSUME NEW v \in Workers, HoldsClaim(v)', HoldsLease(v)'
        PROVE  /\ HoldsClaim(v) /\ HoldsLease(v) /\ worker'[v] = worker[v]
    <3>1. worker[v].conversation # c
      BY <1>3, <1>5, <1>6, <2>1 DEF HoldsLease, ClaimsAreFenced
    <3>2. QED
      BY <1>5, <1>6, <2>1, <3>1 DEF HoldsLease, ClaimsAreFenced
  <2>2. QED
    BY <1>1, <2>1 DEF HolderMissesNothing, Pending, Stored, Linked
<1>10. FiredCoversReceived'
  <2>1. ASSUME NEW d \in Conversations, HasTimer(d)', ~Armed(d)',
               NEW m \in Messages, ConversationOf[m] = d, Stored(m)',
               received'[m] <= timer'[d].fired
        PROVE  Linked(m)'
    <3>1. CASE d = c
      BY <1>1, <1>3, <1>4, <1>5, <2>1, <3>1 DEF Pending, Stored, Linked
    <3>2. CASE d # c
      BY <1>1, <1>5, <2>1, <3>2
         DEF FiredCoversReceived, HasTimer, Armed, Stored, Linked
    <3>3. QED
      BY <3>1, <3>2
  <2>2. QED
    BY <2>1 DEF FiredCoversReceived
<1>11. LinkRowsAreExclusive'
  <2>1. \A v \in Workers :
          /\ InTransaction(v)' <=> InTransaction(v)
          /\ worker'[v].pc = "drafted" <=> worker[v].pc = "drafted"
    BY <1>1, <1>2, <1>5 DEF InTransaction
  <2>2. QED
    BY <1>1, <2>1 DEF LinkRowsAreExclusive, Linked, Stored
<1>12. QED
  BY <1>7, <1>8, <1>9, <1>10, <1>11

LEMMA StepKeepsInv ==
  ASSUME AssemblyAssumption, AssemblyInv, [Next]_vars
  PROVE  AssemblyInv'
<1>1. CASE Tick \/ UNCHANGED vars
  <2>1. clock' \in Nat
    BY <1>1 DEF Tick, vars, AssemblyInv, TypeOK
  <2>2. UNCHANGED <<received, timer, link, snapshots, announced, worker, txn>>
    BY <1>1 DEF Tick, vars, cases
  <2>3. QED
    BY <2>1, <2>2 DEF AssemblyInv, TypeOK, ClaimsAreFenced,
       LinkRowsAreExclusive, HolderMissesNothing, FiredCoversReceived,
       HoldsClaim, InTransaction, HoldsLease, Pending, HasTimer, Armed,
       Stored, Linked
<1>2. ASSUME NEW m \in Messages, NEW at \in Time, Ingest(m, at)
      PROVE  AssemblyInv'
  BY <1>2, IngestKeepsInv
<1>3. ASSUME NEW w \in Workers, NEW c \in Conversations, Claim(w, c)
      PROVE  AssemblyInv'
  BY <1>3, ClaimKeepsInv
<1>4. ASSUME NEW w \in Workers, StartPass(w)
      PROVE  AssemblyInv'
  <2> DEFINE x == [worker[w] EXCEPT !.pc = "looping", !.now = clock]
  <2>1. x \in WorkerState /\ x.pc = "looping"
    <3>1. worker[w] \in WorkerState /\ clock \in Nat
      BY DEF AssemblyInv, TypeOK
    <3>2. QED
      BY <3>1 DEF WorkerState
  <2>2. /\ worker' = [worker EXCEPT ![w] = x]
        /\ UNCHANGED <<clock, received, timer, link, snapshots, announced, txn>>
        /\ worker[w].pc = "idle"
    BY <1>4 DEF StartPass, cases
  <2>3. txn' = [txn EXCEPT ![w] = NoTransaction]
    BY <2>2 DEF AssemblyInv, TypeOK, LinkRowsAreExclusive, InTransaction
  <2> HIDE DEF x
  <2>4. QED
    BY <2>1, <2>2, <2>3, UnclaimedStepKeepsInv
<1>5. ASSUME NEW w \in Workers,
             EndPass(w) \/ FinalizeConflict(w) \/ Crash(w) \/ Restart(w)
      PROVE  AssemblyInv'
  <2>1. IdleWorker \in WorkerState
    BY DEF IdleWorker, WorkerState, NoLease
  <2>2. PICK x \in {IdleWorker, [IdleWorker EXCEPT !.pc = "down"]} :
          /\ worker' = [worker EXCEPT ![w] = x]
          /\ UNCHANGED <<clock, received, timer, link, snapshots, announced>>
    BY <1>5 DEF EndPass, FinalizeConflict, Crash, Restart, cases
  <2>3. x \in WorkerState /\ x.pc \in {"idle", "down"}
    BY <2>1, <2>2 DEF IdleWorker, WorkerState
  <2>4. \/ txn' = [txn EXCEPT ![w] = NoTransaction]
        \/ txn' = txn /\ ~InTransaction(w)
    BY <1>5 DEF EndPass, FinalizeConflict, Crash, Restart, InTransaction
  <2>5. txn' = [txn EXCEPT ![w] = NoTransaction]
    BY <2>4 DEF AssemblyInv, TypeOK, LinkRowsAreExclusive
  <2>6. QED
    BY <2>2, <2>3, <2>5, UnclaimedStepKeepsInv
<1>6. ASSUME NEW w \in Workers,
             AssembleSelect(w) \/ ChooseCase(w) \/ InsertLink(w)
               \/ ReadSnapshots(w) \/ AssembleCommit(w)
      PROVE  AssemblyInv'
  BY <1>6, SelectKeepsInv, ChooseKeepsInv, InsertKeepsInv, ReadKeepsInv,
     CommitKeepsInv
<1>7. ASSUME NEW w \in Workers, Finalize(w)
      PROVE  AssemblyInv'
  BY <1>7, FinalizeKeepsInv
<1>8. QED
  BY <1>1, <1>2, <1>3, <1>4, <1>5, <1>6, <1>7 DEF Next, WorkerStep, Redeliver

(* The inductive invariant holds in every reachable state. *)
THEOREM AssemblyInvariant == Spec => []AssemblyInv
<1>1. Init => AssemblyInv
  BY InitAssemblyInv, AssemblyAssumption, NoCaseAssumption
<1>2. AssemblyInv /\ [Next]_vars => AssemblyInv'
  BY StepKeepsInv, AssemblyAssumption
<1>3. QED
  BY <1>1, <1>2, PTL DEF Spec

(* Every reachable state is well typed, lease columns included. *)
THEOREM AssemblyTypeCorrect == Spec => []TypeOK
<1>1. AssemblyInv => TypeOK
  BY DEF AssemblyInv
<1>2. QED
  BY <1>1, AssemblyInvariant, PTL

(* A fired timer never hides a message its conversation had received when   *)
(* it fired, for any number of workers, messages and crashes.               *)
THEOREM FiredTimersCoverReceived == Spec => []FiredCoversReceived
<1>1. AssemblyInv => FiredCoversReceived
  BY DEF AssemblyInv
<1>2. QED
  BY <1>1, AssemblyInvariant, PTL

-----------------------------------------------------------------------------
(* Links and announcements, for any number of workers *)

LEMMA OnlyCommitWrites ==
  ASSUME [Next]_vars
  PROVE  \/ UNCHANGED cases
         \/ \E w \in Workers : AssembleCommit(w)
BY DEF Next, WorkerStep, Tick, Ingest, Redeliver, StartPass, Claim, EndPass,
       AssembleSelect, ChooseCase, InsertLink, ReadSnapshots, Finalize,
       FinalizeConflict, Crash, Restart, vars

(* A link, once committed, is never changed, however many workers link the  *)
(* conversation at once.                                                    *)
THEOREM LinksNeverChange == Spec => LinksAreFinal
<1>1. AssemblyInv /\ [Next]_vars =>
        [\A m \in Messages : Linked(m) => link'[m] = link[m]]_vars
  BY OnlyCommitWrites, CommittedLinks DEF cases
<1>2. QED
  BY <1>1, AssemblyInvariant, PTL DEF Spec, LinksAreFinal

(* A draft never names a revision beyond the next one. *)
DraftsAreNumbered ==
  \A w \in Workers : worker[w].pc = "drafted" =>
    \A k \in txn[w].touched : txn[w].number[k] \in 1 .. Len(snapshots[k]) + 1

LEMMA AppendedElements ==
  ASSUME NEW S, NEW s \in Seq(S), NEW x \in S
  PROVE  {Append(s, x)[i] : i \in 1 .. Len(Append(s, x))}
           = {s[i] : i \in 1 .. Len(s)} \cup {x}
<1>1. /\ Len(Append(s, x)) = Len(s) + 1 /\ Len(s) \in Nat
      /\ Append(s, x)[Len(s) + 1] = x
      /\ \A i \in 1 .. Len(s) : Append(s, x)[i] = s[i]
  OBVIOUS
<1>2. 1 .. Len(s) + 1 = (1 .. Len(s)) \cup {Len(s) + 1}
  BY <1>1
<1>3. QED
  BY <1>1, <1>2

LEMMA CommitAnnounces ==
  ASSUME AssemblyInv, DraftsAreNumbered, AnnouncedRevisionsExist,
         NEW w \in Workers, AssembleCommit(w)
  PROVE  AnnouncedRevisionsExist'
<1> DEFINE elements(s) == {s[i] : i \in 1 .. Len(s)}
<1>1. SUFFICES ASSUME NEW k \in CaseIds
               PROVE  elements(announced'[k]) = 1 .. Len(snapshots'[k])
  BY DEF AnnouncedRevisionsExist
<1>2. /\ snapshots[k] \in Seq(SUBSET Messages) /\ announced[k] \in Seq(Nat)
      /\ txn[w].number[k] \in Nat /\ txn[w].evidence[k] \in SUBSET Messages
      /\ elements(announced[k]) = 1 .. Len(snapshots[k])
  BY DEF AssemblyInv, TypeOK, Transaction, AnnouncedRevisionsExist
<1>3. /\ worker[w].pc = "drafted"
      /\ snapshots'[k] = IF /\ k \in txn[w].touched
                            /\ txn[w].number[k] > Len(snapshots[k])
                         THEN Append(snapshots[k], txn[w].evidence[k])
                         ELSE snapshots[k]
      /\ announced'[k] = IF k \in txn[w].touched
                         THEN Append(announced[k], txn[w].number[k])
                         ELSE announced[k]
  BY DEF AssembleCommit
<1>4. CASE k \in txn[w].touched
  <2>1. txn[w].number[k] \in 1 .. Len(snapshots[k]) + 1
    BY <1>3, <1>4 DEF DraftsAreNumbered
  <2>2. elements(announced'[k]) = elements(announced[k]) \cup {txn[w].number[k]}
    BY <1>2, <1>3, <1>4, AppendedElements
  <2>3. Len(snapshots'[k]) = IF txn[w].number[k] > Len(snapshots[k])
                             THEN Len(snapshots[k]) + 1 ELSE Len(snapshots[k])
    BY <1>2, <1>3, <1>4
  <2>4. Len(snapshots[k]) \in Nat
    BY <1>2
  <2> HIDE DEF elements
  <2>5. QED
    BY <1>2, <2>1, <2>2, <2>3, <2>4
<1>5. CASE k \notin txn[w].touched
  BY <1>2, <1>3, <1>5
<1>6. QED
  BY <1>4, <1>5

(* A step of one worker leaves the others where they are. *)
LEMMA OthersUnmoved ==
  ASSUME TypeOK, NEW w \in Workers, WorkerStep(w) \/ Crash(w),
         NEW v \in Workers, v # w
  PROVE  worker'[v] = worker[v] /\ txn'[v] = txn[v]
<1>1. worker \in [Workers -> WorkerState] /\ txn \in [Workers -> Transaction]
  BY DEF TypeOK
<1>2. CASE StartPass(w) \/ EndPass(w) \/ Finalize(w) \/ FinalizeConflict(w)
             \/ Restart(w) \/ Crash(w)
  BY <1>1, <1>2 DEF StartPass, EndPass, Finalize, FinalizeConflict, Restart, Crash
<1>3. CASE \E c \in Conversations : Claim(w, c)
  BY <1>1, <1>3 DEF Claim
<1>4. CASE AssembleSelect(w) \/ ChooseCase(w)
  BY <1>1, <1>4 DEF AssembleSelect, ChooseCase
<1>5. CASE InsertLink(w)
  BY <1>1, <1>5 DEF InsertLink
<1>6. CASE ReadSnapshots(w) \/ AssembleCommit(w)
  BY <1>1, <1>6 DEF ReadSnapshots, AssembleCommit
<1>7. QED
  BY <1>2, <1>3, <1>4, <1>5, <1>6 DEF WorkerStep

(* Only the reads of assemble lead a worker to its drafts. *)
LEMMA OnlyReadDrafts ==
  ASSUME TypeOK, NEW w \in Workers, WorkerStep(w) \/ Crash(w),
         ~ReadSnapshots(w)
  PROVE  worker'[w].pc # "drafted"
<1>1. worker \in [Workers -> WorkerState] /\ worker[w] \in WorkerState
  BY DEF TypeOK
<1>2. IdleWorker.pc = "idle" /\ [IdleWorker EXCEPT !.pc = "down"].pc = "down"
  BY DEF IdleWorker
<1>3. [IdleWorker EXCEPT !.pc = "looping", !.now = worker[w].now].pc = "looping"
  BY DEF IdleWorker
<1>4. CASE EndPass(w) \/ FinalizeConflict(w) \/ Restart(w) \/ Crash(w)
  BY <1>1, <1>2, <1>4 DEF EndPass, FinalizeConflict, Restart, Crash
<1>5. CASE Finalize(w)
  BY <1>1, <1>3, <1>5 DEF Finalize
<1>6. CASE StartPass(w)
  BY <1>1, <1>6 DEF StartPass, WorkerState
<1>7. CASE \E c \in Conversations : Claim(w, c)
  <2>1. PICK c \in Conversations : Claim(w, c)
    BY <1>7
  <2>2. worker'[w].pc = "claimed"
    BY <1>1, <2>1 DEF Claim, WorkerState
  <2>3. QED
    BY <2>2
<1>8. CASE AssembleSelect(w) \/ AssembleCommit(w)
  BY <1>1, <1>8 DEF AssembleSelect, AssembleCommit, WorkerState
<1>9. CASE ChooseCase(w) \/ InsertLink(w)
  BY <1>9 DEF ChooseCase, InsertLink
<1>10. QED
  BY <1>4, <1>5, <1>6, <1>7, <1>8, <1>9 DEF WorkerStep

LEMMA StepKeepsNumbers ==
  ASSUME AssemblyInv, DraftsAreNumbered, [Next]_vars
  PROVE  DraftsAreNumbered'
<1>1. \A k \in CaseIds : /\ Len(snapshots[k]) \in Nat
                         /\ Len(snapshots'[k]) \in Nat
                         /\ Len(snapshots[k]) <= Len(snapshots'[k])
  <2>1. \A k \in CaseIds : snapshots[k] \in Seq(SUBSET Messages)
    BY DEF AssemblyInv, TypeOK
  <2>2. ASSUME NEW w \in Workers, AssembleCommit(w), NEW k \in CaseIds
        PROVE  /\ Len(snapshots'[k]) \in Nat
               /\ Len(snapshots[k]) <= Len(snapshots'[k])
    <3>1. txn[w].evidence[k] \in SUBSET Messages
      BY DEF AssemblyInv, TypeOK, Transaction
    <3>2. snapshots'[k] \in {snapshots[k], Append(snapshots[k], txn[w].evidence[k])}
      BY <2>2 DEF AssembleCommit
    <3>3. QED
      BY <2>1, <3>1, <3>2
  <2>3. QED
    BY <2>1, <2>2, OnlyCommitWrites DEF cases
<1>2. \A w \in Workers : txn[w] \in Transaction /\ txn[w].touched \subseteq CaseIds
  BY DEF AssemblyInv, TypeOK, Transaction
<1>3. ASSUME NEW w \in Workers, ReadSnapshots(w),
             NEW v \in Workers, worker'[v].pc = "drafted",
             NEW k \in txn'[v].touched
      PROVE  txn'[v].number[k] \in 1 .. Len(snapshots[k]) + 1
  <2>1. CASE v = w
    <3>1. txn'[w] = [txn[w] EXCEPT
             !.number = [j \in CaseIds |->
               IF j \in txn[w].touched THEN NextRevision(j) ELSE 0],
             !.evidence = [j \in CaseIds |->
               IF j \in txn[w].touched THEN Evidence(w, j) ELSE {}]]
      BY <1>3 DEF ReadSnapshots, AssemblyInv, TypeOK
    <3>2. /\ txn'[w].touched = txn[w].touched
          /\ txn'[w].number = [j \in CaseIds |->
               IF j \in txn[w].touched THEN NextRevision(j) ELSE 0]
      BY <1>2, <3>1 DEF Transaction
    <3>3. k \in txn[w].touched /\ k \in CaseIds
      BY <1>2, <1>3, <2>1, <3>2
    <3>4. txn'[w].number[k] = Len(snapshots[k]) + 1
      BY <3>2, <3>3 DEF NextRevision
    <3>5. QED
      BY <1>1, <2>1, <3>3, <3>4
  <2>2. CASE v # w
    BY <1>2, <1>3, <2>2 DEF ReadSnapshots, DraftsAreNumbered
  <2>3. QED
    BY <2>1, <2>2
<1>4. ASSUME NEW v \in Workers, worker'[v].pc = "drafted",
             \A w \in Workers : ~ReadSnapshots(w)
      PROVE  txn'[v] = txn[v] /\ worker[v].pc = "drafted"
  <2>1. worker \in [Workers -> WorkerState]
    BY DEF AssemblyInv, TypeOK
  <2>2. \A w \in Workers : worker[w] \in WorkerState
    BY <2>1
  <2>3. CASE UNCHANGED vars \/ Tick \/ (\E m \in Messages, at \in Time : Ingest(m, at))
    BY <1>4, <2>3 DEF vars, Tick, Ingest
  <2>4. ASSUME NEW w \in Workers, WorkerStep(w) \/ Crash(w)
        PROVE  txn'[v] = txn[v] /\ worker[v].pc = "drafted"
    BY <1>4, <2>4, OthersUnmoved, OnlyReadDrafts DEF AssemblyInv
  <2>5. QED
    BY <2>3, <2>4 DEF Next, Redeliver
<1>5. CASE \E w \in Workers : ReadSnapshots(w)
  BY <1>3, <1>5 DEF ReadSnapshots, cases, DraftsAreNumbered
<1>6. CASE \A w \in Workers : ~ReadSnapshots(w)
  <2>1. ASSUME NEW v \in Workers, worker'[v].pc = "drafted",
               NEW k \in txn'[v].touched
        PROVE  txn'[v].number[k] \in 1 .. Len(snapshots'[k]) + 1
    <3>1. txn'[v] = txn[v] /\ worker[v].pc = "drafted"
      BY <1>4, <1>6, <2>1
    <3>2. k \in CaseIds /\ txn[v].number[k] \in 1 .. Len(snapshots[k]) + 1
      BY <1>2, <2>1, <3>1 DEF DraftsAreNumbered
    <3>3. QED
      BY <1>1, <3>1, <3>2
  <2>2. QED
    BY <2>1 DEF DraftsAreNumbered
<1>7. QED
  BY <1>5, <1>6

(* Every announced revision has its snapshot and every snapshot is          *)
(* announced, even where overlapping workers lose one of two snapshots.     *)
THEOREM AnnouncementsMatchSnapshots == Spec => []AnnouncedRevisionsExist
<1> DEFINE Inv == DraftsAreNumbered /\ AnnouncedRevisionsExist
<1>1. Init => Inv
  BY DEF Init, DraftsAreNumbered, AnnouncedRevisionsExist, IdleWorker
<1>2. AssemblyInv /\ Inv /\ [Next]_vars => Inv'
  <2>1. UNCHANGED cases /\ AnnouncedRevisionsExist => AnnouncedRevisionsExist'
    BY DEF cases, AnnouncedRevisionsExist
  <2>2. QED
    BY <2>1, StepKeepsNumbers, OnlyCommitWrites, CommitAnnounces
<1>3. Inv => AnnouncedRevisionsExist
  OBVIOUS
<1>4. QED
  BY <1>1, <1>2, <1>3, AssemblyInvariant, PTL DEF Spec

=============================================================================
