------------------------------- MODULE Egress -------------------------------
(***************************************************************************)
(* The way out to a language model: the egress rules, the model gateway,   *)
(* which also compares a request with its adapter, and the batcher, which  *)
(* sorts what a caller submits by urgency, sends it in micro-batches, one  *)
(* call at a time under a lock of the process, and falls back to single    *)
(* calls when a batch is not answered.  Callers are threads that submit a  *)
(* batch; those in Handlers are the gateway worker's handler, which        *)
(* submits the one item of its command.                                    *)
(*                                                                         *)
(* External: the provider, which answers or not, about the items it likes. *)
(***************************************************************************)
EXTENDS Integers, Sequences, FiniteSets

CONSTANTS
  Callers, Handlers,
  Batches,      \* the sequences of items a caller may submit
  Request,      \* an item's egress request
  Priority,     \* an item's priority, 0 (URGENT) .. 3 (LOW)
  Adapter,      \* the identity (provider and model) the gateway calls
  MaxBatchSize,
  Nobody

Elements(s) == {s[i] : i \in 1 .. Len(s)}
Items == UNION {Elements(b) : b \in Batches}

ASSUME EgressAssumption ==
  /\ Handlers \subseteq Callers /\ Nobody \notin Callers
  /\ MaxBatchSize \in Nat \ {0}
  /\ \A i \in Items : Priority[i] \in 0 .. 3
  /\ \A b \in Batches : b \in Seq(Items)
  /\ \A b \in Batches :
       \A i, j \in 1 .. Len(b) : b[i] = b[j] => i = j
  /\ \E b \in Batches : Len(b) = 1

VARIABLES
  pc,        \* how far the caller is
  batch,     \* what it submits
  chunks,    \* the micro-batches it still has to send
  rest,      \* what is left of a batch that fell back to single calls
  call,      \* the items of its call in flight
  results,   \* the results it has: item -> status and the items asked with
  lock,      \* who holds the batcher's lock
  stray      \* the provider answered about an item it was not asked about

vars == <<pc, batch, chunks, rest, call, results, lock, stray>>

-----------------------------------------------------------------------------
(* evaluate_egress: an image is refused when its case is sensitive. *)
EgressAllowed(r) ==
  /\ r.provider \in {"openai", "anthropic", "google", "local"}
  /\ r.dataClass \in {"public", "synthetic", "internal_proxy"}
  /\ ~r.pii
  /\ r.mime # "blocked"
  /\ ~(r.mime = "image" /\ r.sensitive)
  /\ r.cost <= r.budget

(* ModelGateway.escalate calls the adapter only for requests that name it. *)
Named(i) == Request[i].identity = Adapter

Escalates(i) == EgressAllowed(Request[i]) /\ Named(i)

(* sorted(): the items of s by priority, those of one priority in the order *)
(* they came in.  There is one such sequence; the set spares the induction. *)
SortedByPriority(s) ==
  LET Spots == 1 .. Len(s)
      Sooner(a, b) == \/ Priority[s[a]] < Priority[s[b]]
                      \/ Priority[s[a]] = Priority[s[b]] /\ a < b
  IN {[k \in Spots |-> s[order[k]]] : order \in
        {f \in [Spots -> Spots] : \A k \in Spots, l \in Spots :
                                      k < l => Sooner(f[k], f[l])}}

Chunk(s, k) ==
  SubSeq(s, (k - 1) * MaxBatchSize + 1,
         IF k * MaxBatchSize < Len(s) THEN k * MaxBatchSize ELSE Len(s))
Chunks(s) ==
  [k \in 1 .. ((Len(s) + MaxBatchSize - 1) \div MaxBatchSize) |-> Chunk(s, k)]

NoResults == [i \in {} |-> <<>>]
With(f, g) == [i \in DOMAIN f \cup DOMAIN g |->
                 IF i \in DOMAIN g THEN g[i] ELSE f[i]]
Result(i, status, asked) ==
  [j \in {i} |-> [status |-> status, asked |-> asked]]

Init ==
  /\ pc = [c \in Callers |-> "start"]
  /\ batch \in [Callers -> Batches]
  /\ \A c \in Handlers : Len(batch[c]) = 1
  /\ chunks = [c \in Callers |-> <<>>]
  /\ rest = [c \in Callers |-> <<>>]
  /\ call = [c \in Callers |-> <<>>]
  /\ results = [c \in Callers |-> NoResults]
  /\ lock = Nobody
  /\ stray = FALSE

-----------------------------------------------------------------------------
(* mutant: the lock is kept until the last chunk is through *)
ReleaseAtEnd(c) ==
  /\ lock' = IF Len(chunks[c]) > 1 THEN lock ELSE Nobody
  /\ chunks' = [chunks EXCEPT ![c] = Tail(@)]
  /\ rest' = [rest EXCEPT ![c] = <<>>]
  /\ pc' = [pc EXCEPT ![c] =
       IF Len(chunks[c]) > 1 THEN "waiting"
       ELSE IF c \in Handlers THEN "repeating" ELSE "returned"]

(* What the caller does once a chunk has its results. *)
Release(c) ==
  /\ lock' = Nobody
  /\ chunks' = [chunks EXCEPT ![c] = Tail(@)]
  /\ rest' = [rest EXCEPT ![c] = <<>>]
  /\ pc' = [pc EXCEPT ![c] =
       IF Len(chunks[c]) > 1 THEN "waiting"
       ELSE IF c \in Handlers THEN "repeating" ELSE "returned"]

(* mutant: the lock is given up before the single calls *)
FallBackUnlocked(c) ==
  /\ rest' = [rest EXCEPT ![c] = Head(chunks[c])]
  /\ pc' = [pc EXCEPT ![c] = "falling"]
  /\ lock' = Nobody
  /\ UNCHANGED <<chunks, results, stray>>

(* the provider refused or could not be understood: one call per item *)
FallBack(c) ==
  /\ rest' = [rest EXCEPT ![c] = Head(chunks[c])]
  /\ pc' = [pc EXCEPT ![c] = "falling"]
  /\ UNCHANGED <<chunks, results, lock, stray>>

(* mutant: a batch is judged by its first item *)
SubmitByFirst(c) ==
  /\ pc[c] = "start"
  /\ \E sorted \in SortedByPriority(batch[c]) :
       chunks' = [chunks EXCEPT ![c] = Chunks(sorted)]
  /\ pc' = [pc EXCEPT ![c] =
       IF batch[c] = <<>> THEN "returned"
       ELSE IF EgressAllowed(Request[batch[c][1]]) THEN "waiting" ELSE "raised"]
  /\ UNCHANGED <<batch, rest, call, results, lock, stray>>

(* execute_batch judges every item before it sends any.  The result of a    *)
(* denied item reads a provider that a ModelGateway does not have, so one   *)
(* denied item makes the call raise.                                        *)
Submit(c) ==
  /\ pc[c] = "start"
  /\ \E sorted \in SortedByPriority(batch[c]) :
       chunks' = [chunks EXCEPT ![c] = Chunks(sorted)]
  /\ pc' = [pc EXCEPT ![c] =
       IF batch[c] = <<>> THEN "returned"
       ELSE IF \A i \in Elements(batch[c]) : EgressAllowed(Request[i])
            THEN "waiting" ELSE "raised"]
  /\ UNCHANGED <<batch, rest, call, results, lock, stray>>

Acquire(c) ==
  /\ pc[c] = "waiting" /\ lock = Nobody
  /\ lock' = c
  /\ pc' = [pc EXCEPT ![c] = "holding"]
  /\ UNCHANGED <<batch, chunks, rest, call, results, stray>>

(* A batch goes out under the egress request of its first item. *)
CallChunk(c) ==
  LET chunk == Head(chunks[c]) IN
  /\ pc[c] = "holding"
  /\ IF Escalates(chunk[1])
     THEN /\ call' = [call EXCEPT ![c] = chunk]
          /\ pc' = [pc EXCEPT ![c] = "calling"]
          /\ UNCHANGED <<chunks, rest, results, lock, stray>>
     ELSE /\ UNCHANGED call
          /\ IF Len(chunk) > 1 THEN FallBack(c)
             ELSE /\ results' = [results EXCEPT ![c] =
                       With(@, Result(chunk[1], "DENIED", {}))]
                  /\ Release(c)
                  /\ UNCHANGED stray
  /\ UNCHANGED batch

(* The answer to a single item: SUCCEEDED, or UNAVAILABLE after an error or *)
(* the adapter's timeout.                                                   *)
SingleReturns(c) ==
  /\ pc[c] = "calling" /\ Len(call[c]) = 1
  /\ call' = [call EXCEPT ![c] = <<>>]
  /\ \E status \in {"SUCCEEDED", "UNAVAILABLE"} :
       results' = [results EXCEPT ![c] =
         With(@, Result(call[c][1], status, Elements(call[c])))]
  /\ Release(c)
  /\ UNCHANGED <<batch, stray>>

(* mutant: items the answer leaves out are left out of the results *)
AnswersNamed(c, named) ==
  [i \in named |-> [status |-> "APPROVED", asked |-> Elements(call[c])]]

(* A parsed answer gives a result to every item it names, and to those of   *)
(* the chunk that it does not.                                              *)
Answers(c, named) ==
  [i \in named \cup Elements(call[c]) |->
     [status |-> IF i \in named THEN "APPROVED" ELSE "DEFAULT",
      asked |-> Elements(call[c])]]

BatchReturns(c) ==
  /\ pc[c] = "calling" /\ Len(call[c]) > 1
  /\ call' = [call EXCEPT ![c] = <<>>]
  /\ \/ \E named \in SUBSET Items \ {{}} :
          /\ results' = [results EXCEPT ![c] = With(@, Answers(c, named))]
          /\ stray' = (stray \/ ~(named \subseteq Elements(call[c])))
          /\ Release(c)
     \/ FallBack(c)
  /\ UNCHANGED batch

(* _fallback_sequential, under the same lock *)
Onwards(c) ==
  IF Len(rest[c]) > 1
  THEN /\ rest' = [rest EXCEPT ![c] = Tail(@)]
       /\ pc' = [pc EXCEPT ![c] = "falling"]
       /\ UNCHANGED <<chunks, lock>>
  ELSE Release(c)

FallbackCall(c) ==
  LET item == rest[c][1] IN
  /\ pc[c] = "falling"
  /\ IF Escalates(item)
     THEN /\ call' = [call EXCEPT ![c] = <<item>>]
          /\ pc' = [pc EXCEPT ![c] = "alone"]
          /\ UNCHANGED <<chunks, rest, results, lock>>
     ELSE /\ results' = [results EXCEPT ![c] =
               With(@, Result(item, "DENIED", {}))]
          /\ Onwards(c)
          /\ UNCHANGED call
  /\ UNCHANGED <<batch, stray>>

FallbackReturns(c) ==
  /\ pc[c] = "alone"
  /\ call' = [call EXCEPT ![c] = <<>>]
  /\ \E status \in {"SUCCEEDED", "UNAVAILABLE"} :
       results' = [results EXCEPT ![c] =
         With(@, Result(rest[c][1], status, Elements(call[c])))]
  /\ Onwards(c)
  /\ UNCHANGED <<batch, stray>>

(* The handler looks its result up with a default that is evaluated first:  *)
(* the item is escalated again, outside the lock, and the answer dropped.   *)
Repeat(c) ==
  /\ pc[c] = "repeating"
  /\ IF Escalates(batch[c][1])
     THEN /\ call' = [call EXCEPT ![c] = batch[c]]
          /\ pc' = [pc EXCEPT ![c] = "dropping"]
     ELSE /\ pc' = [pc EXCEPT ![c] = "returned"] /\ UNCHANGED call
  /\ UNCHANGED <<batch, chunks, rest, results, lock, stray>>

RepeatReturns(c) ==
  /\ pc[c] = "dropping"
  /\ call' = [call EXCEPT ![c] = <<>>]
  /\ pc' = [pc EXCEPT ![c] = "returned"]
  /\ UNCHANGED <<batch, chunks, rest, results, lock, stray>>

(* An answer whose first choice is not an object is caught by no adapter:   *)
(* the call raises, and the lock is released on the way out.                *)
Breaks(c) ==
  /\ call[c] # <<>>
  /\ call' = [call EXCEPT ![c] = <<>>]
  /\ lock' = IF lock = c THEN Nobody ELSE lock
  /\ pc' = [pc EXCEPT ![c] = "raised"]
  /\ UNCHANGED <<batch, chunks, rest, results, stray>>

CallerStep(c) ==
  \/ Submit(c) \/ Acquire(c) \/ CallChunk(c)
  \/ SingleReturns(c) \/ BatchReturns(c)
  \/ FallbackCall(c) \/ FallbackReturns(c)
  \/ Repeat(c) \/ RepeatReturns(c) \/ Breaks(c)

Next == \E c \in Callers : CallerStep(c)

(* A thread runs, and the adapter's timeout ends every call. *)
Fairness == \A c \in Callers : WF_vars(CallerStep(c))
Spec == Init /\ [][Next]_vars
FairSpec == Spec /\ Fairness

-----------------------------------------------------------------------------
(* The callers' state is well formed, and chunks never exceed the batch     *)
(* size.                                                                    *)
Places == {"start", "waiting", "holding", "calling", "falling", "alone",
           "repeating", "dropping", "returned", "raised"}
TypeOK ==
  /\ lock \in Callers \cup {Nobody} /\ stray \in BOOLEAN
  /\ \A c \in Callers :
       /\ pc[c] \in Places /\ batch[c] \in Batches
       /\ \A k \in 1 .. Len(chunks[c]) : Len(chunks[c][k]) \in 1 .. MaxBatchSize
       /\ Elements(rest[c]) \cup Elements(call[c]) \subseteq Elements(batch[c])
       /\ DOMAIN results[c] \subseteq Items

(* The batcher has at most one call in flight in the process, through       *)
(* batches, single calls and fallbacks; the handler's second call is the    *)
(* only one made without the lock.                                          *)
SingleFlight ==
  \A c, d \in Callers :
    /\ call[c] # <<>> /\ pc[c] # "dropping" => lock = c
    /\ call[c] # <<>> /\ call[d] # <<>> /\ c # d =>
         "dropping" \in {pc[c], pc[d]}

(* Nothing leaves that its own egress request forbids, whichever batch it   *)
(* leaves with.                                                             *)
OnlyAllowedLeave ==
  \A c \in Callers : \A i \in Elements(call[c]) : EgressAllowed(Request[i])

(* An item that names another model than the adapter's is sent only inside  *)
(* a batch whose first item names the adapter's.                            *)
OnlyNamedLeave ==
  \A c \in Callers :
    call[c] # <<>> => Named(call[c][1])

(* A caller that returns has a result for every item it submitted, and,     *)
(* unless the provider spoke of items it was not asked about, each result   *)
(* comes from a call the item was part of or is a denial of an item that    *)
(* does not name the adapter.                                               *)
EveryItemHasItsResult ==
  \A c \in Callers : pc[c] = "returned" =>
    \A i \in Elements(batch[c]) :
      /\ i \in DOMAIN results[c]
      /\ stray \/ i \in results[c][i].asked
               \/ (results[c][i].status = "DENIED" /\ ~Named(i))

(* Every caller returns or raises: the lock is always passed on. *)
EveryCallerEnds == \A c \in Callers : <>(pc[c] \in {"returned", "raised"})
=============================================================================
