----------------------------- MODULE EffectOnce -----------------------------
(***************************************************************************)
(* What the outbox, the broker and the inbox promise together: the effect  *)
(* of a processable event is applied at most once, and only after the      *)
(* transaction that emits the event has committed.                         *)
(***************************************************************************)
EXTENDS Naturals

CONSTANTS Events, Processable

VARIABLES
  emitted,   \* the events whose outbox row is committed
  applied    \* how many times the effect of each event was committed

onceVars == <<emitted, applied>>

Init ==
  /\ emitted = {}
  /\ applied = [e \in Events |-> 0]

Emit(e) ==
  /\ e \notin emitted
  /\ emitted' = emitted \cup {e}
  /\ UNCHANGED applied

Apply(e) ==
  /\ e \in emitted \cap Processable
  /\ applied[e] = 0
  /\ applied' = [applied EXCEPT ![e] = 1]
  /\ UNCHANGED emitted

Next == \E e \in Events : Emit(e) \/ Apply(e)

Spec == Init /\ [][Next]_onceVars

=============================================================================
