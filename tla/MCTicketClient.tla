--------------------------- MODULE MCTicketClient ---------------------------
(***************************************************************************)
(* Small instances of the ticket client.                                   *)
(***************************************************************************)
EXTENDS TicketClient, TLC

CONSTANTS k1, k2, k3, p1, p2

Req(kind, key, payload, on, revision) ==
  [kind |-> kind, key |-> key, payload |-> payload, on |-> on,
   revision |-> revision]

(* Two creates of one key, with the same or another payload, and the        *)
(* changes of its ticket: an update that expects revision 1, a transfer     *)
(* under the same key as it, and a close, whose key is also that of the     *)
(* create of another ticket.                                                *)
MCRequests ==
  {Req("create", k1, p1, k1, AnyRevision),
   Req("create", k1, p2, k1, AnyRevision),
   Req("update", k2, p1, k1, 1),
   Req("transfer", k2, p2, k1, AnyRevision),
   Req("close", k3, p1, k1, AnyRevision),
   Req("create", k3, p2, k3, AnyRevision)}

MCSymmetry == Permutations(Threads)

=============================================================================
