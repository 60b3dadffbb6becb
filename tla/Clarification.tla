--------------------------- MODULE Clarification ----------------------------
(***************************************************************************)
(* A clarification session: rounds of questions about the fields a report  *)
(* lacks, the citizen's replies, the limits on questions and rounds, and   *)
(* the expiry of the session; and the dispatcher, which sends each round   *)
(* through the connector under a key of conversation and round.            *)
(*                                                                         *)
(* The engine's functions are pure: a call that raises leaves the caller   *)
(* with the session it had.  The ledger is the connector's default one, in *)
(* memory, which keeps a failed send.  The fields a reply resolves are the *)
(* caller's input; texts stand for the list of fields they ask about.  No  *)
(* list of missing fields repeats one: pipeline.py passes a single field.  *)
(***************************************************************************)
EXTENDS Integers, Sequences

CONSTANTS
  MissingLists,     \* bound: the missing_fields a session may start with
  Location, Image,  \* the fields asked about by default, and for an image
  Expiry, MaxTime,  \* expires_at; bound on the clock
  MaxFaults         \* bound: sends that fail or time out

MAX_QUESTIONS_PER_ROUND == 2
MAX_ROUNDS == 3

Elements(s) == {s[i] : i \in 1 .. Len(s)}
Fields == {Location, Image} \cup UNION {Elements(s) : s \in MissingLists}

ASSUME ClarificationAssumption ==
  /\ \A s \in MissingLists :
       /\ s \in Seq(Elements(s)) /\ Image \notin Elements(s)
       /\ \A i, j \in 1 .. Len(s) : s[i] = s[j] => i = j
  /\ Expiry \in Nat /\ MaxTime \in Nat /\ MaxFaults \in Nat

VARIABLES
  session,   \* status, rounds of questions, resolved fields
  missing,   \* session.missing_fields
  image,     \* session.image_fallback_active
  now,
  ledger,    \* the send ledger's row of each round's key on record
  sends,     \* how often each round's message reached the citizen
  faults     \* bound: faults so far

vars == <<session, missing, image, now, ledger, sends, faults>>

Rounds == 1 .. MAX_ROUNDS

(* The fields of s that are not in drop, in their order: the loop over the  *)
(* fields that passes over some, after its first i turns, and as a whole.   *)
KeptUpTo(s, drop) ==
  LET kept[i \in 0 .. Len(s)] ==
        IF i = 0 THEN <<>>
        ELSE IF s[i] \in drop THEN kept[i - 1] ELSE Append(kept[i - 1], s[i])
  IN kept
Kept(s, drop) == KeptUpTo(s, drop)[Len(s)]

UpTo(n, s) == SubSeq(s, 1, IF Len(s) < n THEN Len(s) ELSE n)

(* mutant: the question about the image comes on top of the two *)
FirstTwoAndImage(s) ==
  UpTo(MAX_QUESTIONS_PER_ROUND
         + (IF s # <<>> /\ s[1] = Image THEN 1 ELSE 0), s)

FirstTwo(s) == UpTo(MAX_QUESTIONS_PER_ROUND, s)

(* mutant: without the second pass over the unresolved fields *)
QuestionsOnce(fields, resolved, asked, blocked) ==
  FirstTwo((IF blocked /\ Image \notin resolved \cup asked
            THEN <<Image>> ELSE <<>>)
           \o Kept(fields, resolved \cup asked))

(* mutant: the rounds before are not looked at *)
QuestionsAgain(fields, resolved, asked, blocked) ==
  FirstTwo((IF blocked /\ Image \notin resolved THEN <<Image>> ELSE <<>>)
           \o Kept(fields, resolved))

(* generate_round_questions: what was not asked yet comes first, what stays *)
(* unresolved is asked again only when nothing else is left.                *)
Questions(fields, resolved, asked, blocked) ==
  LET fallback == IF blocked /\ Image \notin resolved \cup asked
                  THEN <<Image>> ELSE <<>>
      unasked == Kept(fields, resolved \cup asked)
      unresolved == Kept(fields, resolved)
  IN IF fallback \o unasked # <<>> THEN FirstTwo(fallback \o unasked)
     ELSE FirstTwo(unresolved)

Asked(s) == UNION {Elements(s.rounds[i]) : i \in 1 .. Len(s.rounds)}

FirstRound ==
  LET questions == Questions(missing, {}, {}, image)
  IN IF questions = <<>> THEN <<Location>> ELSE questions

(* start_clarification_session *)
Init ==
  /\ missing \in MissingLists
  /\ image \in BOOLEAN
  /\ session = [status |-> "WAITING_REPLY", rounds |-> <<FirstRound>>,
                resolved |-> {}]
  /\ now = 0
  /\ ledger = [r \in {} |-> {}]
  /\ sends = [r \in Rounds |-> 0]
  /\ faults = 0

(* submit_clarification_reply: the session after a reply that resolves the  *)
(* fields newly; long says that the reply describes the image in words.     *)
ByImage(long) == IF image /\ long THEN {Image} ELSE {}

(* mutant: the facts of earlier replies are dropped *)
ResolvedLast(newly, long) == newly \cup ByImage(long)

Resolved(newly, long) == session.resolved \cup newly \cup ByImage(long)
Remaining(resolved) == Kept(missing, resolved)

AtLimit == Len(session.rounds) >= MAX_ROUNDS

AfterAnswer(resolved) ==
  LET remaining == Remaining(resolved)
      questions == Questions(remaining, resolved, Asked(session),
                             image /\ Image \notin resolved)
  IN IF remaining = <<>> \/ (~AtLimit /\ questions = <<>>)
       THEN [session EXCEPT !.status = "RESOLVED", !.resolved = resolved]
     ELSE IF AtLimit
       THEN [session EXCEPT !.status = "UNRESOLVED_LIMIT", !.resolved = resolved]
     ELSE [status |-> "WAITING_REPLY", resolved |-> resolved,
           rounds |-> Append(session.rounds, questions)]

(* mutant: an answer that completes the report is taken at any time *)
AfterReplyLate(newly, long) ==
  IF now > Expiry /\ Remaining(Resolved(newly, long)) # <<>>
  THEN [session EXCEPT !.status = "UNRESOLVED_EXPIRED"]
  ELSE AfterAnswer(Resolved(newly, long))

AfterReply(newly, long) ==
  IF now > Expiry THEN [session EXCEPT !.status = "UNRESOLVED_EXPIRED"]
  ELSE AfterAnswer(Resolved(newly, long))

-----------------------------------------------------------------------------
(* The connector's send_text for round r with the given questions.          *)

OnRecord(r) == r \in DOMAIN ledger

(* A new key's row, with the status its send ends in. *)
Recorded(r, questions, status) ==
  /\ ~OnRecord(r)
  /\ ledger' = [k \in DOMAIN ledger \cup {r} |->
       IF k = r THEN [status |-> status, questions |-> questions]
       ELSE ledger[k]]

Sent(r, questions) ==
  /\ Recorded(r, questions, "SENT")
  /\ sends' = [sends EXCEPT ![r] = @ + 1]
  /\ UNCHANGED faults

TimedOut(r, questions) ==
  /\ faults < MaxFaults /\ faults' = faults + 1
  /\ Recorded(r, questions, "DELIVERY_UNKNOWN")
  /\ sends' \in {sends, [sends EXCEPT ![r] = @ + 1]}

(* mutant: a failed send is tried again *)
ReplayedUnlessFailed(r, questions) ==
  /\ OnRecord(r) /\ ledger[r].questions = questions
  /\ IF ledger[r].status = "FAILED"
     THEN /\ ledger' = [ledger EXCEPT ![r].status = "SENT"]
          /\ sends' = [sends EXCEPT ![r] = @ + 1]
     ELSE UNCHANGED <<ledger, sends>>
  /\ UNCHANGED faults

(* A key on record with the same text answers with the stored receipt,      *)
(* whatever its status.                                                     *)
Replayed(r, questions) ==
  /\ OnRecord(r) /\ ledger[r].questions = questions
  /\ UNCHANGED <<ledger, sends, faults>>

Delivered(r, questions) ==
  Sent(r, questions) \/ TimedOut(r, questions) \/ Replayed(r, questions)

(* Another text under the key raises IdempotencyConflictError. *)
Conflict(r, questions) == OnRecord(r) /\ ledger[r].questions # questions

(* The transport raises; the row stays, marked FAILED. *)
Failed(r, questions) ==
  /\ faults < MaxFaults /\ faults' = faults + 1
  /\ Recorded(r, questions, "FAILED")
  /\ sends' \in {sends, [sends EXCEPT ![r] = @ + 1]}

-----------------------------------------------------------------------------
(* dispatch_clarification_request: the current round, for the first time or *)
(* again.                                                                   *)
Dispatch ==
  /\ LET r == Len(session.rounds) IN
       Delivered(r, session.rounds[r]) \/ Failed(r, session.rounds[r])
  /\ UNCHANGED <<session, missing, image, now>>

(* handle_citizen_reply: no status is refused. *)
Advances(after) == Len(after.rounds) > Len(session.rounds)

Reply(newly, long) ==
  LET after == AfterReply(newly, long) IN
  /\ IF Advances(after)
     THEN Delivered(Len(after.rounds), after.rounds[Len(after.rounds)])
     ELSE UNCHANGED <<ledger, sends, faults>>
  /\ session' = after
  /\ UNCHANGED <<missing, image, now>>

(* The next round cannot be sent: the caller keeps the session it had. *)
ReplyRaises(newly, long) ==
  LET after == AfterReply(newly, long) IN
  /\ Advances(after)
  /\ \/ Failed(Len(after.rounds), after.rounds[Len(after.rounds)])
     \/ /\ Conflict(Len(after.rounds), after.rounds[Len(after.rounds)])
        /\ UNCHANGED <<ledger, sends, faults>>
  /\ UNCHANGED <<session, missing, image, now>>

CheckExpiry ==
  /\ now > Expiry /\ session.status = "WAITING_REPLY"
  /\ session' = [session EXCEPT !.status = "UNRESOLVED_EXPIRED"]
  /\ UNCHANGED <<missing, image, now, ledger, sends, faults>>

Tick ==
  /\ now < MaxTime
  /\ now' = now + 1
  /\ UNCHANGED <<session, missing, image, ledger, sends, faults>>

(* what is still missing; a reply resolves some of it *)
Open == Elements(missing) \ session.resolved

Next ==
  \/ Dispatch
  \/ \E newly \in SUBSET Open, long \in BOOLEAN :
       Reply(newly, long) \/ ReplyRaises(newly, long)
  \/ CheckExpiry
  \/ Tick

Spec == Init /\ [][Next]_vars
-----------------------------------------------------------------------------
(* The session, its ledger rows and its counters have their types; a round  *)
(* asks one or two questions and there are at most three (the bounds        *)
(* ClarificationRound and ClarificationSession validate).                   *)
Statuses == {"WAITING_REPLY", "RESOLVED", "UNRESOLVED_LIMIT",
             "UNRESOLVED_EXPIRED"}
RoundsOK(rounds) ==
  /\ Len(rounds) \in Rounds
  /\ \A r \in 1 .. Len(rounds) :
       /\ Len(rounds[r]) \in 1 .. MAX_QUESTIONS_PER_ROUND
       /\ Elements(rounds[r]) \subseteq Fields
TypeOK ==
  /\ session.status \in Statuses
  /\ session.resolved \subseteq Fields
  /\ RoundsOK(session.rounds)
  /\ missing \in MissingLists /\ image \in BOOLEAN
  /\ now \in 0 .. MaxTime /\ faults \in 0 .. MaxFaults
  /\ sends \in [Rounds -> Nat]
  /\ DOMAIN ledger \subseteq Rounds
  /\ \A r \in DOMAIN ledger :
       ledger[r].status \in {"SENT", "DELIVERY_UNKNOWN", "FAILED"}

AskedBefore(r) == UNION {Elements(session.rounds[i]) : i \in 1 .. (r - 1)}

(* A session is closed as resolved only when nothing of the report is       *)
(* missing, although submit_clarification_reply also resolves a session     *)
(* that has no question left to ask.                                        *)
ResolvedMeansComplete == session.status = "RESOLVED" => Open = {}

(* The citizen is asked a question again only once everything that is still *)
(* missing has been asked, and about the image never twice.                 *)
RepeatsComeLast ==
  \A r \in 1 .. Len(session.rounds) :
    LET again == Elements(session.rounds[r]) \cap AskedBefore(r) IN
    /\ Image \notin again
    /\ again # {} => Open \subseteq AskedBefore(r)

(* Giving up on a session at its limit means three rounds, a report that is *)
(* still incomplete, and, when six questions are enough for the report, no  *)
(* missing fact that was never asked about.                                 *)
LimitMeansAsked ==
  session.status = "UNRESOLVED_LIMIT" =>
    /\ Len(session.rounds) = MAX_ROUNDS
    /\ Open # {}
    /\ Len(missing) + (IF image THEN 1 ELSE 0)
         <= MAX_ROUNDS * MAX_QUESTIONS_PER_ROUND
         => Open \subseteq Asked(session)

(* However replies, expiry and limits meet, a session ends for the reason   *)
(* it gives: as resolved with nothing missing, at its limit with everything *)
(* asked.                                                                   *)
EndsAreEarned == ResolvedMeansComplete /\ LimitMeansAsked

(* Whatever fails, is retried or is answered twice, the citizen receives a  *)
(* round at most once, in the words of the session's own round; with no     *)
(* failed send every round after the first has been received.               *)
RoundsSentOnce ==
  \A r \in Rounds :
    /\ sends[r] <= 1
    /\ sends[r] = 1 => OnRecord(r)
    /\ r <= Len(session.rounds) /\ OnRecord(r)
         => ledger[r].questions = session.rounds[r]
    /\ r \in 2 .. Len(session.rounds) /\ faults = 0 => sends[r] = 1

(* A reply after expires_at neither resolves a session nor opens another    *)
(* round, and an expired session stays expired.                             *)
LateRepliesChangeNothing ==
  [][ now > Expiry =>
        /\ session'.rounds = session.rounds
        /\ session'.status \in {session.status, "UNRESOLVED_EXPIRED"} ]_vars

(* What the citizen has already made known is not asked about in a later    *)
(* round, and is never forgotten by a later reply.                          *)
KnownFactsNotAsked ==
  [][ /\ session.resolved \subseteq session'.resolved
      /\ Len(session'.rounds) > Len(session.rounds) =>
           Elements(session'.rounds[Len(session'.rounds)])
             \cap session'.resolved = {} ]_vars
=============================================================================
