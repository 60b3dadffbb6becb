-------------------------------- MODULE Policy -------------------------------
(***************************************************************************)
(* The gate in front of a ticket, twice: evaluate_ticket_creation of       *)
(* policy.py, which the gateway uses when it is started without OPA, and   *)
(* the rules of policy.rego, which OPA evaluates and OpaPolicyClient asks  *)
(* for.  The rules are partial: OPA has no result for an input whose rules *)
(* are all false, and an error for one with two different results.         *)
(*                                                                         *)
(* Both read one directory and one list of categories (a test compares the *)
(* files), and a PolicyInput has no other category.  An input is what the  *)
(* rules see of it: does it have missing fields, does it have its          *)
(* mandatory evidence, is its key the one the case should have.            *)
(***************************************************************************)
EXTENDS Integers

CONSTANTS Jurisdictions, Categories, Units,
          Directory,    \* the unit in charge, for some places and categories
          NoInput

Input == [jurisdiction : Jurisdictions, category : Categories, unit : Units,
          missing : BOOLEAN, evidence : BOOLEAN, ownKey : BOOLEAN]

ASSUME PolicyAssumption == NoInput \notin Input

VARIABLES input, opa, verdict   \* asked about, how OPA fared, the answer
policyVars == <<input, opa, verdict>>

Allow == [decision |-> "ALLOW", rules |-> {"POL-02", "POL-03", "POL-06"},
          reason |-> "TICKET_CREATE_ALLOWED"]
Deny(rule, why) == [decision |-> "DENY", rules |-> {rule}, reason |-> why]
WrongRoute == Deny("POL-02", "AUTHORITY_ROUTE_INVALID")
NoEvidence == Deny("POL-03", "MANDATORY_EVIDENCE_MISSING")
WrongKey == Deny("POL-06", "IDEMPOTENCY_KEY_INVALID")
FailClosed(why) == Deny("POL-OPA-FAIL-CLOSED", why)
NoVerdict == Deny("none", "none")

(* policy.py: the first check that fails decides *)
Evaluate(i) ==
  IF \/ <<i.jurisdiction, i.category>> \notin DOMAIN Directory
     \/ Directory[<<i.jurisdiction, i.category>>] # i.unit
    THEN WrongRoute
  ELSE IF i.missing \/ ~i.evidence THEN NoEvidence
  ELSE IF ~i.ownKey THEN WrongKey
  ELSE Allow

(* policy.rego *)
ValidAuthority(i) ==
  /\ <<i.jurisdiction, i.category>> \in DOMAIN Directory
  /\ i.unit = Directory[<<i.jurisdiction, i.category>>]
ValidEvidence(i) == i.evidence /\ ~i.missing
ValidIdempotency(i) == i.ownKey

(* mutant: the last rule does not ask for evidence *)
KeyRuleAlone(i) == ValidAuthority(i) /\ ~ValidIdempotency(i)

KeyRule(i) == ValidAuthority(i) /\ ValidEvidence(i) /\ ~ValidIdempotency(i)

Results(i) ==
  {result \in {Allow, WrongRoute, NoEvidence, WrongKey} :
     \/ /\ result = Allow
        /\ ValidAuthority(i) /\ ValidEvidence(i) /\ ValidIdempotency(i)
     \/ result = WrongRoute /\ ~ValidAuthority(i)
     \/ result = NoEvidence /\ ValidAuthority(i) /\ ~ValidEvidence(i)
     \/ result = WrongKey /\ KeyRule(i)}

PolicyInit ==
  /\ input \in Input \cup {NoInput}
  /\ opa = "asked" /\ verdict = NoVerdict

Pending == input # NoInput /\ opa = "asked"

(* OPA is up: one result, none (a body without "result"), or an error (500) *)
Answered ==
  /\ Pending
  /\ opa' = "answered"
  /\ verdict' =
       IF Results(input) = {} THEN FailClosed("OPA_INVALID_RESPONSE")
       ELSE IF \A a, b \in Results(input) : a = b
              THEN CHOOSE result \in Results(input) : TRUE
       ELSE FailClosed("OPA_UNAVAILABLE")
  /\ UNCHANGED input

(* it is down, too slow, or what it says is no PolicyResult *)
Unanswered ==
  /\ Pending
  /\ opa' = "unanswered"
  /\ \E why \in {"OPA_UNAVAILABLE", "OPA_HTTP_ERROR", "OPA_INVALID_RESPONSE",
                 "OPA_EVALUATION_FAILED"} : verdict' = FailClosed(why)
  /\ UNCHANGED input

PolicyNext == Answered \/ Unanswered

PolicySpec == PolicyInit /\ [][PolicyNext]_policyVars
-----------------------------------------------------------------------------
(* The two gates are one: for every input OPA has exactly one result, with  *)
(* the decision, rule and reason that the evaluator in the process gives,   *)
(* also when several rules are broken at once; without OPA nothing passes.  *)
PoliciesAgree ==
  /\ opa = "answered" => verdict = Evaluate(input)
  /\ opa = "unanswered" => verdict.decision = "DENY"
=============================================================================
