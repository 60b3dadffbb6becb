--------------------------- MODULE CaseFlowProofs ----------------------------
(* Proofs about the way from snapshots to tickets and replies, for any      *)
(* cases, conversations, revisions, readings and number of faults.          *)
EXTENDS CaseFlow, FiniteSetTheorems, TLAPS

Jobs ==
  [case : Cases, revision : Revisions, reading : Readings, marked : BOOLEAN]
Messages == [case : Cases, key : Keys, text : Texts]
Entries == [category : Categories, root : Categories]
RowSet == [state : RowStates, category : Categories \cup {NoCategory}, ticket : Nat]

-----------------------------------------------------------------------------
(* Sequences *)

LEMMA EmptyHasNoElements == Elements(<<>>) = {}
BY DEF Elements

LEMMA AppendElements ==
  ASSUME NEW S, NEW s \in Seq(S), NEW e \in S
  PROVE  /\ Append(s, e) \in Seq(S) /\ Append(s, e) # <<>>
         /\ Elements(Append(s, e)) = Elements(s) \cup {e}
<1>1. /\ Append(s, e) \in Seq(S) /\ Len(Append(s, e)) = Len(s) + 1
      /\ Append(s, e)[Len(s) + 1] = e
      /\ \A i \in 1 .. Len(s) : Append(s, e)[i] = s[i]
      /\ Len(s) \in Nat
  OBVIOUS
<1>2. ASSUME NEW x \in Elements(Append(s, e)) PROVE x \in Elements(s) \cup {e}
  <2>1. PICK i \in 1 .. Len(Append(s, e)) : x = Append(s, e)[i]
    BY DEF Elements
  <2>2. CASE i = Len(s) + 1
    BY <1>1, <2>1, <2>2
  <2>3. CASE i \in 1 .. Len(s)
    BY <1>1, <2>1, <2>3 DEF Elements
  <2>4. QED
    BY <1>1, <2>1, <2>2, <2>3
<1>3. ASSUME NEW x \in Elements(s) PROVE x \in Elements(Append(s, e))
  <2>1. PICK i \in 1 .. Len(s) : x = s[i]
    BY DEF Elements
  <2>2. i \in 1 .. Len(Append(s, e)) /\ Append(s, e)[i] = x
    BY <1>1, <2>1
  <2>3. QED
    BY <2>2 DEF Elements
<1>4. e \in Elements(Append(s, e))
  <2>1. Len(s) + 1 \in 1 .. Len(Append(s, e))
    BY <1>1
  <2>2. QED
    BY <1>1, <2>1 DEF Elements
<1>5. Append(s, e) # <<>>
  BY <1>1
<1>6. QED
  BY <1>1, <1>2, <1>3, <1>4, <1>5

LEMMA ConcatOne ==
  ASSUME NEW S, NEW s \in Seq(S), NEW e \in S
  PROVE  s \o <<e>> = Append(s, e) /\ s \o <<>> = s
OBVIOUS

LEMMA OneElement ==
  ASSUME NEW S, NEW e \in S
  PROVE  <<e>> \in Seq(S) /\ <<e>> # <<>> /\ Elements(<<e>>) = {e}
<1>1. <<e>> \in Seq(S) /\ Len(<<e>>) = 1 /\ <<e>>[1] = e
  OBVIOUS
<1>2. 1 .. 1 = {1}
  OBVIOUS
<1>3. Elements(<<e>>) = {<<e>>[i] : i \in {1}}
  BY <1>1, <1>2 DEF Elements
<1>4. QED
  BY <1>1, <1>3

LEMMA HeadAndTail ==
  ASSUME NEW S, NEW s \in Seq(S), s # <<>>
  PROVE  /\ Head(s) \in S /\ Tail(s) \in Seq(S)
         /\ Elements(s) = {Head(s)} \cup Elements(Tail(s))
<1>1. /\ Head(s) \in S /\ Tail(s) \in Seq(S) /\ Head(s) = s[1]
      /\ Len(s) \in Nat /\ Len(s) # 0 /\ Len(Tail(s)) = Len(s) - 1
      /\ \A i \in 1 .. Len(Tail(s)) : Tail(s)[i] = s[i + 1]
  OBVIOUS
<1>2. ASSUME NEW x \in Elements(s) PROVE x \in {Head(s)} \cup Elements(Tail(s))
  <2>1. PICK i \in 1 .. Len(s) : x = s[i]
    BY DEF Elements
  <2>2. CASE i = 1
    BY <1>1, <2>1, <2>2
  <2>3. CASE i # 1
    <3>1. i - 1 \in 1 .. Len(Tail(s)) /\ (i - 1) + 1 = i
      BY <1>1, <2>1, <2>3
    <3>2. Tail(s)[i - 1] = x
      BY <1>1, <2>1, <3>1
    <3>3. QED
      BY <3>1, <3>2 DEF Elements
  <2>4. QED
    BY <2>2, <2>3
<1>3. Head(s) \in Elements(s)
  <2>1. 1 \in 1 .. Len(s)
    BY <1>1
  <2>2. QED
    BY <1>1, <2>1 DEF Elements
<1>4. ASSUME NEW x \in Elements(Tail(s)) PROVE x \in Elements(s)
  <2>1. PICK i \in 1 .. Len(Tail(s)) : x = Tail(s)[i]
    BY DEF Elements
  <2>2. i + 1 \in 1 .. Len(s) /\ s[i + 1] = x
    BY <1>1, <2>1
  <2>3. QED
    BY <2>2 DEF Elements
<1>5. QED
  BY <1>1, <1>2, <1>3, <1>4

LEMMA ElementsTyped ==
  ASSUME NEW S, NEW s \in Seq(S), NEW x \in Elements(s)
  PROVE  x \in S
BY DEF Elements

-----------------------------------------------------------------------------
(* The pipeline *)

(* What a message of case c may be: a receipt is about c itself, a link     *)
(* names a case of the knowledge bank.                                      *)
Proper(m, c) ==
  /\ m \in Messages
  /\ m.text.says = "linked" => m.text.about \in Banked
  /\ m.text.says = "receipt" => m.text.about = c

LEMMA MessageTyped ==
  ASSUME NEW c \in Cases, NEW purpose, NEW n, NEW says, NEW about, NEW category,
         <<purpose, ConversationOf[c], n>> \in Keys,
         says \in {"unknown", "linked", "receipt", "where", "what"},
         about \in Cases \cup {NoCase}, category \in Categories \cup {NoCategory}
  PROVE  /\ Message(c, purpose, n, says, about, category) \in Messages
         /\ Message(c, purpose, n, says, about, category).text.says = says
         /\ Message(c, purpose, n, says, about, category).text.about = about
<1> DEFINE text == [says |-> says, about |-> about, category |-> category]
           key == <<purpose, ConversationOf[c], n>>
           m == Message(c, purpose, n, says, about, category)
<1>1. text \in Texts
  BY DEF Texts
<1>2. text.says = says /\ text.about = about
  OBVIOUS
<1>3. key \in Keys
  OBVIOUS
<1>4. m = [case |-> c, key |-> key, text |-> text]
  BY DEF Message
<1> HIDE DEF text, key, m
<1>5. m \in Messages
  BY <1>1, <1>3, <1>4 DEF Messages
<1>6. m.text = text
  BY <1>4
<1>7. m \in Messages /\ m.text.says = says /\ m.text.about = about
  BY <1>2, <1>5, <1>6
<1>8. QED
  BY <1>7 DEF m

LEMMA ReadingTyped ==
  ASSUME NEW r \in Readings
  PROVE  r.category \in Categories /\ r.root \in Categories \cup {NoCategory}
BY CaseFlowAssumption

LEMMA CategoryTyped ==
  ASSUME TypeOK, NEW j \in Jobs, NEW look \in Lookups(j)
  PROVE  Category(j, look) \in Categories
<1>1. j.reading.category \in Categories
  BY ReadingTyped DEF Jobs
<1>2. look.hit = "reuse" => bank[look.entry] \in Entries
  BY DEF Lookups, Banked, TypeOK, Entries
<1>3. Read(j, look) \in Categories
  BY <1>1, <1>2 DEF Read, Entries
<1>4. Previous(j) \in Categories \cup {NoCategory}
  BY DEF Previous, TypeOK, Jobs
<1>5. QED
  BY <1>3, <1>4 DEF Category

(* What an outcome of job j may be: it sends a receipt only along with the  *)
(* order for a ticket, and orders one ticket, of the job's revision.        *)
Good(j, o) ==
  /\ o.state \in {"READY", "TICKETED", "WAITING_CLARIFICATION", "REJECTED"}
  /\ o.category \in Categories
  /\ \/ o.message = <<>>
     \/ \E m : /\ o.message = <<m>> /\ Proper(m, j.case)
               /\ m.text.says = "receipt" => o.tickets # <<>>
  /\ o.tickets \in {<<>>, <<<<j.case, j.revision>>>>}
  /\ o.tickets # <<>> => o.state = "TICKETED"

LEMMA OutcomeTyped ==
  ASSUME TypeOK, NEW j \in Jobs, NEW look \in Lookups(j)
  PROVE  Good(j, Outcome(j, look))
<1> DEFINE out == Outcome(j, look)
           category == Category(j, look)
           order == <<<<j.case, j.revision>>>>
<1>1. /\ j.case \in Cases /\ j.revision \in Revisions
      /\ CivilAdmin \in Categories /\ category \in Categories
  BY CategoryTyped, CaseFlowAssumption DEF Jobs
<1>10. order # <<>>
  OBVIOUS
<1>11. /\ <<"status-inq", ConversationOf[j.case], j.revision>> \in Keys
       /\ <<"dup-ticket", ConversationOf[j.case], j.revision>> \in Keys
       /\ <<"ticket-receipt", ConversationOf[j.case], j.revision>> \in Keys
       /\ <<"clarification", ConversationOf[j.case], 1>> \in Keys
  <2>1. ConversationOf[j.case] \in Conversations
    BY <1>1, CaseFlowAssumption
  <2>2. QED
    BY <1>1, <2>1 DEF Keys
<1> HIDE DEF category, order
<1>2. Good(j, NoTicketFound(j))
  <2> DEFINE m == Message(j.case, "status-inq", j.revision, "unknown",
                          NoCase, NoCategory)
  <2>1. m \in Messages /\ m.text.says = "unknown"
    BY <1>1, <1>11, MessageTyped
  <2> HIDE DEF m
  <2>2. NoTicketFound(j) = [state |-> "READY", category |-> CivilAdmin,
                            tickets |-> <<>>, message |-> <<m>>]
    BY DEF NoTicketFound, m
  <2>3. Proper(m, j.case)
    BY <2>1 DEF Proper
  <2>4. QED
    BY <1>1, <2>1, <2>2, <2>3 DEF Good
<1>3. ASSUME look.hit = "linked" PROVE Good(j, Linked(j, look))
  <2>1. look.entry \in Banked /\ look.entry \in Cases
        /\ bank[look.entry].category \in Categories
    BY <1>3 DEF Lookups, Banked, TypeOK
  <2> DEFINE m == Message(j.case, "dup-ticket", j.revision, "linked",
                          look.entry, bank[look.entry].category)
  <2>2. /\ m \in Messages /\ m.text.says = "linked"
        /\ m.text.about = look.entry
    BY <1>1, <1>11, <2>1, MessageTyped
  <2> HIDE DEF m
  <2>3. Linked(j, look) =
          [state |-> "TICKETED", category |-> bank[look.entry].category,
           tickets |-> <<>>, message |-> <<m>>]
    BY DEF Linked, m
  <2>4. Proper(m, j.case)
    BY <2>1, <2>2 DEF Proper
  <2>5. QED
    BY <2>1, <2>2, <2>3, <2>4 DEF Good
<1>4. Good(j, Execute(j, category))
  <2> DEFINE m == Message(j.case, "ticket-receipt", j.revision, "receipt",
                          j.case, category)
  <2>1. m \in Messages /\ m.text.says = "receipt" /\ m.text.about = j.case
    BY <1>1, <1>11, MessageTyped
  <2> HIDE DEF m
  <2>2. Execute(j, category) = [state |-> "TICKETED", category |-> category,
                                tickets |-> order, message |-> <<m>>]
    BY DEF Execute, m, order
  <2>3. Proper(m, j.case)
    BY <2>1 DEF Proper
  <2>4. QED
    BY <1>1, <1>10, <2>1, <2>2, <2>3 DEF Good, order
<1>5. Good(j, Clarify(j, category))
  <2> DEFINE m == IF j.reading.complete
                  THEN Message(j.case, "clarification", 1, "what",
                               NoCase, NoCategory)
                  ELSE Message(j.case, "clarification", 1, "where",
                               NoCase, category)
  <2>1. m \in Messages /\ m.text.says \in {"what", "where"}
    <3>1. /\ Message(j.case, "clarification", 1, "what", NoCase, NoCategory) \in Messages
          /\ Message(j.case, "clarification", 1, "what", NoCase, NoCategory).text.says = "what"
      BY <1>1, <1>11, MessageTyped
    <3>2. /\ Message(j.case, "clarification", 1, "where", NoCase, category) \in Messages
          /\ Message(j.case, "clarification", 1, "where", NoCase, category).text.says = "where"
      BY <1>1, <1>11, MessageTyped
    <3>3. QED
      BY <3>1, <3>2
  <2> HIDE DEF m
  <2>2. Clarify(j, category) =
          [state |-> "WAITING_CLARIFICATION", category |-> category,
           tickets |-> <<>>, message |-> <<m>>]
    BY DEF Clarify, m
  <2>3. Proper(m, j.case)
    BY <2>1 DEF Proper
  <2>4. QED
    BY <1>1, <2>1, <2>2, <2>3 DEF Good
<1>6. Good(j, Reject(category))
  BY <1>1 DEF Reject, Good
<1>7. \/ out = NoTicketFound(j)
      \/ look.hit = "linked" /\ out = Linked(j, look)
      \/ out = Execute(j, category)
      \/ out = Clarify(j, category)
      \/ out = Reject(category)
  BY DEF Outcome, category
<1> HIDE DEF out
<1>8. Good(j, out)
  BY <1>2, <1>3, <1>4, <1>5, <1>6, <1>7
<1>9. QED
  BY <1>8 DEF out

(* The bank gains an entry only of a case whose ticket is ordered, and      *)
(* loses none.                                                              *)
LEMMA BankTyped ==
  ASSUME TypeOK, NEW j \in Jobs, NEW look \in Lookups(j)
  PROVE  /\ BankAfter(j, look) \in [Cases -> {NoEntry} \cup Entries]
         /\ \A c \in Cases : BankAfter(j, look)[c] # bank[c] =>
              c = j.case /\ Outcome(j, look).tickets # <<>>
         /\ \A c \in Cases : bank[c] # NoEntry => BankAfter(j, look)[c] # NoEntry
<1> DEFINE category == Category(j, look)
           root == IF look.hit # "reuse" /\ j.reading.root # NoCategory
                   THEN j.reading.root ELSE category
           entry == [category |-> category, root |-> root]
<1>1. category \in Categories
  BY CategoryTyped
<1>2. j.reading.root \in Categories \cup {NoCategory} /\ j.case \in Cases
  BY ReadingTyped DEF Jobs
<1>3. entry \in Entries /\ NoEntry \notin Entries
  BY <1>1, <1>2, CaseFlowAssumption DEF Entries
<1>4. bank \in [Cases -> {NoEntry} \cup Entries]
  BY DEF TypeOK, Entries
<1>5. \/ BankAfter(j, look) = bank
      \/ /\ Outcome(j, look).tickets # <<>>
         /\ BankAfter(j, look) = [bank EXCEPT ![j.case] = entry]
  BY DEF BankAfter
<1> HIDE DEF entry
<1>6. QED
  BY <1>2, <1>3, <1>4, <1>5

(* Updates of a case's row *)
LEMMA RowUpdates ==
  ASSUME row \in [Cases -> RowSet], NEW c \in Cases, NEW s \in RowStates,
         NEW k \in Categories \cup {NoCategory}, NEW t \in Nat
  PROVE  /\ Marked(c, s) \in [Cases -> RowSet] /\ Marked(c, s)[c].state = s
         /\ Marked(c, s)[c].ticket = row[c].ticket
         /\ \A d \in Cases : d # c => Marked(c, s)[d] = row[d]
         /\ Decided(c, s, k) \in [Cases -> RowSet] /\ Decided(c, s, k)[c].state = s
         /\ Decided(c, s, k)[c].ticket = row[c].ticket
         /\ \A d \in Cases : d # c => Decided(c, s, k)[d] = row[d]
         /\ Ticketed(c, t) \in [Cases -> RowSet]
         /\ Ticketed(c, t)[c].state = "TICKETED" /\ Ticketed(c, t)[c].ticket = t
         /\ \A d \in Cases : d # c => Ticketed(c, t)[d] = row[d]
<1> DEFINE x == [state |-> s, category |-> row[c].category, ticket |-> row[c].ticket]
           y == [state |-> s, category |-> k, ticket |-> row[c].ticket]
           w == [state |-> "TICKETED", category |-> row[c].category, ticket |-> row[c].ticket]
           z == [state |-> "TICKETED", category |-> row[c].category, ticket |-> t]
<1>1. /\ row[c] = [state |-> row[c].state, category |-> row[c].category,
                   ticket |-> row[c].ticket]
      /\ row[c].category \in Categories \cup {NoCategory} /\ row[c].ticket \in Nat
  BY DEF RowSet
<1>2. /\ x \in RowSet /\ x.state = s /\ x.ticket = row[c].ticket
      /\ y \in RowSet /\ y.state = s /\ y.ticket = row[c].ticket
      /\ z \in RowSet /\ z.state = "TICKETED" /\ z.ticket = t
  BY <1>1 DEF RowSet, RowStates
<1>3. /\ [row[c] EXCEPT !.state = s] = x
      /\ [x EXCEPT !.category = k] = y
      /\ [row[c] EXCEPT !.state = "TICKETED"] = w
      /\ [w EXCEPT !.ticket = t] = z
  BY <1>1
<1> HIDE DEF x, y, z, w
<1>4. Marked(c, s) = [row EXCEPT ![c] = x]
  BY <1>3 DEF Marked
<1>5. /\ Decided(c, s, k) = [[row EXCEPT ![c] = x] EXCEPT ![c].category = k]
      /\ Ticketed(c, t) = [[row EXCEPT ![c] = w] EXCEPT ![c].ticket = t]
  BY <1>3 DEF Decided, Ticketed
<1>6. /\ Decided(c, s, k) = [row EXCEPT ![c] = y]
      /\ Ticketed(c, t) = [row EXCEPT ![c] = z]
  BY <1>3, <1>5
<1>7. \A v \in RowSet : LET r == [row EXCEPT ![c] = v] IN
        /\ r \in [Cases -> RowSet] /\ r[c] = v
        /\ \A d \in Cases : d # c => r[d] = row[d]
  OBVIOUS
<1>8. /\ Marked(c, s) \in [Cases -> RowSet] /\ Marked(c, s)[c] = x
      /\ \A d \in Cases : d # c => Marked(c, s)[d] = row[d]
  BY <1>2, <1>4, <1>7
<1>9. /\ Decided(c, s, k) \in [Cases -> RowSet] /\ Decided(c, s, k)[c] = y
      /\ \A d \in Cases : d # c => Decided(c, s, k)[d] = row[d]
  BY <1>2, <1>6, <1>7
<1>10. /\ Ticketed(c, t) \in [Cases -> RowSet] /\ Ticketed(c, t)[c] = z
       /\ \A d \in Cases : d # c => Ticketed(c, t)[d] = row[d]
  BY <1>2, <1>6, <1>7
<1>11. QED
  BY <1>2, <1>8, <1>9, <1>10

LEMMA RowMarked ==
  ASSUME row \in [Cases -> RowSet], NEW c \in Cases, NEW s \in RowStates
  PROVE  /\ Marked(c, s) \in [Cases -> RowSet] /\ Marked(c, s)[c].state = s
         /\ Marked(c, s)[c].ticket = row[c].ticket
         /\ \A d \in Cases : d # c => Marked(c, s)[d] = row[d]
<1>1. NoCategory \in Categories \cup {NoCategory} /\ 0 \in Nat
  OBVIOUS
<1>2. QED
  BY <1>1, RowUpdates

LEMMA RowDecided ==
  ASSUME row \in [Cases -> RowSet], NEW c \in Cases, NEW s \in RowStates,
         NEW k \in Categories \cup {NoCategory}
  PROVE  /\ Decided(c, s, k) \in [Cases -> RowSet] /\ Decided(c, s, k)[c].state = s
         /\ Decided(c, s, k)[c].ticket = row[c].ticket
         /\ \A d \in Cases : d # c => Decided(c, s, k)[d] = row[d]
<1>1. 0 \in Nat
  OBVIOUS
<1>2. QED
  BY <1>1, RowUpdates

LEMMA RowTicketed ==
  ASSUME row \in [Cases -> RowSet], NEW c \in Cases, NEW t \in Nat
  PROVE  /\ Ticketed(c, t) \in [Cases -> RowSet]
         /\ Ticketed(c, t)[c].state = "TICKETED" /\ Ticketed(c, t)[c].ticket = t
         /\ \A d \in Cases : d # c => Ticketed(c, t)[d] = row[d]
<1>1. NoCategory \in Categories \cup {NoCategory} /\ "READY" \in RowStates
  BY DEF RowStates
<1>2. QED
  BY <1>1, RowUpdates

-----------------------------------------------------------------------------
(* Types *)

LEMMA RevisionsTyped ==
  /\ \A c \in Cases, n \in Nat : 1 <= n /\ n <= LastRevision[c] =>
       n \in Revisions /\ <<c, n>> \in Decisions
  /\ \A r \in Revisions : r \in Nat /\ r > 0
  /\ \A d \in Decisions :
       d[1] \in Cases /\ d[2] \in Revisions /\ d = <<d[1], d[2]>>
       /\ d[2] <= LastRevision[d[1]]
BY CaseFlowAssumption DEF Revisions, Decisions

LEMMA TicketsTyped == TypeOK => tickets \in Seq(Decisions)
BY DEF TypeOK

LEMMA InitTyped == Init => TypeOK
<1> SUFFICES ASSUME Init PROVE TypeOK
  OBVIOUS
<1>1. (CHOOSE r \in Readings : TRUE) \in Readings
  BY CaseFlowAssumption
<1>2. row \in [Cases -> RowSet]
  BY DEF Init, RowSet, RowStates
<1>3. LastRevision \in [Cases -> Nat] /\ MaxFaults \in Nat
  BY CaseFlowAssumption
<1>4. up \in BOOLEAN
  BY DEF Init
<1>5. QED
  BY <1>1, <1>2, <1>3, <1>4 DEF Init, TypeOK, RowSet

LEMMA AssembleTyped ==
  ASSUME TypeOK, NEW c \in Cases, Assemble(c)
  PROVE  TypeOK'
<1>1. /\ revision[c] \in Nat /\ revision[c] < LastRevision[c]
      /\ LastRevision[c] \in Nat
  BY CaseFlowAssumption DEF TypeOK, Assemble
<1>2. revision' \in [Cases -> Nat] /\ \A d \in Cases : revision'[d] <= LastRevision[d]
  BY <1>1 DEF TypeOK, Assemble
<1>3. reading' \in [Cases -> Readings]
  BY DEF TypeOK, Assemble
<1>4. row' \in [Cases -> RowSet]
  <2>1. row \in [Cases -> RowSet] /\ "READY" \in RowStates
    BY DEF TypeOK, RowSet, RowStates
  <2>2. row' = Marked(c, "READY")
    BY DEF Assemble
  <2>3. QED
    BY <2>1, <2>2, RowMarked
<1>5. ready' \in Seq(Decisions)
  <2>1. <<c, revision[c] + 1>> \in Decisions
    BY <1>1, RevisionsTyped
  <2>2. QED
    BY <2>1 DEF TypeOK, Assemble
<1>6. up' = up /\ UNCHANGED <<workerVars, ticketVars, messageVars, faults>>
  BY DEF Assemble
<1>7. QED
  BY <1>2, <1>3, <1>4, <1>5, <1>6 DEF TypeOK, RowSet, workerVars, ticketVars,
                                      messageVars

LEMMA SkipStaleTyped ==
  ASSUME TypeOK, SkipStale
  PROVE  TypeOK'
<1>1. ready' \in Seq(Decisions)
  BY HeadAndTail DEF TypeOK, SkipStale
<1>2. up' = up /\ UNCHANGED <<revision, reading, row, workerVars, ticketVars,
                             messageVars, faults>>
  BY DEF SkipStale
<1>3. QED
  BY <1>1, <1>2 DEF TypeOK, workerVars, ticketVars, messageVars

LEMMA LoadTyped ==
  ASSUME TypeOK, LoadSnapshot
  PROVE  /\ TypeOK'
         /\ job' = [case |-> Head(ready)[1], revision |-> Head(ready)[2],
                    reading |-> reading[Head(ready)[1]], marked |-> FALSE]
         /\ Head(ready) \in Decisions
<1>1. Head(ready) \in Decisions
  BY HeadAndTail DEF TypeOK, LoadSnapshot
<1>2. /\ job' = [case |-> Head(ready)[1], revision |-> Head(ready)[2],
                 reading |-> reading[Head(ready)[1]], marked |-> FALSE]
      /\ UNCHANGED <<caseVars, row, bank, ticketVars, messageVars, up, faults>>
  BY DEF LoadSnapshot
<1>3. job' \in Jobs
  BY <1>1, <1>2, RevisionsTyped DEF TypeOK, Jobs
<1>4. QED
  BY <1>1, <1>2, <1>3 DEF TypeOK, Jobs, caseVars, ticketVars, messageVars

LEMMA MarkTyped ==
  ASSUME TypeOK, MarkAnalyzing
  PROVE  TypeOK' /\ job' \in Jobs /\ job'.case = job.case /\ job'.revision = job.revision
<1>1. PICK j \in Jobs : job = j
  BY DEF TypeOK, MarkAnalyzing, Jobs
<1>2. /\ job' = [j EXCEPT !.marked = TRUE]
      /\ UNCHANGED <<caseVars, row, bank, ticketVars, messageVars, up, faults>>
  BY <1>1 DEF MarkAnalyzing
<1>3. job' \in Jobs /\ job'.case = j.case /\ job'.revision = j.revision
  BY <1>2 DEF Jobs
<1>4. QED
  BY <1>1, <1>2, <1>3 DEF TypeOK, Jobs, caseVars, ticketVars, messageVars

(* What a commit of job j does, spelled out. *)
Commits(look) ==
  LET out == Outcome(job, look) IN
  /\ \/ row' = row /\ job.revision # revision[job.case]
     \/ /\ row' = Decided(job.case, out.state, out.category)
        /\ job.revision = revision[job.case]
  /\ tickets' = tickets \o out.tickets
  /\ messages' = messages \o out.message
  /\ bank' \in {bank, BankAfter(job, look)}

LEMMA CommitIs ==
  ASSUME CommitResult
  PROVE  /\ \E look \in Lookups(job) : Commits(look)
         /\ up /\ job # NoJob /\ ready' = Tail(ready) /\ job' = NoJob
         /\ UNCHANGED <<revision, reading, simulated, issued, denied,
                        ledger, sends, up, faults>>
BY DEF CommitResult, Commits

LEMMA CommitTyped ==
  ASSUME TypeOK, CommitResult, ready # <<>>,
         Head(ready) = <<job.case, job.revision>>
  PROVE  TypeOK'
<1>1. job \in Jobs
  BY DEF TypeOK, CommitResult, Jobs
<1>2. PICK look \in Lookups(job) : Commits(look)
  BY CommitIs
<1> DEFINE out == Outcome(job, look)
<1>3. Good(job, out)
  BY <1>1, OutcomeTyped
<1>4. /\ row' = row \/ row' = Decided(job.case, out.state, out.category)
      /\ tickets' = tickets \o out.tickets
      /\ messages' = messages \o out.message
      /\ bank' \in {bank, BankAfter(job, look)}
  BY <1>2 DEF Commits
<1> HIDE DEF out
<1>5. row' \in [Cases -> RowSet]
  <2>1. row \in [Cases -> RowSet]
    BY DEF TypeOK, RowSet
  <2>2. /\ out.state \in RowStates /\ job.case \in Cases
        /\ out.category \in Categories \cup {NoCategory}
    BY <1>1, <1>3 DEF Good, RowStates, Jobs
  <2>3. QED
    BY <1>4, <2>1, <2>2, RowDecided
<1>6. tickets' \in Seq(Decisions)
  <2>1. <<job.case, job.revision>> \in Decisions
    <3>1. ready \in Seq(Decisions)
      BY DEF TypeOK
    <3>2. QED
      BY <3>1, HeadAndTail
  <2>2. out.tickets \in Seq(Decisions)
    <3>1. <<>> \in Seq(Decisions)
      OBVIOUS
    <3>2. <<<<job.case, job.revision>>>> \in Seq(Decisions)
      BY <2>1
    <3>3. QED
      BY <1>3, <3>1, <3>2 DEF Good
  <2>3. QED
    BY <1>4, <2>2 DEF TypeOK
<1>7. messages' \in Seq(Messages)
  <2>1. out.message \in Seq(Messages)
    <3>1. /\ <<>> \in Seq(Messages)
          /\ \A m \in Messages : <<m>> \in Seq(Messages)
      OBVIOUS
    <3>2. QED
      BY <1>3, <3>1 DEF Good, Proper
  <2>2. QED
    BY <1>4, <2>1 DEF TypeOK, Messages
<1>8. bank' \in [Cases -> {NoEntry} \cup Entries]
  <2>1. bank \in [Cases -> {NoEntry} \cup Entries]
    BY DEF TypeOK, Entries
  <2>2. QED
    BY <1>1, <1>4, <2>1, BankTyped
<1>9. ready' \in Seq(Decisions)
  <2>1. ready \in Seq(Decisions) /\ ready' = Tail(ready)
    BY CommitIs DEF TypeOK
  <2>2. QED
    BY <2>1, HeadAndTail
<1>10. QED
  BY <1>5, <1>6, <1>7, <1>8, <1>9, CommitIs DEF TypeOK, RowSet, Messages, Entries

LEMMA DownTyped ==
  ASSUME TypeOK, GoDown
  PROVE  /\ up' \in BOOLEAN /\ job' \in {NoJob} \cup Jobs
         /\ simulated' \in [Cases -> {0} \cup Revisions]
BY DEF GoDown

LEMMA FaultTyped ==
  ASSUME TypeOK, Fault
  PROVE  faults' \in 0 .. MaxFaults /\ faults' = faults + 1 /\ faults \in Nat
BY CaseFlowAssumption DEF TypeOK, Fault

LEMMA CaseWorkerFailsTyped ==
  ASSUME TypeOK, CaseWorkerFails
  PROVE  TypeOK'
<1>1. job \in Jobs
  BY DEF TypeOK, CaseWorkerFails, Jobs
<1>2. bank' \in [Cases -> {NoEntry} \cup Entries]
  <2>1. bank \in [Cases -> {NoEntry} \cup Entries]
    BY DEF TypeOK, Entries
  <2>2. \/ bank' = bank
        \/ \E look \in Lookups(job) : bank' = BankAfter(job, look)
    BY DEF CaseWorkerFails
  <2>3. QED
    BY <1>1, <2>1, <2>2, BankTyped
<1>3. /\ Fault /\ GoDown
      /\ UNCHANGED <<caseVars, row, tickets, issued, denied, messageVars>>
  BY DEF CaseWorkerFails
<1>4. QED
  BY <1>2, <1>3, DownTyped, FaultTyped
     DEF TypeOK, Entries, Jobs, caseVars, messageVars

LEMMA TicketHead ==
  ASSUME TypeOK, tickets # <<>>
  PROVE  /\ Head(tickets) \in Decisions /\ Tail(tickets) \in Seq(Decisions)
         /\ Head(tickets)[1] \in Cases /\ Head(tickets)[2] \in Revisions
         /\ Head(tickets)[2] # 0
         /\ Head(tickets) = <<Head(tickets)[1], Head(tickets)[2]>>
         /\ Elements(tickets) = {Head(tickets)} \cup Elements(Tail(tickets))
         /\ Receipt(Head(tickets)[1]) \in Nat
<1>1. tickets \in Seq(Decisions)
  BY DEF TypeOK
<1>2. /\ Head(tickets) \in Decisions /\ Tail(tickets) \in Seq(Decisions)
      /\ Elements(tickets) = {Head(tickets)} \cup Elements(Tail(tickets))
  BY <1>1, HeadAndTail
<1>3. /\ Head(tickets)[1] \in Cases /\ Head(tickets)[2] \in Revisions
      /\ Head(tickets) = <<Head(tickets)[1], Head(tickets)[2]>>
      /\ Head(tickets)[2] # 0
  BY <1>2, RevisionsTyped
<1>4. issued[Head(tickets)[1]] \in Nat
  BY <1>3 DEF TypeOK
<1>5. QED
  BY <1>2, <1>3, <1>4 DEF Receipt

LEMMA CreateTicketTyped ==
  ASSUME TypeOK, CreateTicket
  PROVE  TypeOK'
<1> DEFINE c == Head(tickets)[1]
           r == Head(tickets)[2]
<1>1. /\ c \in Cases /\ r \in Revisions /\ Receipt(c) \in Nat
      /\ Tail(tickets) \in Seq(Decisions)
  BY TicketHead DEF CreateTicket
<1>2. /\ simulated' = [simulated EXCEPT ![c] = r]
      /\ issued' = [issued EXCEPT ![c] = Receipt(c)]
      /\ row' = Ticketed(c, Receipt(c))
      /\ tickets' = Tail(tickets)
      /\ UNCHANGED <<caseVars, workerVars, denied, messageVars, faults>>
      /\ up' = up
  BY DEF CreateTicket
<1> HIDE DEF c, r
<1>3. row' \in [Cases -> RowSet]
  <2>1. row \in [Cases -> RowSet]
    BY DEF TypeOK, RowSet
  <2>2. QED
    BY <1>1, <1>2, <2>1, RowTicketed
<1>4. QED
  BY <1>1, <1>2, <1>3 DEF TypeOK, RowSet, caseVars, workerVars, messageVars

LEMMA DenyTicketTyped ==
  ASSUME TypeOK, DenyTicket
  PROVE  TypeOK'
<1>1. /\ Head(tickets)[1] \in Cases /\ Head(tickets) \in Decisions
      /\ Tail(tickets) \in Seq(Decisions)
  BY TicketHead DEF DenyTicket
<1>2. /\ row' = Marked(Head(tickets)[1], "BLOCKED")
      /\ denied' = denied \cup {Head(tickets)}
      /\ tickets' = Tail(tickets) /\ Fault
      /\ UNCHANGED <<caseVars, workerVars, simulated, issued, messageVars>>
      /\ up' = up
  BY DEF DenyTicket
<1>3. row' \in [Cases -> RowSet]
  <2>1. row \in [Cases -> RowSet] /\ "BLOCKED" \in RowStates
    BY DEF TypeOK, RowSet, RowStates
  <2>2. QED
    BY <1>1, <1>2, <2>1, RowMarked
<1>4. QED
  BY <1>1, <1>2, <1>3, FaultTyped
     DEF TypeOK, RowSet, caseVars, workerVars, messageVars

LEMMA StopsTyped ==
  ASSUME TypeOK, TicketConflict \/ SendConflict
  PROVE  TypeOK'
<1>1. /\ GoDown
      /\ UNCHANGED <<caseVars, row, bank, tickets, issued, denied, messageVars, faults>>
  BY DEF TicketConflict, SendConflict
<1>2. QED
  BY <1>1, DownTyped DEF TypeOK, Jobs, caseVars, messageVars

LEMMA GatewayDiesTyped ==
  ASSUME TypeOK, GatewayDiesAfterTicket
  PROVE  TypeOK'
<1>1. Head(tickets)[1] \in Cases /\ Receipt(Head(tickets)[1]) \in Nat
  BY TicketHead DEF GatewayDiesAfterTicket
<1>2. /\ issued' = [issued EXCEPT ![Head(tickets)[1]] = Receipt(Head(tickets)[1])]
      /\ GoDown /\ Fault
      /\ UNCHANGED <<caseVars, row, bank, tickets, denied, messageVars>>
  BY DEF GatewayDiesAfterTicket
<1>3. issued' \in [Cases -> Nat]
  BY <1>1, <1>2 DEF TypeOK
<1>4. QED
  BY <1>2, <1>3, DownTyped, FaultTyped DEF TypeOK, Jobs, caseVars, messageVars

-----------------------------------------------------------------------------
(* Messages *)

LEMMA MessageHead ==
  ASSUME TypeOK, messages # <<>>
  PROVE  /\ Head(messages) \in Messages /\ Tail(messages) \in Seq(Messages)
         /\ Head(messages).key \in Keys /\ Head(messages).text \in Texts
         /\ Elements(messages) = {Head(messages)} \cup Elements(Tail(messages))
<1>1. messages \in Seq(Messages)
  BY DEF TypeOK, Messages
<1>2. Head(messages) \in Messages
  BY <1>1, HeadAndTail
<1>3. QED
  BY <1>1, <1>2, HeadAndTail DEF Messages

(* A new key's row and its sends, and those of all the others *)
LEMMA RecordedIs ==
  ASSUME TypeOK, messages # <<>>,
         NEW status \in {"SENT", "DELIVERY_UNKNOWN"}, Recorded(status)
  PROVE  LET k == Head(messages).key IN
         /\ ledger' \in [Keys -> {NoRow} \cup Rows]
         /\ ledger'[k] # NoRow /\ ledger'[k].text = Head(messages).text
         /\ \A l \in Keys : l # k => ledger'[l] = ledger[l]
<1> DEFINE k == Head(messages).key
           new == [status |-> status, text |-> Head(messages).text]
<1>1. k \in Keys /\ new \in Rows /\ new.text = Head(messages).text
  BY MessageHead DEF Rows
<1>2. ledger' = [ledger EXCEPT ![k] = new]
  BY DEF Recorded
<1>3. ledger \in [Keys -> {NoRow} \cup Rows]
  BY DEF TypeOK
<1> HIDE DEF k, new
<1>4. /\ ledger' \in [Keys -> {NoRow} \cup Rows] /\ ledger'[k] = new
      /\ \A l \in Keys : l # k => ledger'[l] = ledger[l]
  BY <1>1, <1>2, <1>3
<1>5. new # NoRow
  BY <1>1, NoRowAssumption
<1>6. QED
  BY <1>1, <1>4, <1>5 DEF k

LEMMA ReachedIs ==
  ASSUME TypeOK, messages # <<>>, Reached \/ UNCHANGED sends
  PROVE  LET k == Head(messages).key IN
         /\ sends' \in [Keys -> Nat]
         /\ sends'[k] <= sends[k] + 1
         /\ \A l \in Keys : l # k => sends'[l] = sends[l]
<1> DEFINE k == Head(messages).key
<1>1. k \in Keys /\ sends \in [Keys -> Nat]
  BY MessageHead DEF TypeOK
<1>2. sends' = [sends EXCEPT ![k] = @ + 1] \/ sends' = sends
  BY DEF Reached
<1> HIDE DEF k
<1>3. /\ sends' \in [Keys -> Nat] /\ sends'[k] <= sends[k] + 1
      /\ \A l \in Keys : l # k => sends'[l] = sends[l]
  BY <1>1, <1>2
<1>4. QED
  BY <1>3 DEF k

LEMMA ConsumedTyped ==
  ASSUME TypeOK, messages # <<>>, Consumed,
         ledger' \in [Keys -> {NoRow} \cup Rows],
         sends' \in [Keys -> Nat], faults' \in 0 .. MaxFaults
  PROVE  TypeOK'
<1>1. messages' \in Seq(Messages)
  BY MessageHead DEF Consumed
<1>2. /\ UNCHANGED <<caseVars, row, workerVars, ticketVars>>
      /\ up' = up
  BY DEF Consumed
<1>3. QED
  BY <1>1, <1>2 DEF TypeOK, Messages, caseVars, workerVars, ticketVars

LEMMA MessageStepsTyped ==
  ASSUME TypeOK, ReplaySend \/ Send \/ SendTimesOut \/ SendFails
  PROVE  TypeOK'
<1>1. messages # <<>>
  BY DEF ReplaySend, Send, SendTimesOut, SendFails, Unsent
<1>2. /\ ledger \in [Keys -> {NoRow} \cup Rows] /\ sends \in [Keys -> Nat]
      /\ faults \in 0 .. MaxFaults
  BY DEF TypeOK
<1>3. CASE ReplaySend
  BY <1>1, <1>2, <1>3, ConsumedTyped DEF ReplaySend
<1>4. CASE Send
  <2>1. Recorded("SENT") /\ Reached /\ Consumed /\ UNCHANGED faults
    BY <1>4 DEF Send
  <2>2. QED
    BY <1>1, <1>2, <2>1, ConsumedTyped, RecordedIs, ReachedIs
<1>5. CASE SendTimesOut
  <2>1. /\ Recorded("DELIVERY_UNKNOWN") /\ (Reached \/ UNCHANGED sends)
        /\ Consumed /\ Fault
    BY <1>5 DEF SendTimesOut
  <2>2. QED
    BY <1>1, <1>2, <2>1, ConsumedTyped, RecordedIs, ReachedIs, FaultTyped
<1>6. CASE SendFails
  <2>1. /\ Fault /\ (Reached \/ UNCHANGED sends) /\ GoDown
        /\ UNCHANGED <<caseVars, row, bank, tickets, issued, denied, messages, ledger>>
    BY <1>6 DEF SendFails
  <2>2. sends' \in [Keys -> Nat]
    BY <1>1, <2>1, ReachedIs
  <2>3. QED
    BY <2>1, <2>2, DownTyped, FaultTyped DEF TypeOK, Jobs, caseVars
<1>7. QED
  BY <1>3, <1>4, <1>5, <1>6

LEMMA RestartTyped ==
  ASSUME TypeOK, Restart \/ UNCHANGED vars
  PROVE  TypeOK'
<1>1. /\ UNCHANGED <<caseVars, row, workerVars, ticketVars, messageVars, faults>>
      /\ up' \in {up, TRUE}
  BY DEF Restart, vars
<1>2. up' \in BOOLEAN
  BY <1>1 DEF TypeOK
<1>3. QED
  BY <1>1, <1>2 DEF TypeOK, caseVars, workerVars, ticketVars, messageVars

-----------------------------------------------------------------------------
(* The order of revisions *)

Closed == {"REJECTED", "WAITING_CLARIFICATION"}

Distinct(s) == \A i, j \in 1 .. Len(s) : s[i] = s[j] => i = j

(* The worker's job is the event it consumes; every event and every command *)
(* is on its topic once and never on both, and is of a revision that        *)
(* exists; as long as the latest revision of a case has one, the case is    *)
(* neither rejected nor waiting for its citizen.                            *)
Order ==
  /\ job # NoJob => ready # <<>> /\ Head(ready) = <<job.case, job.revision>>
  /\ Distinct(ready)
  /\ \A d \in Elements(ready) \cup Elements(tickets) : d[2] <= revision[d[1]]
  /\ Elements(ready) \cap Elements(tickets) = {}
  /\ \A c \in Cases :
       <<c, revision[c]>> \in Elements(ready) \cup Elements(tickets)
         => row[c].state \notin Closed

LEMMA TypeKept ==
  ASSUME TypeOK, Order, [Next]_vars
  PROVE  TypeOK'
<1>1. CASE CommitResult
  <2>1. ready # <<>> /\ Head(ready) = <<job.case, job.revision>>
    BY <1>1, CommitIs DEF Order
  <2>2. QED
    BY <1>1, <2>1, CommitTyped
<1>2. QED
  BY <1>1, AssembleTyped, SkipStaleTyped, LoadTyped, MarkTyped, CaseWorkerFailsTyped,
     CreateTicketTyped, DenyTicketTyped, StopsTyped, GatewayDiesTyped,
     MessageStepsTyped, RestartTyped
     DEF Next, CaseStep, TicketStep, MessageStep

LEMMA DistinctAppend ==
  ASSUME NEW S, NEW s \in Seq(S), NEW e \in S, Distinct(s), e \notin Elements(s)
  PROVE  Distinct(Append(s, e)) /\ (s # <<>> => Head(Append(s, e)) = Head(s))
<1>1. /\ Append(s, e) \in Seq(S) /\ Len(Append(s, e)) = Len(s) + 1
      /\ Append(s, e)[Len(s) + 1] = e
      /\ \A i \in 1 .. Len(s) : Append(s, e)[i] = s[i]
      /\ Len(s) \in Nat
  OBVIOUS
<1>2. \A i \in 1 .. Len(s) : s[i] # e
  BY DEF Elements
<1>3. ASSUME NEW i \in 1 .. Len(Append(s, e)), NEW j \in 1 .. Len(Append(s, e)),
             Append(s, e)[i] = Append(s, e)[j]
      PROVE  i = j
  <2>1. CASE i \in 1 .. Len(s) /\ j \in 1 .. Len(s)
    BY <1>1, <1>3, <2>1 DEF Distinct
  <2>2. CASE i = Len(s) + 1 \/ j = Len(s) + 1
    BY <1>1, <1>2, <1>3, <2>2
  <2>3. QED
    BY <1>1, <2>1, <2>2
<1>4. ASSUME s # <<>> PROVE Head(Append(s, e)) = Head(s)
  <2>1. 1 \in 1 .. Len(s) /\ Head(s) = s[1] /\ Head(Append(s, e)) = Append(s, e)[1]
    BY <1>1, <1>4
  <2>2. QED
    BY <1>1, <2>1
<1>5. QED
  BY <1>3, <1>4 DEF Distinct

LEMMA DistinctTail ==
  ASSUME NEW S, NEW s \in Seq(S), s # <<>>, Distinct(s)
  PROVE  Distinct(Tail(s)) /\ Head(s) \notin Elements(Tail(s))
<1>1. /\ Head(s) = s[1] /\ Len(s) \in Nat /\ Len(s) # 0
      /\ Len(Tail(s)) = Len(s) - 1
      /\ \A i \in 1 .. Len(Tail(s)) : Tail(s)[i] = s[i + 1]
  OBVIOUS
<1>2. ASSUME NEW i \in 1 .. Len(Tail(s)), NEW j \in 1 .. Len(Tail(s)),
             Tail(s)[i] = Tail(s)[j]
      PROVE  i = j
  <2>1. i + 1 \in 1 .. Len(s) /\ j + 1 \in 1 .. Len(s) /\ s[i + 1] = s[j + 1]
    BY <1>1, <1>2
  <2>2. i + 1 = j + 1
    BY <2>1 DEF Distinct
  <2>3. QED
    BY <2>2
<1>3. ASSUME NEW i \in 1 .. Len(Tail(s)), Tail(s)[i] = Head(s)
      PROVE  FALSE
  <2>1. i + 1 \in 1 .. Len(s) /\ 1 \in 1 .. Len(s) /\ s[i + 1] = s[1] /\ i + 1 # 1
    BY <1>1, <1>3
  <2>2. QED
    BY <2>1 DEF Distinct
<1>4. QED
  BY <1>2, <1>3 DEF Distinct, Elements

(* The steps that touch neither the topics of events and tickets nor the    *)
(* tables of cases and tickets: at most the job is marked, or the services  *)
(* stop.                                                                    *)
Quiet ==
  /\ UNCHANGED <<revision, ready, tickets, row, issued, denied>>
  /\ \/ UNCHANGED <<job, simulated>>
     \/ /\ job # NoJob /\ simulated' = simulated
        /\ job'.case = job.case /\ job'.revision = job.revision
     \/ job' = NoJob /\ simulated' = [c \in Cases |-> 0]

LEMMA QuietSteps ==
  ASSUME TypeOK,
         \/ CaseWorkerFails \/ TicketConflict \/ SendConflict \/ SendFails
         \/ ReplaySend \/ Send \/ SendTimesOut \/ Restart \/ UNCHANGED vars
         \/ MarkAnalyzing
  PROVE  Quiet
<1>1. CASE MarkAnalyzing
  BY <1>1, MarkTyped DEF Quiet, MarkAnalyzing, caseVars, ticketVars
<1>2. CASE ~MarkAnalyzing
  BY <1>2 DEF Quiet, CaseWorkerFails, TicketConflict, SendConflict, SendFails,
     ReplaySend, Send, SendTimesOut, Restart, vars, GoDown, Consumed, caseVars,
     workerVars, ticketVars, messageVars
<1>3. QED
  BY <1>1, <1>2

LEMMA AssembleIs ==
  ASSUME TypeOK, NEW c \in Cases, Assemble(c)
  PROVE  /\ revision'[c] = revision[c] + 1 /\ revision[c] \in Nat
         /\ \A d \in Cases : d # c => revision'[d] = revision[d]
         /\ <<c, revision[c] + 1>> \in Decisions
         /\ ready' = Append(ready, <<c, revision[c] + 1>>)
         /\ row'[c].state = "READY" /\ row'[c].ticket = row[c].ticket
         /\ \A d \in Cases : d # c => row'[d] = row[d]
         /\ UNCHANGED <<job, bank, tickets, simulated, issued, denied, messages,
                        ledger, sends, faults>>
<1>1. /\ revision' = [revision EXCEPT ![c] = @ + 1]
      /\ row' = Marked(c, "READY") /\ revision[c] < LastRevision[c]
      /\ ready' = Append(ready, <<c, revision[c] + 1>>)
      /\ UNCHANGED <<job, bank, tickets, simulated, issued, denied, messages,
                     ledger, sends, faults>>
  BY DEF Assemble, workerVars, ticketVars, messageVars
<1>2. row \in [Cases -> RowSet] /\ "READY" \in RowStates
  BY DEF TypeOK, RowSet, RowStates
<1>3. revision \in [Cases -> Nat] /\ LastRevision[c] \in Nat
  BY CaseFlowAssumption DEF TypeOK
<1>4. <<c, revision[c] + 1>> \in Decisions
  BY <1>1, <1>3, RevisionsTyped
<1>5. /\ row'[c].state = "READY" /\ row'[c].ticket = row[c].ticket
      /\ \A d \in Cases : d # c => row'[d] = row[d]
  BY <1>1, <1>2, RowMarked
<1>6. QED
  BY <1>1, <1>3, <1>4, <1>5

(* What a commit does to tickets and cases *)
LEMMA CommitChanges ==
  ASSUME TypeOK, Order, CommitResult
  PROVE  /\ job \in Jobs /\ ready # <<>> /\ ready \in Seq(Decisions)
         /\ Head(ready) = <<job.case, job.revision>>
         /\ ready' = Tail(ready) /\ job' = NoJob /\ revision' = revision
         /\ UNCHANGED <<simulated, issued, denied, ledger, sends, faults>>
         /\ \A c \in Cases : row'[c].ticket = row[c].ticket
         /\ \A c \in Cases : row'[c] # row[c] =>
              c = job.case /\ job.revision = revision[c]
         /\ \/ Elements(tickets') = Elements(tickets)
            \/ /\ Elements(tickets') = Elements(tickets) \cup {Head(ready)}
               /\ job.revision = revision[job.case] =>
                    row'[job.case].state = "TICKETED"
<1>1. /\ up /\ job # NoJob /\ ready' = Tail(ready) /\ job' = NoJob
      /\ UNCHANGED <<revision, simulated, issued, denied, ledger, sends, faults>>
  BY CommitIs
<1>2. /\ job \in Jobs /\ ready # <<>> /\ ready \in Seq(Decisions)
      /\ Head(ready) = <<job.case, job.revision>>
  BY <1>1 DEF TypeOK, Jobs, Order
<1>3. PICK look \in Lookups(job) : Commits(look)
  BY CommitIs
<1> DEFINE out == Outcome(job, look)
<1>4. Good(job, out)
  BY <1>2, OutcomeTyped
<1>5. /\ \/ row' = row /\ job.revision # revision[job.case]
         \/ /\ row' = Decided(job.case, out.state, out.category)
            /\ job.revision = revision[job.case]
      /\ tickets' = tickets \o out.tickets
  BY <1>3 DEF Commits
<1> HIDE DEF out
<1>6. /\ row \in [Cases -> RowSet] /\ job.case \in Cases
      /\ out.state \in RowStates /\ out.category \in Categories \cup {NoCategory}
  BY <1>2, <1>4 DEF TypeOK, RowSet, Good, RowStates, Jobs
<1>7. job.revision = revision[job.case] =>
        /\ row'[job.case].state = out.state
        /\ row'[job.case].ticket = row[job.case].ticket
        /\ \A d \in Cases : d # job.case => row'[d] = row[d]
  BY <1>5, <1>6, RowDecided
<1>8. /\ \A c \in Cases : row'[c].ticket = row[c].ticket
      /\ \A c \in Cases : row'[c] # row[c] => c = job.case /\ job.revision = revision[c]
  BY <1>5, <1>7
<1>9. CASE out.tickets = <<>>
  <2>1. tickets' = tickets
    BY <1>5, <1>9 DEF TypeOK
  <2>2. QED
    BY <1>1, <1>2, <1>8, <2>1
<1>10. CASE out.tickets = <<Head(ready)>>
  <2>1. Head(ready) \in Decisions /\ tickets \in Seq(Decisions)
    BY <1>2, HeadAndTail, TicketsTyped
  <2>2. /\ <<Head(ready)>> \in Seq(Decisions) /\ <<Head(ready)>> # <<>>
        /\ Elements(<<Head(ready)>>) = {Head(ready)}
    BY <2>1, OneElement
  <2>3. Elements(tickets') = Elements(tickets) \cup {Head(ready)}
    <3>1. tickets' = tickets \o <<Head(ready)>>
      BY <1>5, <1>10
    <3>2. tickets \o <<Head(ready)>> = Append(tickets, Head(ready))
      BY <2>1, ConcatOne
    <3>3. Elements(Append(tickets, Head(ready))) = Elements(tickets) \cup {Head(ready)}
      BY <2>1, AppendElements
    <3>4. QED
      BY <3>1, <3>2, <3>3
  <2>4. out.state = "TICKETED"
    BY <1>4, <1>10, <2>2 DEF Good
  <2>5. QED
    BY <1>1, <1>2, <1>7, <1>8, <2>3, <2>4
<1>11. QED
  BY <1>2, <1>4, <1>9, <1>10 DEF Good

LEMMA CreateIs ==
  ASSUME TypeOK, CreateTicket
  PROVE  \E c \in Cases, r \in Revisions :
         /\ Head(tickets) = <<c, r>> /\ r # 0
         /\ Elements(tickets) = {<<c, r>>} \cup Elements(tickets')
         /\ simulated' = [simulated EXCEPT ![c] = r]
         /\ issued' = [issued EXCEPT ![c] = Receipt(c)]
         /\ row'[c].state = "TICKETED" /\ row'[c].ticket = Receipt(c)
         /\ \A d \in Cases : d # c => row'[d] = row[d]
         /\ tickets # <<>> /\ tickets' = Tail(tickets)
         /\ UNCHANGED <<revision, ready, job, bank, denied, messages, ledger,
                        sends, faults>>
<1> DEFINE c == Head(tickets)[1]
           r == Head(tickets)[2]
<1>1. /\ simulated' = [simulated EXCEPT ![c] = r]
      /\ issued' = [issued EXCEPT ![c] = Receipt(c)]
      /\ row' = Ticketed(c, Receipt(c))
      /\ tickets # <<>> /\ tickets' = Tail(tickets)
      /\ UNCHANGED <<revision, ready, job, bank, denied, messages, ledger,
                     sends, faults>>
  BY DEF CreateTicket, caseVars, workerVars, messageVars
<1>2. /\ c \in Cases /\ r \in Revisions /\ Head(tickets) = <<c, r>> /\ r # 0
      /\ Elements(tickets) = {<<c, r>>} \cup Elements(tickets')
      /\ Receipt(c) \in Nat
  BY <1>1, TicketHead
<1> HIDE DEF c, r
<1>3. /\ row'[c].state = "TICKETED" /\ row'[c].ticket = Receipt(c)
      /\ \A d \in Cases : d # c => row'[d] = row[d]
  <2>1. row \in [Cases -> RowSet]
    BY DEF TypeOK, RowSet
  <2>2. QED
    BY <1>1, <1>2, <2>1, RowTicketed
<1>4. QED
  BY <1>1, <1>2, <1>3

LEMMA DenyIs ==
  ASSUME TypeOK, DenyTicket
  PROVE  \E c \in Cases, r \in Revisions :
         /\ Head(tickets) = <<c, r>>
         /\ Elements(tickets) = {<<c, r>>} \cup Elements(tickets')
         /\ row'[c].state = "BLOCKED" /\ row'[c].ticket = row[c].ticket
         /\ \A d \in Cases : d # c => row'[d] = row[d]
         /\ denied' = denied \cup {<<c, r>>}
         /\ tickets # <<>> /\ tickets' = Tail(tickets)
         /\ faults \in Nat /\ faults' = faults + 1
         /\ UNCHANGED <<revision, ready, job, bank, simulated, issued, messages,
                        ledger, sends>>
<1> DEFINE c == Head(tickets)[1]
           r == Head(tickets)[2]
<1>1. /\ row' = Marked(c, "BLOCKED")
      /\ denied' = denied \cup {Head(tickets)} /\ Fault
      /\ tickets # <<>> /\ tickets' = Tail(tickets)
      /\ UNCHANGED <<revision, ready, job, bank, simulated, issued, messages,
                     ledger, sends>>
  BY DEF DenyTicket, caseVars, workerVars, messageVars
<1>2. /\ c \in Cases /\ r \in Revisions /\ Head(tickets) = <<c, r>>
      /\ Elements(tickets) = {<<c, r>>} \cup Elements(tickets')
  BY <1>1, TicketHead
<1> HIDE DEF c, r
<1>3. /\ row'[c].state = "BLOCKED" /\ row'[c].ticket = row[c].ticket
      /\ \A d \in Cases : d # c => row'[d] = row[d]
  <2>1. row \in [Cases -> RowSet] /\ "BLOCKED" \in RowStates
    BY DEF TypeOK, RowSet, RowStates
  <2>2. QED
    BY <1>1, <1>2, <2>1, RowMarked
<1>4. QED
  BY <1>1, <1>2, <1>3, FaultTyped

LEMMA GatewayDiesIs ==
  ASSUME TypeOK, GatewayDiesAfterTicket
  PROVE  \E c \in Cases, r \in Revisions :
         /\ <<c, r>> \in Elements(tickets)
         /\ issued' = [issued EXCEPT ![c] = Receipt(c)]
         /\ job' = NoJob /\ simulated' = [d \in Cases |-> 0]
         /\ faults \in Nat /\ faults' = faults + 1
         /\ UNCHANGED <<revision, ready, row, tickets, bank, denied, messages,
                        ledger, sends>>
<1>1. /\ tickets # <<>> /\ Fault /\ GoDown
      /\ issued' = [issued EXCEPT ![Head(tickets)[1]] = Receipt(Head(tickets)[1])]
      /\ UNCHANGED <<revision, ready, row, tickets, bank, denied, messages,
                     ledger, sends>>
  BY DEF GatewayDiesAfterTicket, caseVars, messageVars
<1>2. /\ Head(tickets)[1] \in Cases /\ Head(tickets)[2] \in Revisions
      /\ <<Head(tickets)[1], Head(tickets)[2]>> \in Elements(tickets)
  BY <1>1, TicketHead
<1>3. QED
  BY <1>1, <1>2, FaultTyped DEF GoDown

LEMMA OrderKept ==
  ASSUME TypeOK, Order, [Next]_vars
  PROVE  Order'
<1>1. /\ Distinct(ready) /\ ready \in Seq(Decisions)
      /\ job # NoJob => ready # <<>> /\ Head(ready) = <<job.case, job.revision>>
      /\ \A d \in Elements(ready) \cup Elements(tickets) :
           d \in Decisions /\ d[1] \in Cases /\ d[2] \in Nat
           /\ d[2] <= revision[d[1]] /\ d = <<d[1], d[2]>>
      /\ Elements(ready) \cap Elements(tickets) = {}
      /\ \A c \in Cases :
           <<c, revision[c]>> \in Elements(ready) \cup Elements(tickets)
             => row[c].state \notin Closed
      /\ revision \in [Cases -> Nat]
  <2>1. ready \in Seq(Decisions) /\ tickets \in Seq(Decisions)
    BY DEF TypeOK
  <2>2. \A d \in Elements(ready) \cup Elements(tickets) : d \in Decisions
    BY <2>1, ElementsTyped
  <2>3. QED
    BY <2>1, <2>2, RevisionsTyped DEF Order, TypeOK
<1>2. ASSUME NEW c \in Cases, Assemble(c)
      PROVE  Order'
  <2> DEFINE e == <<c, revision[c] + 1>>
  <2>1. /\ revision'[c] = revision[c] + 1 /\ revision[c] \in Nat
        /\ \A d \in Cases : d # c => revision'[d] = revision[d]
        /\ e \in Decisions /\ ready' = Append(ready, e)
        /\ row'[c].state = "READY"
        /\ \A d \in Cases : d # c => row'[d] = row[d]
        /\ job' = job /\ tickets' = tickets
    BY <1>2, AssembleIs
  <2>2. e[1] = c /\ e[2] = revision[c] + 1
    OBVIOUS
  <2> HIDE DEF e
  <2>3. e \notin Elements(ready) \cup Elements(tickets)
    BY <1>1, <2>1, <2>2
  <2>4. /\ Distinct(ready') /\ ready' # <<>>
        /\ ready # <<>> => Head(ready') = Head(ready)
        /\ Elements(ready') = Elements(ready) \cup {e}
    BY <1>1, <2>1, <2>3, DistinctAppend, AppendElements
  <2>5. job' # NoJob => ready' # <<>> /\ Head(ready') = <<job'.case, job'.revision>>
    BY <1>1, <2>1, <2>4
  <2>6. \A d \in Elements(ready') \cup Elements(tickets') : d[2] <= revision'[d[1]]
    <3>1. e[2] <= revision'[e[1]]
      BY <2>1, <2>2
    <3>2. ASSUME NEW d \in Elements(ready) \cup Elements(tickets)
          PROVE  d[2] <= revision'[d[1]]
      <4>1. CASE d[1] = c
        BY <1>1, <2>1, <4>1
      <4>2. CASE d[1] # c
        BY <1>1, <2>1, <4>2
      <4>3. QED
        BY <4>1, <4>2
    <3>3. QED
      BY <2>1, <2>4, <3>1, <3>2
  <2>7. Elements(ready') \cap Elements(tickets') = {}
    BY <1>1, <2>1, <2>3, <2>4
  <2>8. ASSUME NEW d \in Cases,
               <<d, revision'[d]>> \in Elements(ready') \cup Elements(tickets')
        PROVE  row'[d].state \notin Closed
    <3>1. CASE d = c
      BY <2>1, <3>1 DEF Closed
    <3>2. CASE d # c
      <4>1. <<d, revision[d]>> # e
        BY <3>2 DEF e
      <4>2. <<d, revision[d]>> \in Elements(ready) \cup Elements(tickets)
        BY <2>1, <2>4, <2>8, <3>2, <4>1
      <4>3. QED
        BY <1>1, <2>1, <3>2, <4>2
    <3>3. QED
      BY <3>1, <3>2
  <2>9. QED
    BY <2>4, <2>5, <2>6, <2>7, <2>8 DEF Order
<1>3. CASE SkipStale
  <2>1. /\ ready # <<>> /\ ready' = Tail(ready) /\ job = NoJob
        /\ UNCHANGED <<revision, row, tickets, job>>
    BY <1>3 DEF SkipStale, workerVars, ticketVars
  <2>2. Distinct(ready') /\ Elements(ready') \subseteq Elements(ready)
    BY <1>1, <2>1, DistinctTail, HeadAndTail
  <2>3. QED
    BY <1>1, <2>1, <2>2 DEF Order
<1>4. CASE LoadSnapshot
  <2>1. /\ ready # <<>> /\ UNCHANGED <<revision, ready, row, tickets>>
    BY <1>4 DEF LoadSnapshot, caseVars, ticketVars
  <2>2. Head(ready') = <<job'.case, job'.revision>>
    <3>1. /\ Head(ready) \in Decisions
          /\ job'.case = Head(ready)[1] /\ job'.revision = Head(ready)[2]
      BY <1>4, LoadTyped
    <3>2. QED
      BY <2>1, <3>1, RevisionsTyped
  <2>3. QED
    BY <1>1, <2>1, <2>2 DEF Order
<1>5. CASE CommitResult
  <2>1. /\ job \in Jobs /\ ready # <<>> /\ Head(ready) = <<job.case, job.revision>>
        /\ ready' = Tail(ready) /\ job' = NoJob /\ revision' = revision
        /\ \A c \in Cases : row'[c] # row[c] =>
             c = job.case /\ job.revision = revision[c]
        /\ \/ Elements(tickets') = Elements(tickets)
           \/ /\ Elements(tickets') = Elements(tickets) \cup {Head(ready)}
              /\ job.revision = revision[job.case] =>
                   row'[job.case].state = "TICKETED"
    BY <1>5, CommitChanges
  <2>2. /\ Distinct(ready') /\ Head(ready) \notin Elements(ready')
        /\ Elements(ready) = {Head(ready)} \cup Elements(ready')
    BY <1>1, <2>1, DistinctTail, HeadAndTail
  <2>3. \A d \in Elements(ready') \cup Elements(tickets') : d[2] <= revision'[d[1]]
    BY <1>1, <2>1, <2>2
  <2>4. Elements(ready') \cap Elements(tickets') = {}
    BY <1>1, <2>1, <2>2
  <2>5. ASSUME NEW c \in Cases,
               <<c, revision'[c]>> \in Elements(ready') \cup Elements(tickets')
        PROVE  row'[c].state \notin Closed
    <3>1. CASE <<c, revision[c]>> = Head(ready)
      <4>1. c = job.case /\ job.revision = revision[job.case]
        BY <2>1, <3>1
      <4>2. row'[c].state = "TICKETED"
        BY <1>1, <2>1, <2>2, <2>5, <3>1, <4>1
      <4>3. QED
        BY <4>2 DEF Closed
    <3>2. CASE <<c, revision[c]>> # Head(ready)
      <4>1. row'[c] = row[c]
        BY <2>1, <3>2
      <4>2. <<c, revision[c]>> \in Elements(ready) \cup Elements(tickets)
        BY <2>1, <2>2, <2>5, <3>2
      <4>3. QED
        BY <1>1, <4>1, <4>2
    <3>3. QED
      BY <3>1, <3>2
  <2>6. QED
    BY <2>1, <2>2, <2>3, <2>4, <2>5 DEF Order
<1>6. CASE CreateTicket \/ DenyTicket
  <2>1. PICK c \in Cases :
          /\ Elements(tickets') \subseteq Elements(tickets)
          /\ row'[c].state \in {"TICKETED", "BLOCKED"}
          /\ \A d \in Cases : d # c => row'[d] = row[d]
          /\ UNCHANGED <<revision, ready, job>>
    BY <1>6, CreateIs, DenyIs
  <2>2. \A d \in Cases : row'[d].state \in Closed => row'[d] = row[d]
    BY <2>1 DEF Closed
  <2>3. QED
    BY <1>1, <2>1, <2>2 DEF Order
<1>7. CASE GatewayDiesAfterTicket
  BY <1>1, <1>7, GatewayDiesIs DEF Order
<1>8. CASE Quiet
  BY <1>1, <1>8 DEF Order, Quiet
<1>9. QED
  BY <1>2, <1>3, <1>4, <1>5, <1>6, <1>7, <1>8, QuietSteps
     DEF Next, CaseStep, TicketStep, MessageStep

-----------------------------------------------------------------------------
(* Tickets and rows *)

(* What the running simulator holds under a create key is on the row of its *)
(* case, and so is the last ticket made unless a command that sets it is    *)
(* pending or was denied.                                                   *)
Accounts ==
  \A c \in Cases :
    /\ ~Ordered(c) /\ ~Denied(c) => row[c].ticket = issued[c]
    /\ simulated[c] # 0 => row[c].ticket = issued[c] /\ issued[c] > 0

LEMMA ReceiptIs ==
  ASSUME TypeOK, Accounts, NEW c \in Cases
  PROVE  /\ issued[c] \in Nat /\ Receipt(c) \in Nat
         /\ Receipt(c) > 0 /\ Receipt(c) >= issued[c]
BY DEF TypeOK, Accounts, Receipt

LEMMA AccountsKept ==
  ASSUME TypeOK, Order, Accounts, [Next]_vars
  PROVE  Accounts'
<1>1. /\ issued \in [Cases -> Nat] /\ simulated \in [Cases -> {0} \cup Revisions]
  BY DEF TypeOK
<1>2. ASSUME NEW c \in Cases, Assemble(c)
      PROVE  Accounts'
  <2>1. /\ \A d \in Cases : row'[d].ticket = row[d].ticket
        /\ UNCHANGED <<tickets, simulated, issued, denied>>
    BY <1>2, AssembleIs
  <2>2. QED
    BY <2>1 DEF Accounts, Ordered, Denied
<1>3. CASE SkipStale \/ LoadSnapshot
  <2>1. UNCHANGED <<row, tickets, simulated, issued, denied>>
    BY <1>3 DEF SkipStale, LoadSnapshot, ticketVars
  <2>2. QED
    BY <2>1 DEF Accounts, Ordered, Denied
<1>4. CASE CommitResult
  <2>1. /\ \A d \in Cases : row'[d].ticket = row[d].ticket
        /\ UNCHANGED <<simulated, issued, denied>>
        /\ Elements(tickets) \subseteq Elements(tickets')
    BY <1>4, CommitChanges
  <2>2. QED
    BY <2>1 DEF Accounts, Ordered, Denied
<1>5. CASE CreateTicket
  <2>1. PICK c \in Cases, r \in Revisions :
          /\ r # 0 /\ Elements(tickets) = {<<c, r>>} \cup Elements(tickets')
          /\ simulated' = [simulated EXCEPT ![c] = r]
          /\ issued' = [issued EXCEPT ![c] = Receipt(c)]
          /\ row'[c].ticket = Receipt(c)
          /\ \A d \in Cases : d # c => row'[d] = row[d]
          /\ UNCHANGED denied
    BY <1>5, CreateIs
  <2>2. row'[c].ticket = issued'[c] /\ issued'[c] > 0
    BY <1>1, <2>1, ReceiptIs
  <2>3. ASSUME NEW d \in Cases, d # c
        PROVE  /\ Ordered(d) <=> Ordered(d)'
               /\ simulated'[d] = simulated[d] /\ issued'[d] = issued[d]
               /\ row'[d] = row[d]
    <3>1. \A q \in Revisions : <<d, q>> # <<c, r>>
      BY <2>3
    <3>2. QED
      BY <1>1, <2>1, <2>3, <3>1 DEF Ordered
  <2>4. \A d \in Cases : Denied(d)' <=> Denied(d)
    BY <2>1 DEF Denied
  <2>5. QED
    BY <2>2, <2>3, <2>4 DEF Accounts
<1>6. CASE DenyTicket
  <2>1. PICK c \in Cases, r \in Revisions :
          /\ Elements(tickets) = {<<c, r>>} \cup Elements(tickets')
          /\ \A d \in Cases : row'[d].ticket = row[d].ticket
          /\ denied' = denied \cup {<<c, r>>}
          /\ UNCHANGED <<simulated, issued>>
    BY <1>6, DenyIs
  <2>2. Denied(c)'
    BY <2>1 DEF Denied
  <2>3. ASSUME NEW d \in Cases, d # c
        PROVE  (Ordered(d) <=> Ordered(d)') /\ (Denied(d) => Denied(d)')
    <3>1. \A q \in Revisions : <<d, q>> # <<c, r>>
      BY <2>3
    <3>2. QED
      BY <2>1, <3>1 DEF Ordered, Denied
  <2>4. QED
    BY <2>1, <2>2, <2>3 DEF Accounts
<1>7. CASE GatewayDiesAfterTicket
  <2>1. PICK c \in Cases, r \in Revisions :
          /\ <<c, r>> \in Elements(tickets)
          /\ issued' = [issued EXCEPT ![c] = Receipt(c)]
          /\ simulated' = [d \in Cases |-> 0]
          /\ UNCHANGED <<row, tickets, denied>>
    BY <1>7, GatewayDiesIs
  <2>2. Ordered(c)'
    BY <2>1 DEF Ordered
  <2>3. \A d \in Cases : d # c => issued'[d] = issued[d]
    BY <1>1, <2>1
  <2>4. QED
    BY <2>1, <2>2, <2>3 DEF Accounts, Ordered, Denied
<1>8. CASE Quiet
  BY <1>8 DEF Accounts, Ordered, Denied, Quiet
<1>9. QED
  BY <1>2, <1>3, <1>4, <1>5, <1>6, <1>7, <1>8, QuietSteps
     DEF Next, CaseStep, TicketStep, MessageStep

-----------------------------------------------------------------------------
(* Promises *)

(* Nothing takes back the backing of a case: an order ends in a ticket or a *)
(* denial.                                                                  *)
LEMMA StaysBacked ==
  ASSUME TypeOK, Order, Accounts, [Next]_vars, NEW c \in Cases, Backed(c)
  PROVE  Backed(c)'
<1>1. issued \in [Cases -> Nat]
  BY DEF TypeOK
<1>2. CASE UNCHANGED <<issued, denied>> /\ Elements(tickets) \subseteq Elements(tickets')
  BY <1>2 DEF Backed, Ordered, Denied
<1>3. CASE CreateTicket
  <2>1. PICK d \in Cases, r \in Revisions :
          /\ Elements(tickets) = {<<d, r>>} \cup Elements(tickets')
          /\ issued' = [issued EXCEPT ![d] = Receipt(d)]
          /\ UNCHANGED denied
    BY <1>3, CreateIs
  <2>2. issued'[d] > 0
    BY <1>1, <2>1, ReceiptIs
  <2>3. CASE c = d
    BY <2>2, <2>3 DEF Backed
  <2>4. CASE c # d
    <3>1. \A q \in Revisions : <<c, q>> # <<d, r>>
      BY <2>4
    <3>2. QED
      BY <1>1, <2>1, <2>4, <3>1 DEF Backed, Ordered, Denied
  <2>5. QED
    BY <2>3, <2>4
<1>4. CASE DenyTicket
  <2>1. PICK d \in Cases, r \in Revisions :
          /\ Elements(tickets) = {<<d, r>>} \cup Elements(tickets')
          /\ denied' = denied \cup {<<d, r>>}
          /\ UNCHANGED issued
    BY <1>4, DenyIs
  <2>2. CASE c = d
    BY <2>1, <2>2 DEF Backed, Denied
  <2>3. CASE c # d
    <3>1. \A q \in Revisions : <<c, q>> # <<d, r>>
      BY <2>3
    <3>2. QED
      BY <2>1, <3>1 DEF Backed, Ordered, Denied
  <2>4. QED
    BY <2>2, <2>3
<1>5. CASE GatewayDiesAfterTicket
  <2>1. PICK d \in Cases :
          /\ issued' = [issued EXCEPT ![d] = Receipt(d)]
          /\ UNCHANGED <<tickets, denied>>
    BY <1>5, GatewayDiesIs
  <2>2. issued[c] > 0 => issued'[c] > 0
    BY <1>1, <2>1, ReceiptIs
  <2>3. QED
    BY <2>1, <2>2 DEF Backed, Ordered, Denied
<1>6. CASE \E d \in Cases : Assemble(d)
  BY <1>2, <1>6, AssembleIs
<1>7. CASE SkipStale \/ LoadSnapshot
  BY <1>2, <1>7 DEF SkipStale, LoadSnapshot, ticketVars
<1>8. CASE CommitResult
  BY <1>2, <1>8, CommitChanges
<1>9. CASE Quiet
  BY <1>2, <1>9 DEF Quiet
<1>10. QED
  BY <1>3, <1>4, <1>5, <1>6, <1>7, <1>8, <1>9, QuietSteps
     DEF Next, CaseStep, TicketStep, MessageStep

LEMMA FaultsGrow ==
  ASSUME TypeOK, [Next]_vars
  PROVE  faults \in Nat /\ faults' \in {faults, faults + 1}
<1>1. faults \in Nat
  BY CaseFlowAssumption DEF TypeOK
<1>2. faults' = faults \/ Fault
  BY DEF Next, vars, Assemble, CaseStep, SkipStale, LoadSnapshot,
     MarkAnalyzing, CommitResult,
     CaseWorkerFails, TicketStep, CreateTicket, TicketConflict, DenyTicket,
     GatewayDiesAfterTicket, MessageStep, ReplaySend, Send, SendConflict,
     SendTimesOut, SendFails, Restart
<1>3. QED
  BY <1>1, <1>2 DEF Fault

(* Receipts told are backed, links told are about entries of the bank, and  *)
(* no more entries are without backing than there were faults.              *)
Truthful(text) == text.about \in Cases /\ Backed(text.about)
Unbacked == {c \in Banked : ~Backed(c)}
Promises ==
  /\ \A text \in Texts : text.says = "receipt" /\ Told(text) => Truthful(text)
  /\ \A text \in Texts : text.says = "linked" /\ Told(text) => text.about \in Banked
  /\ IsFiniteSet(Unbacked) /\ Cardinality(Unbacked) <= faults

(* A text that is told after a step was told before it, or is in the        *)
(* message a commit adds.                                                   *)
LEMMA MessagesChange ==
  ASSUME TypeOK, Order, [Next]_vars, ~CommitResult, NEW text, Told(text)'
  PROVE  Told(text)
<1>1. /\ ledger \in [Keys -> {NoRow} \cup Rows]
  BY DEF TypeOK
<1>2. CASE UNCHANGED <<messages, ledger>>
  BY <1>2 DEF Told
<1>3. CASE ReplaySend \/ Send \/ SendTimesOut
  <2>1. messages # <<>> /\ messages' = Tail(messages)
    BY <1>3 DEF ReplaySend, Send, SendTimesOut, Unsent, Consumed
  <2>2. Elements(messages) = {Head(messages)} \cup Elements(messages')
    BY <2>1, MessageHead
  <2>3. CASE ledger' = ledger
    BY <2>2, <2>3 DEF Told
  <2>4. ASSUME NEW status \in {"SENT", "DELIVERY_UNKNOWN"}, Recorded(status)
        PROVE  Told(text)
    <3>1. LET k == Head(messages).key IN
          /\ ledger'[k].text = Head(messages).text
          /\ \A l \in Keys : l # k => ledger'[l] = ledger[l]
      BY <2>1, <2>4, RecordedIs
    <3>2. CASE \E m \in Elements(messages') : m.text = text
      BY <2>2, <3>2 DEF Told
    <3>3. ASSUME NEW l \in Keys, ledger'[l] # NoRow, ledger'[l].text = text
          PROVE  Told(text)
      BY <2>2, <3>1, <3>3 DEF Told
    <3>4. QED
      BY <3>2, <3>3 DEF Told
  <2>5. QED
    BY <1>3, <2>3, <2>4 DEF ReplaySend, Send, SendTimesOut
<1>4. CASE \/ SkipStale \/ LoadSnapshot \/ MarkAnalyzing
           \/ \E c \in Cases : Assemble(c)
  BY <1>2, <1>4 DEF SkipStale, LoadSnapshot, MarkAnalyzing, Assemble, messageVars
<1>5. CASE CaseWorkerFails \/ SendConflict \/ SendFails \/ Restart \/ UNCHANGED vars
  BY <1>2, <1>5 DEF CaseWorkerFails, SendConflict, SendFails, Restart, vars, messageVars
<1>6. CASE CreateTicket \/ DenyTicket \/ TicketConflict \/ GatewayDiesAfterTicket
  BY <1>2, <1>6 DEF CreateTicket, DenyTicket, TicketConflict,
                    GatewayDiesAfterTicket, messageVars
<1>7. QED
  BY <1>3, <1>4, <1>5, <1>6 DEF Next, CaseStep, TicketStep, MessageStep

(* Besides a commit only a job that dies changes the bank: its own entry,   *)
(* at the cost of a fault.                                                  *)
LEMMA BankChanges ==
  ASSUME TypeOK, Order, [Next]_vars, ~CommitResult
  PROVE  \/ bank' = bank
         \/ /\ faults' = faults + 1
            /\ \E d \in Cases :
                 /\ \A c \in Cases : c # d => bank'[c] = bank[c]
                 /\ Banked \subseteq Banked'
<1>1. faults \in Nat
  BY CaseFlowAssumption DEF TypeOK
<1>2. CASE CaseWorkerFails
  <2>1. PICK j \in Jobs : j = job
    BY <1>2 DEF TypeOK, CaseWorkerFails, Jobs
  <2>2. CASE bank' = bank
    BY <2>2
  <2>3. ASSUME NEW look \in Lookups(j), bank' = BankAfter(j, look), bank' # bank
        PROVE  /\ \A c \in Cases : c # j.case => bank'[c] = bank[c]
               /\ Banked \subseteq Banked'
    BY <2>3, BankTyped DEF Banked
  <2>4. faults' = faults + 1 /\ j.case \in Cases
    BY <1>1, <1>2, <2>1 DEF CaseWorkerFails, Fault, Jobs
  <2>5. QED
    BY <1>2, <2>1, <2>2, <2>3, <2>4 DEF CaseWorkerFails
<1>3. CASE \/ SkipStale \/ LoadSnapshot \/ MarkAnalyzing \/ Restart \/ UNCHANGED vars
           \/ \E c \in Cases : Assemble(c)
  BY <1>3 DEF SkipStale, LoadSnapshot, MarkAnalyzing, Restart, vars, Assemble,
              workerVars
<1>4. CASE \/ CreateTicket \/ TicketConflict \/ DenyTicket \/ GatewayDiesAfterTicket
           \/ ReplaySend \/ Send \/ SendConflict \/ SendTimesOut \/ SendFails
  BY <1>4 DEF CreateTicket, TicketConflict, DenyTicket, GatewayDiesAfterTicket,
              ReplaySend, Send, SendConflict, SendTimesOut, SendFails, Consumed,
              workerVars
<1>5. QED
  BY <1>2, <1>3, <1>4 DEF Next, CaseStep, TicketStep, MessageStep

LEMMA CommitTells ==
  ASSUME TypeOK, Order, CommitResult, NEW j \in Jobs, job = j
  PROVE  /\ \A c \in Cases : bank'[c] # bank[c] => c = j.case /\ Ordered(c)'
         /\ Banked \subseteq Banked'
         /\ \A text : Told(text)' =>
              \/ Told(text)
              \/ /\ text.says = "linked" => text.about \in Banked
                 /\ text.says = "receipt" => text.about = j.case /\ Ordered(j.case)'
<1>1. j \in Jobs /\ Head(ready) = <<j.case, j.revision>>
  BY CommitChanges
<1>2. PICK look \in Lookups(j) : Commits(look)
  BY CommitIs
<1> DEFINE out == Outcome(j, look)
<1>3. Good(j, out)
  BY <1>1, OutcomeTyped
<1>4. /\ tickets' = tickets \o out.tickets
      /\ messages' = messages \o out.message
      /\ bank' \in {bank, BankAfter(j, look)}
  BY <1>2 DEF Commits
<1>5. /\ \A c \in Cases : bank'[c] # bank[c] => c = j.case /\ out.tickets # <<>>
      /\ Banked \subseteq Banked'
  BY <1>1, <1>4, BankTyped DEF Banked
<1> HIDE DEF out
<1>6. out.tickets # <<>> => Ordered(j.case)'
  <2> SUFFICES ASSUME out.tickets # <<>> PROVE Ordered(j.case)'
    OBVIOUS
  <2> DEFINE e == <<j.case, j.revision>>
  <2>1. tickets' = tickets \o <<e>>
    BY <1>3, <1>4 DEF Good
  <2>2. e \in Decisions /\ tickets \in Seq(Decisions)
    BY <1>1, CommitChanges, HeadAndTail, TicketsTyped
  <2> HIDE DEF e
  <2>4. tickets' = Append(tickets, e)
    BY <2>1, <2>2, ConcatOne
  <2>5. e \in Elements(tickets')
    BY <2>2, <2>4, AppendElements
  <2>6. j.revision \in Revisions
    BY <1>1 DEF Jobs
  <2>7. <<j.case, j.revision>> \in Elements(tickets')
    BY <2>5 DEF e
  <2>8. QED
    BY <2>6, <2>7 DEF Ordered
<1>7. ASSUME NEW text, Told(text)'
      PROVE  \/ Told(text)
             \/ /\ text.says = "linked" => text.about \in Banked
                /\ text.says = "receipt" => text.about = j.case /\ out.tickets # <<>>
  <2>1. ledger' = ledger
    BY CommitIs
  <2>2. messages \in Seq(Messages)
    BY DEF TypeOK, Messages
  <2>3. CASE out.message = <<>>
    <3>1. messages' = messages
      BY <1>4, <2>2, <2>3
    <3>2. QED
      BY <1>7, <2>1, <3>1 DEF Told
  <2>4. ASSUME NEW m, out.message = <<m>>, Proper(m, j.case),
               m.text.says = "receipt" => out.tickets # <<>>
        PROVE  \/ Told(text)
               \/ /\ text.says = "linked" => text.about \in Banked
                  /\ text.says = "receipt" => text.about = j.case /\ out.tickets # <<>>
    <3>1. m \in Messages
      BY <2>4 DEF Proper
    <3>2. messages \o <<m>> = Append(messages, m)
      BY <2>2, <3>1, ConcatOne
    <3>3. messages' = Append(messages, m)
      BY <1>4, <2>4, <3>2
    <3>4. Elements(messages') = Elements(messages) \cup {m}
      BY <2>2, <3>1, <3>3, AppendElements
    <3>5. CASE m.text = text
      BY <2>4, <3>5 DEF Proper
    <3>6. CASE m.text # text
      BY <1>7, <2>1, <3>4, <3>6 DEF Told
    <3>7. QED
      BY <3>5, <3>6
  <2>5. QED
    BY <1>3, <2>3, <2>4 DEF Good
<1>8. QED
  BY <1>5, <1>6, <1>7

(* Entries without backing stay as few as the faults: a step that leaves    *)
(* none but the old ones, or one more at the cost of a fault.               *)
LEMMA UnbackedStayFew ==
  ASSUME IsFiniteSet(Unbacked), Cardinality(Unbacked) <= faults,
         faults \in Nat, faults' \in {faults, faults + 1},
         \/ Unbacked' \subseteq Unbacked
         \/ /\ faults' = faults + 1
            /\ \E d \in Cases : Unbacked' \subseteq Unbacked \cup {d}
  PROVE  IsFiniteSet(Unbacked') /\ Cardinality(Unbacked') <= faults'
<1> DEFINE before == Unbacked
           after == Unbacked'
<1>1. IsFiniteSet(before) /\ Cardinality(before) <= faults
  OBVIOUS
<1>2. \/ after \subseteq before
      \/ faults' = faults + 1 /\ \E d \in Cases : after \subseteq before \cup {d}
  OBVIOUS
<1> HIDE DEF before, after
<1>3. Cardinality(before) \in Nat
  BY <1>1, FS_CardinalityType
<1>4. CASE after \subseteq before
  <2>1. /\ IsFiniteSet(after) /\ Cardinality(after) <= Cardinality(before)
    BY <1>1, <1>4, FS_Subset
  <2>2. Cardinality(after) \in Nat
    BY <2>1, FS_CardinalityType
  <2>3. Cardinality(after) <= faults'
    BY <1>1, <1>3, <2>1, <2>2
  <2>4. QED
    BY <2>1, <2>3 DEF after
<1>5. ASSUME NEW d \in Cases, after \subseteq before \cup {d}, faults' = faults + 1
      PROVE  IsFiniteSet(Unbacked') /\ Cardinality(Unbacked') <= faults'
  <2> DEFINE more == before \cup {d}
  <2>1. /\ IsFiniteSet(more)
        /\ Cardinality(more) =
             IF d \in before THEN Cardinality(before) ELSE Cardinality(before) + 1
    BY <1>1, FS_AddElement
  <2>2. after \subseteq more
    BY <1>5
  <2> HIDE DEF more
  <2>3. /\ IsFiniteSet(after) /\ Cardinality(after) <= Cardinality(more)
    BY <2>1, <2>2, FS_Subset
  <2>4. Cardinality(after) \in Nat
    BY <2>3, FS_CardinalityType
  <2>5. Cardinality(after) <= faults'
    BY <1>1, <1>3, <1>5, <2>1, <2>3, <2>4
  <2>6. QED
    BY <2>3, <2>5 DEF after
<1>6. QED
  BY <1>2, <1>4, <1>5

LEMMA PromisesKept ==
  ASSUME TypeOK, Order, Accounts, Promises, [Next]_vars
  PROVE  Promises'
<1>1. \A c \in Cases : Backed(c) => Backed(c)'
  BY StaysBacked
<1>2. \A text : Truthful(text) => Truthful(text)'
  BY <1>1 DEF Truthful
<1>3. faults \in Nat /\ faults' \in {faults, faults + 1}
  BY FaultsGrow
<1>4. CASE ~CommitResult
  <2>1. \A text : Told(text)' => Told(text)
    BY <1>4, MessagesChange
  <2>2. /\ Banked \subseteq Banked'
        /\ \/ Unbacked' \subseteq Unbacked
           \/ /\ faults' = faults + 1
              /\ \E d \in Cases : Unbacked' \subseteq Unbacked \cup {d}
    <3>1. CASE bank' = bank
      BY <1>1, <3>1 DEF Banked, Unbacked
    <3>2. ASSUME NEW d \in Cases, \A c \in Cases : c # d => bank'[c] = bank[c]
          PROVE  Unbacked' \subseteq Unbacked \cup {d}
      BY <1>1, <3>2 DEF Banked, Unbacked
    <3>3. QED
      BY <1>4, <3>1, <3>2, BankChanges
  <2>3. QED
    BY <1>2, <1>3, <2>1, <2>2, UnbackedStayFew DEF Promises
<1>5. CASE CommitResult
  <2>1. PICK j \in Jobs : j = job
    BY <1>5, CommitChanges
  <2>2. /\ \A c \in Cases : bank'[c] # bank[c] => c = j.case /\ Ordered(c)'
        /\ Banked \subseteq Banked'
        /\ \A text : Told(text)' =>
             \/ Told(text)
             \/ /\ text.says = "linked" => text.about \in Banked
                /\ text.says = "receipt" => text.about = j.case /\ Ordered(j.case)'
    BY <1>5, <2>1, CommitTells
  <2>3. j.case \in Cases
    BY <2>1 DEF Jobs
  <2>4. \A c \in Cases : Ordered(c)' => Backed(c)'
    BY DEF Backed
  <2>5. ASSUME NEW text \in Texts, text.says = "receipt", Told(text)'
        PROVE  Truthful(text)'
    <3>1. CASE Told(text)
      BY <1>2, <2>5, <3>1 DEF Promises
    <3>2. CASE text.about = j.case /\ Ordered(j.case)'
      <4>1. Backed(j.case)'
        BY <2>3, <2>4, <3>2
      <4>2. QED
        BY <2>3, <3>2, <4>1 DEF Truthful
    <3>3. QED
      BY <2>2, <2>5, <3>1, <3>2
  <2>6. ASSUME NEW text \in Texts, text.says = "linked", Told(text)'
        PROVE  text.about \in Banked'
    BY <2>2, <2>6 DEF Promises
  <2>7. Unbacked' \subseteq Unbacked
    BY <1>1, <2>2, <2>4 DEF Banked, Unbacked
  <2>8. QED
    BY <1>3, <2>5, <2>6, <2>7, UnbackedStayFew DEF Promises
<1>6. QED
  BY <1>4, <1>5

-----------------------------------------------------------------------------
(* Sends *)

(* A step sends and records only under a key that has no row, and sends     *)
(* without recording only at the cost of a fault.                           *)
LEMMA SendChanges ==
  ASSUME TypeOK, [Next]_vars
  PROVE  /\ faults \in Nat /\ faults' \in Nat /\ faults' >= faults
         /\ \A k \in Keys :
              \/ ledger'[k] = ledger[k] /\ sends'[k] = sends[k]
              \/ /\ ledger[k] = NoRow /\ sends'[k] <= sends[k] + 1
                 /\ ledger'[k] # NoRow \/ faults' = faults + 1
<1>1. faults \in Nat /\ MaxFaults \in Nat /\ sends \in [Keys -> Nat]
  BY CaseFlowAssumption DEF TypeOK
<1>2. ASSUME UNCHANGED <<ledger, sends>>, faults' = faults \/ Fault
      PROVE  /\ faults' \in Nat /\ faults' >= faults
             /\ \A k \in Keys : ledger'[k] = ledger[k] /\ sends'[k] = sends[k]
  BY <1>1, <1>2 DEF Fault
<1>3. ASSUME messages # <<>>, Unsent, Reached \/ UNCHANGED sends,
             faults' = faults \/ Fault,
             \/ Recorded("SENT") \/ Recorded("DELIVERY_UNKNOWN")
             \/ ledger' = ledger /\ Fault
      PROVE  /\ faults' \in Nat /\ faults' >= faults
             /\ \A k \in Keys :
                  \/ ledger'[k] = ledger[k] /\ sends'[k] = sends[k]
                  \/ /\ ledger[k] = NoRow /\ sends'[k] <= sends[k] + 1
                     /\ ledger'[k] # NoRow \/ faults' = faults + 1
  <2> DEFINE h == Head(messages).key
  <2>1. ledger[h] = NoRow
    BY <1>3 DEF Unsent
  <2>2. sends'[h] <= sends[h] + 1 /\ \A k \in Keys : k # h => sends'[k] = sends[k]
    BY <1>3, ReachedIs
  <2>3. \/ ledger'[h] # NoRow /\ \A k \in Keys : k # h => ledger'[k] = ledger[k]
        \/ ledger' = ledger /\ Fault
    BY <1>3, RecordedIs
  <2>4. faults' \in Nat /\ faults' >= faults /\ (Fault => faults' = faults + 1)
    BY <1>1, <1>3 DEF Fault
  <2> HIDE DEF h
  <2>5. QED
    BY <2>1, <2>2, <2>3, <2>4
<1>4. CASE SkipStale \/ LoadSnapshot \/ MarkAnalyzing \/ CommitResult \/ Restart
           \/ UNCHANGED vars \/ CreateTicket \/ TicketConflict
           \/ \E c \in Cases : Assemble(c)
  <2>1. UNCHANGED <<ledger, sends, faults>>
    BY <1>4, CommitIs DEF SkipStale, LoadSnapshot, MarkAnalyzing, Restart, vars, CreateTicket,
       TicketConflict, Assemble, messageVars
  <2>2. QED
    BY <1>1, <1>2, <2>1
<1>5. CASE ReplaySend \/ SendConflict \/ CaseWorkerFails \/ DenyTicket
           \/ GatewayDiesAfterTicket
  <2>1. UNCHANGED <<ledger, sends>> /\ (faults' = faults \/ Fault)
    BY <1>5 DEF ReplaySend, SendConflict, CaseWorkerFails, DenyTicket,
       GatewayDiesAfterTicket, messageVars
  <2>2. QED
    BY <1>1, <1>2, <2>1
<1>6. CASE Send \/ SendTimesOut \/ SendFails
  <2>1. /\ messages # <<>> /\ Unsent /\ (Reached \/ UNCHANGED sends)
        /\ faults' = faults \/ Fault
        /\ \/ Recorded("SENT") \/ Recorded("DELIVERY_UNKNOWN")
           \/ ledger' = ledger /\ Fault
    BY <1>6 DEF Send, SendTimesOut, SendFails, Unsent
  <2>2. QED
    BY <1>1, <1>3, <2>1
<1>7. QED
  BY <1>1, <1>4, <1>5, <1>6 DEF Next, CaseStep, TicketStep, MessageStep

LEMMA SendsKept ==
  ASSUME TypeOK, Order, SendsAreLedgered, [Next]_vars
  PROVE  SendsAreLedgered'
<1> SUFFICES ASSUME NEW k \in Keys
             PROVE  sends'[k] <= faults' + (IF ledger'[k] = NoRow THEN 0 ELSE 1)
  BY DEF SendsAreLedgered
<1>1. /\ sends[k] \in Nat /\ sends'[k] \in Nat
      /\ sends[k] <= faults + (IF ledger[k] = NoRow THEN 0 ELSE 1)
  BY TypeKept DEF TypeOK, SendsAreLedgered
<1>2. QED
  BY <1>1, SendChanges

-----------------------------------------------------------------------------
CaseInv == TypeOK /\ Order /\ Accounts /\ Promises /\ SendsAreLedgered

LEMMA Initially == Init => CaseInv
<1> SUFFICES ASSUME Init PROVE CaseInv
  OBVIOUS
<1>1. /\ TypeOK /\ ready = <<>> /\ tickets = <<>> /\ messages = <<>> /\ job = NoJob
      /\ \A c \in Cases : row[c].ticket = 0 /\ issued[c] = 0 /\ simulated[c] = 0
                          /\ bank[c] = NoEntry
      /\ \A k \in Keys : ledger[k] = NoRow /\ sends[k] = 0
      /\ faults = 0
  BY InitTyped DEF Init
<1>2. Order
  <2>1. Distinct(<<>>)
    BY DEF Distinct
  <2>2. QED
    BY <1>1, <2>1, EmptyHasNoElements DEF Order
<1>3. Accounts
  BY <1>1 DEF Accounts
<1>4. Promises
  <2>1. \A text : ~Told(text)
    BY <1>1, EmptyHasNoElements DEF Told
  <2>2. Unbacked = {}
    BY <1>1 DEF Unbacked, Banked
  <2>3. QED
    BY <1>1, <2>1, <2>2, FS_EmptySet DEF Promises
<1>5. SendsAreLedgered
  BY <1>1 DEF SendsAreLedgered
<1>6. QED
  BY <1>1, <1>2, <1>3, <1>4, <1>5 DEF CaseInv

(* The inductive invariant: types, the order of revisions on the topics,    *)
(* tickets and rows in step, promises backed, sends on record.              *)
THEOREM CaseFlowInvariant == Spec => []CaseInv
<1>1. Init => CaseInv
  BY Initially
<1>2. CaseInv /\ [Next]_vars => CaseInv'
  BY TypeKept, OrderKept, AccountsKept, PromisesKept, SendsKept DEF CaseInv
<1>3. QED
  BY <1>1, <1>2, PTL DEF Spec

(* The rows, topics and processes keep their shape. *)
THEOREM CaseFlowTypeCorrect == Spec => []TypeOK
<1>1. CaseInv => TypeOK
  BY DEF CaseInv
<1>2. QED
  BY <1>1, CaseFlowInvariant, PTL

(* Who is told of a ticket has one ordered, made or denied: the pipeline    *)
(* commits the reply and the ticket command together.                       *)
THEOREM ReceiptsAreBacked == Spec => []PromisesAreBacked
<1>1. CaseInv => PromisesAreBacked
  BY DEF CaseInv, Promises, Truthful, PromisesAreBacked
<1>2. QED
  BY <1>1, CaseFlowInvariant, PTL

(* Whatever fails, citizens are linked to no more cases without a ticket    *)
(* than there were faults: an entry comes with its case's ticket command or *)
(* from a job that died.                                                    *)
THEOREM LinksAreBacked == Spec => []LinksFollowCommits
<1>1. CaseInv => LinksFollowCommits
  <2> SUFFICES ASSUME CaseInv PROVE Cardinality(FalseLinks) <= faults
    BY DEF LinksFollowCommits
  <2>1. FalseLinks \subseteq Unbacked
    BY DEF CaseInv, Promises, FalseLinks, Unbacked
  <2>2. IsFiniteSet(Unbacked) /\ Cardinality(Unbacked) <= faults /\ faults \in Nat
    BY CaseFlowAssumption DEF CaseInv, Promises, TypeOK
  <2>3. Cardinality(FalseLinks) <= Cardinality(Unbacked) /\ IsFiniteSet(FalseLinks)
    BY <2>1, <2>2, FS_Subset
  <2>4. Cardinality(FalseLinks) \in Nat /\ Cardinality(Unbacked) \in Nat
    BY <2>2, <2>3, FS_CardinalityType
  <2>5. QED
    BY <2>2, <2>3, <2>4
<1>2. QED
  BY <1>1, CaseFlowInvariant, PTL

(* No ticket gets lost between the simulator and the cases table.           *)
THEOREM TicketsReachTheirCase == Spec => []TicketsAreRecorded
<1>1. CaseInv => TicketsAreRecorded
  BY DEF CaseInv, Accounts, TicketsAreRecorded
<1>2. QED
  BY <1>1, CaseFlowInvariant, PTL

(* Only faults send a message that the ledger does not account for.         *)
THEOREM SendsAreAccounted == Spec => []SendsAreLedgered
<1>1. CaseInv => SendsAreLedgered
  BY DEF CaseInv
<1>2. QED
  BY <1>1, CaseFlowInvariant, PTL

(* No blind resend: a key on record is not sent again, and stays on record. *)
THEOREM LedgerRowsStay == Spec => LedgerRowsAreFinal
<1> DEFINE Final == \A k \in Keys : ledger[k] # NoRow =>
                      ledger'[k] = ledger[k] /\ sends'[k] = sends[k]
<1>1. CaseInv /\ [Next]_vars => [Final]_vars
  BY SendChanges DEF CaseInv
<1> HIDE DEF Final
<1>2. Spec => [][Final]_vars
  BY <1>1, CaseFlowInvariant, PTL DEF Spec
<1>3. QED
  BY <1>2 DEF Final, LedgerRowsAreFinal

(* A result for a revision that was overtaken changes no case: the guard of *)
(* CaseReadyWorker's update.                                                *)
THEOREM StaleResultsChangeNothing == Spec => StaleResultsDiscarded
<1> DEFINE Discarded ==
      job # NoJob /\ job' = NoJob /\ job.revision # revision[job.case] => row' = row
<1>1. CaseInv /\ [Next]_vars => [Discarded]_vars
  <2> SUFFICES ASSUME CaseInv, Next, job # NoJob, job' = NoJob,
                      job.revision # revision[job.case]
               PROVE  row' = row
    OBVIOUS
  <2>1. CASE CommitResult
    BY <2>1, CommitIs DEF Commits
  <2>2. CASE Quiet
    BY <2>2 DEF Quiet
  <2>3. CASE GatewayDiesAfterTicket
    BY <2>3 DEF GatewayDiesAfterTicket
  <2>4. CASE SkipStale \/ LoadSnapshot
    BY <2>4 DEF SkipStale, LoadSnapshot
  <2>5. ~CreateTicket /\ ~DenyTicket /\ ~(\E c \in Cases : Assemble(c))
    BY DEF CreateTicket, DenyTicket, Assemble, workerVars
  <2>6. QED
    BY <2>1, <2>2, <2>3, <2>4, <2>5, QuietSteps
       DEF CaseInv, Next, CaseStep, TicketStep, MessageStep
<1> HIDE DEF Discarded
<1>2. Spec => [][Discarded]_vars
  BY <1>1, CaseFlowInvariant, PTL DEF Spec
<1>3. QED
  BY <1>2 DEF Discarded, StaleResultsDiscarded

(* What was decided about a revision is undone only by the next revision,   *)
(* or by the ticket of an older one.                                        *)
THEOREM DecisionsStand == Spec => DecisionsAreFinal
<1> DEFINE Stands == \A c \in Cases :
       /\ row[c].state \in {"REJECTED", "WAITING_CLARIFICATION"}
       /\ row'[c].state # row[c].state
       => \/ revision'[c] = revision[c] + 1
          \/ /\ tickets # <<>> /\ tickets' = Tail(tickets)
             /\ Head(tickets)[1] = c /\ Head(tickets)[2] < revision[c]
<1>1. CaseInv /\ [Next]_vars => [Stands]_vars
  <2> SUFFICES ASSUME CaseInv, Next, NEW c \in Cases, row[c].state \in Closed,
                      row'[c].state # row[c].state
               PROVE  \/ revision'[c] = revision[c] + 1
                      \/ /\ tickets # <<>> /\ tickets' = Tail(tickets)
                         /\ Head(tickets)[1] = c /\ Head(tickets)[2] < revision[c]
    BY DEF Closed
  <2>1. /\ TypeOK /\ Order
        /\ <<c, revision[c]>> \notin Elements(ready) \cup Elements(tickets)
        /\ revision[c] \in Nat
    BY DEF CaseInv, Order, TypeOK
  <2>2. CASE \E d \in Cases : Assemble(d)
    BY <2>1, <2>2, AssembleIs
  <2>3. CASE CommitResult
    <3>1. /\ ready # <<>> /\ ready \in Seq(Decisions)
          /\ Head(ready) = <<job.case, job.revision>>
          /\ row'[c] # row[c] => c = job.case /\ job.revision = revision[c]
      BY <2>1, <2>3, CommitChanges
    <3>2. Head(ready) \in Elements(ready)
      BY <3>1, HeadAndTail
    <3>3. QED
      BY <2>1, <3>1, <3>2
  <2>4. CASE CreateTicket \/ DenyTicket
    <3>1. PICK d \in Cases, r \in Revisions :
            /\ Head(tickets) = <<d, r>> /\ <<d, r>> \in Elements(tickets)
            /\ \A e \in Cases : e # d => row'[e] = row[e]
            /\ tickets # <<>> /\ tickets' = Tail(tickets)
      BY <2>1, <2>4, CreateIs, DenyIs
    <3>2. d = c
      BY <3>1
    <3>3. r <= revision[c] /\ r # revision[c] /\ r \in Nat
      <4>1. <<d, r>>[1] = d /\ <<d, r>>[2] = r
        OBVIOUS
      <4>2. r \in Nat
        BY RevisionsTyped
      <4>3. r <= revision[c]
        BY <2>1, <3>1, <3>2, <4>1 DEF Order
      <4>4. QED
        BY <2>1, <3>1, <3>2, <4>2, <4>3
    <3>4. QED
      BY <2>1, <3>1, <3>2, <3>3
  <2>5. CASE GatewayDiesAfterTicket \/ SkipStale \/ LoadSnapshot
    BY <2>5 DEF GatewayDiesAfterTicket, SkipStale, LoadSnapshot
  <2>6. CASE Quiet
    BY <2>6 DEF Quiet
  <2>7. QED
    BY <2>1, <2>2, <2>3, <2>4, <2>5, <2>6, QuietSteps
       DEF Next, CaseStep, TicketStep, MessageStep
<1> HIDE DEF Stands
<1>2. Spec => [][Stands]_vars
  BY <1>1, CaseFlowInvariant, PTL DEF Spec
<1>3. QED
  BY <1>2 DEF Stands, DecisionsAreFinal
-----------------------------------------------------------------------------
(* How many tickets a case can get *)

(* The revisions of case c whose event or ticket command is still to come *)
Waiting(c) == {r \in Revisions : <<c, r>> \in Elements(ready) \cup Elements(tickets)}

(* A case has no more tickets than revisions and faults: what the finding   *)
(* of OneTicketPerCase can amount to.  Without a fault, and with one        *)
(* revision, the case has one ticket.                                       *)
OneTicketPerRevision == \A c \in Cases : issued[c] <= revision[c] + faults

(* Each revision still waits or has had its ticket, and only a gateway that *)
(* dies leaves both the ticket and the command.                             *)
TicketsAreNumbered ==
  /\ Distinct(tickets)
  /\ \A c \in Cases : issued[c] + Cardinality(Waiting(c)) <= revision[c] + faults

LEMMA WaitingIsFinite ==
  ASSUME TypeOK, Order, NEW c \in Cases
  PROVE  /\ IsFiniteSet(Waiting(c)) /\ Cardinality(Waiting(c)) \in Nat
         /\ \A r \in Waiting(c) : r \in Nat /\ r <= revision[c]
<1>1. revision[c] \in Nat
  BY DEF TypeOK
<1>2. ASSUME NEW r \in Waiting(c) PROVE r \in 1 .. revision[c]
  <2>1. <<c, r>>[2] <= revision[<<c, r>>[1]]
    BY <1>2 DEF Waiting, Order
  <2>2. r \in Nat /\ r > 0
    BY <1>2, RevisionsTyped DEF Waiting
  <2>3. QED
    BY <1>1, <2>1, <2>2
<1>3. IsFiniteSet(1 .. revision[c])
  BY <1>1, FS_Interval
<1>4. IsFiniteSet(Waiting(c))
  BY <1>2, <1>3, FS_Subset
<1>5. QED
  BY <1>1, <1>2, <1>4, FS_CardinalityType

(* A commit leaves the commands alone or appends the one of its event. *)
LEMMA CommitOrders ==
  ASSUME TypeOK, Order, CommitResult
  PROVE  tickets' \in {tickets, Append(tickets, Head(ready))}
<1>1. PICK look \in Lookups(job) : Commits(look)
  BY CommitIs
<1>2. job \in Jobs /\ Head(ready) = <<job.case, job.revision>>
  BY CommitChanges
<1>3. Good(job, Outcome(job, look))
  BY <1>1, <1>2, OutcomeTyped
<1>4. tickets' = tickets \o Outcome(job, look).tickets
  BY <1>1 DEF Commits
<1>5. Outcome(job, look).tickets \in {<<>>, <<Head(ready)>>}
  BY <1>2, <1>3 DEF Good
<1>6. tickets \in Seq(Decisions)
  BY TicketsTyped
<1>7. tickets \o <<>> = tickets /\ tickets \o <<Head(ready)>> = Append(tickets, Head(ready))
  BY <1>6
<1>8. QED
  BY <1>4, <1>5, <1>7

(* Tickets stay numbered in a step after which no more revisions wait than  *)
(* before, and that made as many tickets as faults it had or revisions it   *)
(* was done with.                                                           *)
LEMMA FewerWait ==
  ASSUME TypeOK, TypeOK', Order, TicketsAreNumbered, Distinct(tickets'),
         NEW c \in Cases, revision'[c] = revision[c], Waiting(c)' \subseteq Waiting(c),
         \/ issued'[c] - issued[c] <= faults' - faults
         \/ Waiting(c)' # Waiting(c) /\ issued'[c] - issued[c] <= 1 + faults' - faults
  PROVE  issued'[c] + Cardinality(Waiting(c)') <= revision'[c] + faults'
<1> DEFINE before == Waiting(c)
           after == Waiting(c)'
<1>1. /\ IsFiniteSet(before) /\ Cardinality(before) \in Nat
      /\ after \subseteq before
  BY WaitingIsFinite
<1>2. /\ issued[c] \in Nat /\ issued'[c] \in Nat /\ revision[c] \in Nat
      /\ faults \in Nat /\ faults' \in Nat
  BY CaseFlowAssumption DEF TypeOK
<1>3. issued[c] + Cardinality(before) <= revision[c] + faults
  BY DEF TicketsAreNumbered
<1>6. \/ issued'[c] - issued[c] <= faults' - faults
      \/ after # before /\ issued'[c] - issued[c] <= 1 + faults' - faults
  OBVIOUS
<1> HIDE DEF before, after
<1>4. /\ Cardinality(after) <= Cardinality(before) /\ Cardinality(after) \in Nat
      /\ after # before => Cardinality(after) < Cardinality(before)
  BY <1>1, FS_Subset, FS_CardinalityType
<1>5. issued'[c] + Cardinality(after) <= revision'[c] + faults'
  BY <1>1, <1>2, <1>3, <1>4, <1>6
<1>7. QED
  BY <1>5 DEF after

LEMMA AssembleNumbers ==
  ASSUME TypeOK, Order, TicketsAreNumbered, NEW c \in Cases, Assemble(c)
  PROVE  TicketsAreNumbered'
<1>1. /\ revision'[c] = revision[c] + 1 /\ revision[c] \in Nat
      /\ \A d \in Cases : d # c => revision'[d] = revision[d]
      /\ <<c, revision[c] + 1>> \in Decisions
      /\ ready' = Append(ready, <<c, revision[c] + 1>>)
      /\ tickets' = tickets /\ issued' = issued /\ faults' = faults
  BY AssembleIs
<1>2. Elements(ready') = Elements(ready) \cup {<<c, revision[c] + 1>>}
  <2> DEFINE e == <<c, revision[c] + 1>>
  <2>1. ready \in Seq(Decisions) /\ e \in Decisions /\ ready' = Append(ready, e)
    BY <1>1 DEF TypeOK
  <2> HIDE DEF e
  <2>2. Elements(ready') = Elements(ready) \cup {e}
    BY <2>1, AppendElements
  <2>3. QED
    BY <2>2 DEF e
<1>3. ASSUME NEW d \in Cases
      PROVE  issued'[d] + Cardinality(Waiting(d)') <= revision'[d] + faults'
  <2> DEFINE before == Waiting(d)
             after == Waiting(d)'
  <2>1. /\ IsFiniteSet(before) /\ Cardinality(before) \in Nat
        /\ issued[d] + Cardinality(before) <= revision[d] + faults
        /\ issued[d] \in Nat /\ revision[d] \in Nat /\ faults \in Nat
    <3>1. IsFiniteSet(Waiting(d)) /\ Cardinality(Waiting(d)) \in Nat
      BY WaitingIsFinite
    <3>2. issued[d] + Cardinality(Waiting(d)) <= revision[d] + faults
      BY DEF TicketsAreNumbered
    <3>3. issued[d] \in Nat /\ revision[d] \in Nat
      BY DEF TypeOK
    <3>4. faults \in Nat
      BY CaseFlowAssumption DEF TypeOK
    <3> HIDE DEF before
    <3>5. QED
      BY <3>1, <3>2, <3>3, <3>4 DEF before
  <2>2. CASE d = c
    <3> DEFINE new == revision[c] + 1
               more == before \cup {new}
    <3>1. after \subseteq more
      BY <1>1, <1>2, <2>2 DEF Waiting
    <3> HIDE DEF before, after, new
    <3>2. IsFiniteSet(more) /\ Cardinality(more) <= Cardinality(before) + 1
      <4>1. IsFiniteSet(before)
        BY <2>1
      <4>2. /\ IsFiniteSet(more)
            /\ Cardinality(more) =
                 IF new \in before THEN Cardinality(before) ELSE Cardinality(before) + 1
        BY <4>1, FS_AddElement
      <4> HIDE DEF more
      <4>3. QED
        BY <2>1, <4>2
    <3> HIDE DEF more
    <3>3. IsFiniteSet(after) /\ Cardinality(after) <= Cardinality(more)
      BY <3>1, <3>2, FS_Subset
    <3>4. Cardinality(after) \in Nat /\ Cardinality(more) \in Nat
      BY <3>2, <3>3, FS_CardinalityType
    <3>5. issued'[d] + Cardinality(after) <= revision'[d] + faults'
      <4>1. Cardinality(after) <= Cardinality(before) + 1
        BY <2>1, <3>2, <3>3, <3>4
      <4>2. revision'[d] = revision[d] + 1 /\ issued'[d] = issued[d] /\ faults' = faults
        BY <1>1, <2>2
      <4>3. QED
        BY <2>1, <3>4, <4>1, <4>2
    <3>6. QED
      BY <3>5 DEF after
  <2>3. CASE d # c
    <3>1. \A r : <<d, r>> # <<c, revision[c] + 1>>
      BY <2>3
    <3>2. after = before
      BY <1>1, <1>2, <3>1 DEF Waiting
    <3> HIDE DEF before, after
    <3>3. issued'[d] + Cardinality(after) <= revision'[d] + faults'
      BY <1>1, <2>1, <2>3, <3>2
    <3>4. QED
      BY <3>3 DEF after
  <2>4. QED
    BY <2>2, <2>3
<1>4. QED
  BY <1>1, <1>3 DEF TicketsAreNumbered

LEMMA NumbersKept ==
  ASSUME TypeOK, TypeOK', Order, TicketsAreNumbered, [Next]_vars
  PROVE  TicketsAreNumbered'
<1>1. /\ Distinct(tickets) /\ tickets \in Seq(Decisions)
      /\ Distinct(ready) /\ ready \in Seq(Decisions)
      /\ Elements(ready) \cap Elements(tickets) = {}
      /\ faults \in Nat /\ \A c \in Cases : issued[c] \in Nat
  BY CaseFlowAssumption DEF TypeOK, Order, TicketsAreNumbered
<1>2. SUFFICES ASSUME ~ \E c \in Cases : Assemble(c)
               PROVE  /\ Distinct(tickets') /\ revision' = revision
                      /\ \A c \in Cases :
                           /\ Waiting(c)' \subseteq Waiting(c)
                           /\ \/ issued'[c] - issued[c] <= faults' - faults
                              \/ /\ Waiting(c)' # Waiting(c)
                                 /\ issued'[c] - issued[c] <= 1 + faults' - faults
  BY FewerWait, AssembleNumbers DEF TicketsAreNumbered
<1>3. CASE SkipStale
  <2>1. /\ ready # <<>> /\ ready' = Tail(ready)
        /\ UNCHANGED <<revision, tickets, issued, faults>>
    BY <1>3 DEF SkipStale, ticketVars
  <2>2. Elements(ready') \subseteq Elements(ready)
    BY <1>1, <2>1, HeadAndTail
  <2>3. QED
    BY <1>1, <2>1, <2>2 DEF Waiting
<1>4. CASE LoadSnapshot
  BY <1>1, <1>4 DEF LoadSnapshot, caseVars, ticketVars, Waiting
<1>5. CASE CommitResult
  <2>1. /\ ready # <<>> /\ ready' = Tail(ready)
        /\ UNCHANGED <<revision, issued, faults>>
        /\ tickets' \in {tickets, Append(tickets, Head(ready))}
    BY <1>5, CommitChanges, CommitOrders
  <2>2. /\ Head(ready) \in Decisions /\ Head(ready) \notin Elements(tickets)
        /\ Elements(ready) = {Head(ready)} \cup Elements(ready')
    BY <1>1, <2>1, HeadAndTail
  <2>3. /\ Distinct(tickets')
        /\ Elements(tickets') \subseteq Elements(tickets) \cup {Head(ready)}
    <3>1. CASE tickets' = tickets
      BY <1>1, <3>1
    <3>2. CASE tickets' = Append(tickets, Head(ready))
      <4>1. Distinct(Append(tickets, Head(ready)))
        BY <1>1, <2>2, DistinctAppend
      <4>2. Elements(Append(tickets, Head(ready))) = Elements(tickets) \cup {Head(ready)}
        BY <1>1, <2>2, AppendElements
      <4>3. QED
        BY <3>2, <4>1, <4>2
    <3>3. QED
      BY <2>1, <3>1, <3>2
  <2>4. QED
    BY <1>1, <2>1, <2>2, <2>3 DEF Waiting
<1>6. CASE CreateTicket
  <2>1. PICK c \in Cases, r \in Revisions :
          /\ Head(tickets) = <<c, r>>
          /\ Elements(tickets) = {<<c, r>>} \cup Elements(tickets')
          /\ issued' = [issued EXCEPT ![c] = Receipt(c)]
          /\ tickets # <<>> /\ tickets' = Tail(tickets)
          /\ UNCHANGED <<revision, ready, faults>>
    BY <1>6, CreateIs
  <2>2. Distinct(tickets') /\ <<c, r>> \notin Elements(tickets')
    BY <1>1, <2>1, DistinctTail
  <2>3. /\ Waiting(c)' \subseteq Waiting(c)
        /\ r \in Waiting(c) /\ r \notin Waiting(c)'
    BY <1>1, <2>1, <2>2 DEF Waiting
  <2>4. issued'[c] - issued[c] <= 1 + faults' - faults
    BY <1>1, <2>1 DEF Receipt, TypeOK
  <2>5. ASSUME NEW d \in Cases, d # c
        PROVE  /\ Waiting(d)' \subseteq Waiting(d)
               /\ issued'[d] - issued[d] <= faults' - faults
    <3>1. Waiting(d)' \subseteq Waiting(d)
      BY <2>1 DEF Waiting
    <3>2. issued'[d] = issued[d] /\ issued[d] \in Nat
      BY <2>1, <2>5 DEF TypeOK
    <3>3. QED
      BY <1>1, <2>1, <3>1, <3>2
  <2>6. \A d \in Cases :
          /\ Waiting(d)' \subseteq Waiting(d)
          /\ \/ issued'[d] - issued[d] <= faults' - faults
             \/ /\ Waiting(d)' # Waiting(d)
                /\ issued'[d] - issued[d] <= 1 + faults' - faults
    BY <2>3, <2>4, <2>5
  <2>7. QED
    BY <2>1, <2>2, <2>6
<1>7. CASE DenyTicket
  <2>1. PICK c \in Cases, r \in Revisions :
          /\ Elements(tickets) = {<<c, r>>} \cup Elements(tickets')
          /\ tickets # <<>> /\ tickets' = Tail(tickets)
          /\ faults' = faults + 1 /\ UNCHANGED <<revision, ready, issued>>
    BY <1>7, DenyIs
  <2>2. Distinct(tickets')
    BY <1>1, <2>1, DistinctTail
  <2>3. QED
    BY <1>1, <2>1, <2>2 DEF Waiting
<1>8. CASE GatewayDiesAfterTicket
  <2>1. PICK c \in Cases :
          /\ issued' = [issued EXCEPT ![c] = Receipt(c)]
          /\ faults' = faults + 1 /\ UNCHANGED <<revision, ready, tickets>>
    BY <1>8, GatewayDiesIs
  <2>2. \A d \in Cases : issued'[d] - issued[d] <= faults' - faults
    BY <1>1, <2>1 DEF Receipt, TypeOK
  <2>3. QED
    BY <1>1, <2>1, <2>2 DEF Waiting
<1>9. CASE Quiet
  <2>1. \A c \in Cases : issued'[c] - issued[c] <= faults' - faults
    BY <1>1, <1>9, FaultsGrow DEF Quiet
  <2>2. QED
    BY <1>1, <1>9, <2>1 DEF Quiet, Waiting
<1>10. QED
  BY <1>2, <1>3, <1>4, <1>5, <1>6, <1>7, <1>8, <1>9, QuietSteps
     DEF Next, CaseStep, TicketStep, MessageStep

(* Whatever fails, stops and is started again, a case has at most one       *)
(* ticket for each of its revisions and one for each fault: a gateway that  *)
(* dies, or that stops at a conflict and forgets its keys, makes no more.   *)
THEOREM RevisionsHaveOneTicket == Spec => []OneTicketPerRevision
<1>1. Init => TicketsAreNumbered
  <2> SUFFICES ASSUME Init PROVE TicketsAreNumbered
    OBVIOUS
  <2>1. /\ tickets = <<>> /\ ready = <<>> /\ faults = 0
        /\ \A c \in Cases : issued[c] = 0 /\ revision[c] = 0
    BY DEF Init
  <2>2. \A c \in Cases : Waiting(c) = {}
    BY <2>1, EmptyHasNoElements DEF Waiting
  <2>3. \A c \in Cases : Cardinality(Waiting(c)) = 0
    BY <2>2, FS_EmptySet
  <2>4. Distinct(tickets)
    BY <2>1 DEF Distinct
  <2>5. \A c \in Cases : issued[c] + Cardinality(Waiting(c)) <= revision[c] + faults
    BY <2>1, <2>3
  <2>6. QED
    BY <2>4, <2>5 DEF TicketsAreNumbered
<1>2. CaseInv /\ CaseInv' /\ TicketsAreNumbered /\ [Next]_vars => TicketsAreNumbered'
  BY NumbersKept DEF CaseInv
<1>3. CaseInv /\ TicketsAreNumbered => OneTicketPerRevision
  <2> SUFFICES ASSUME CaseInv, TicketsAreNumbered, NEW c \in Cases
               PROVE  issued[c] <= revision[c] + faults
    BY DEF OneTicketPerRevision
  <2>1. /\ issued[c] \in Nat /\ revision[c] \in Nat /\ faults \in Nat
        /\ Cardinality(Waiting(c)) \in Nat
    BY WaitingIsFinite, CaseFlowAssumption DEF CaseInv, TypeOK
  <2>2. QED
    BY <2>1 DEF TicketsAreNumbered
<1>4. QED
  BY <1>1, <1>2, <1>3, CaseFlowInvariant, PTL DEF Spec

-----------------------------------------------------------------------------
(* Which keys two texts can meet under *)

OneCasePerConversation ==
  \A c, d \in Cases : ConversationOf[c] = ConversationOf[d] => c = d

(* Keys that count revisions: all but those of clarifications, which always *)
(* are of round 1.                                                          *)
Counts(k) == k[1] # "clarification"

(* Two texts under one key: either several cases share the conversation, or *)
(* the key is a clarification's.  What CasePoison shows has no other cause. *)
PoisonIsClarification == Poisoned => ~Counts(Head(messages).key)

(* The revision that k counts has had its commit, in every case k may be of. *)
Spent(k) ==
  \A c \in Cases : ConversationOf[c] = k[2] =>
    k[3] <= revision[c] /\ <<c, k[3]>> \notin Elements(ready)

(* A key that counts revisions has one text. *)
KeysInv ==
  /\ \A m \in Elements(messages) : Counts(m.key) => Spent(m.key)
  /\ \A k \in Keys : ledger[k] # NoRow /\ Counts(k) => Spent(k)
  /\ \A m, o \in Elements(messages) :
       Counts(m.key) /\ m.key = o.key => m.text = o.text
  /\ \A m \in Elements(messages) :
       Counts(m.key) /\ ledger[m.key] # NoRow => ledger[m.key].text = m.text

LEMMA OutcomeKeyed ==
  ASSUME NEW j \in Jobs, NEW look, NEW m, Outcome(j, look).message = <<m>>, Counts(m.key)
  PROVE  m.key[2] = ConversationOf[j.case] /\ m.key[3] = j.revision
<1>1. \A purpose, n, says, about, category :
        LET key == Message(j.case, purpose, n, says, about, category).key
        IN key[1] = purpose /\ key[2] = ConversationOf[j.case] /\ key[3] = n
  BY DEF Message
<1>2. ASSUME NEW o \in {<<m>>} PROVE o[1] = m
  OBVIOUS
<1>3. CASE Outcome(j, look) = NoTicketFound(j)
  BY <1>1, <1>2, <1>3 DEF NoTicketFound
<1>4. CASE Outcome(j, look) = Linked(j, look)
  BY <1>1, <1>2, <1>4 DEF Linked
<1>5. CASE Outcome(j, look) = Execute(j, Category(j, look))
  BY <1>1, <1>2, <1>5 DEF Execute
<1>6. CASE Outcome(j, look) = Clarify(j, Category(j, look))
  BY <1>1, <1>2, <1>6 DEF Clarify, Counts
<1>7. CASE Outcome(j, look) = Reject(Category(j, look))
  BY <1>2, <1>7 DEF Reject
<1>8. QED
  BY <1>3, <1>4, <1>5, <1>6, <1>7 DEF Outcome

LEMMA CommitSends ==
  ASSUME TypeOK, Order, CommitResult
  PROVE  \/ messages' = messages
         \/ \E m \in Messages :
              /\ messages' = Append(messages, m)
              /\ Counts(m.key) =>
                   m.key[2] = ConversationOf[job.case] /\ m.key[3] = job.revision
<1>1. PICK look \in Lookups(job) : Commits(look)
  BY CommitIs
<1>2. job \in Jobs
  BY CommitChanges
<1>3. Good(job, Outcome(job, look))
  BY <1>1, <1>2, OutcomeTyped
<1>4. messages' = messages \o Outcome(job, look).message /\ messages \in Seq(Messages)
  BY <1>1 DEF Commits, TypeOK, Messages
<1>5. CASE Outcome(job, look).message = <<>>
  BY <1>4, <1>5
<1>6. ASSUME NEW m, Outcome(job, look).message = <<m>>, Proper(m, job.case)
      PROVE  \E o \in Messages :
               /\ messages' = Append(messages, o)
               /\ Counts(o.key) =>
                    o.key[2] = ConversationOf[job.case] /\ o.key[3] = job.revision
  <2>1. m \in Messages
    BY <1>6 DEF Proper
  <2>2. messages' = Append(messages, m)
    BY <1>4, <1>6, <2>1, ConcatOne
  <2>3. Counts(m.key) => m.key[2] = ConversationOf[job.case] /\ m.key[3] = job.revision
    BY <1>2, <1>6, OutcomeKeyed
  <2>4. QED
    BY <2>1, <2>2, <2>3
<1>7. QED
  BY <1>3, <1>5, <1>6 DEF Good

(* What was spent stays spent: events come only of new revisions. *)
LEMMA SpentStays ==
  ASSUME TypeOK, Order, [Next]_vars, NEW k, k[3] \in Nat, Spent(k)
  PROVE  Spent(k)'
<1>1. revision \in [Cases -> Nat] /\ ready \in Seq(Decisions)
  BY DEF TypeOK
<1>2. ASSUME NEW c \in Cases, Assemble(c)
      PROVE  Spent(k)'
  <2> DEFINE e == <<c, revision[c] + 1>>
  <2>1. /\ revision'[c] = revision[c] + 1 /\ revision[c] \in Nat
        /\ \A d \in Cases : d # c => revision'[d] = revision[d]
        /\ e \in Decisions /\ ready' = Append(ready, e)
    BY <1>2, AssembleIs
  <2>2. ASSUME NEW d \in Cases, k[3] <= revision[d]
        PROVE  <<d, k[3]>> # e /\ k[3] <= revision'[d]
    <3>1. CASE d = c
      BY <2>1, <2>2, <3>1
    <3>2. CASE d # c
      BY <2>1, <2>2, <3>2
    <3>3. QED
      BY <3>1, <3>2
  <2> HIDE DEF e
  <2>3. Elements(Append(ready, e)) = Elements(ready) \cup {e}
    BY <1>1, <2>1, AppendElements
  <2>4. QED
    BY <2>1, <2>2, <2>3 DEF Spent
<1>3. CASE SkipStale \/ CommitResult
  <2>1. ready # <<>> /\ ready' = Tail(ready) /\ revision' = revision
    BY <1>3, CommitChanges DEF SkipStale
  <2>2. Elements(ready') \subseteq Elements(ready)
    BY <1>1, <2>1, HeadAndTail
  <2>3. QED
    BY <2>1, <2>2 DEF Spent
<1>4. ASSUME UNCHANGED <<revision, ready>>
      PROVE  Spent(k)'
  BY <1>4 DEF Spent
<1>5. CASE LoadSnapshot \/ Quiet
  BY <1>4, <1>5 DEF LoadSnapshot, caseVars, Quiet
<1>6. CASE CreateTicket \/ DenyTicket \/ GatewayDiesAfterTicket
  BY <1>4, <1>6, CreateIs, DenyIs, GatewayDiesIs
<1>7. QED
  BY <1>2, <1>3, <1>5, <1>6, QuietSteps DEF Next, CaseStep, TicketStep, MessageStep

LEMMA KeysTyped == \A k \in Keys : k[3] \in Nat
<1>1. \A r \in Revisions : r \in Nat
  BY RevisionsTyped
<1>2. ASSUME NEW k \in {"status-inq", "dup-ticket", "ticket-receipt"}
                       \X Conversations \X Revisions
      PROVE  k[3] \in Nat
  BY <1>1
<1>3. ASSUME NEW k \in {"clarification"} \X Conversations \X {1} PROVE k[3] \in Nat
  OBVIOUS
<1>4. QED
  BY <1>2, <1>3 DEF Keys

(* The revision a commit is about was not spent before, and is after. *)
LEMMA CommitIsFresh ==
  ASSUME OneCasePerConversation, TypeOK, Order, CommitResult, NEW k,
         k[2] = ConversationOf[job.case], k[3] = job.revision
  PROVE  ~Spent(k) /\ Spent(k)'
<1> DEFINE c == job.case
           n == job.revision
<1>1. /\ c \in Cases /\ ready # <<>> /\ ready \in Seq(Decisions)
      /\ Head(ready) = <<c, n>> /\ ready' = Tail(ready) /\ revision' = revision
  BY CommitChanges DEF Jobs
<1> HIDE DEF c, n
<1>2. k[2] = ConversationOf[c] /\ k[3] = n
  BY DEF c, n
<1>3. <<c, n>> \in Elements(ready)
  BY <1>1, HeadAndTail
<1>4. n <= revision[c]
  <2>1. \A d \in Elements(ready) : d[2] <= revision[d[1]]
    BY DEF Order
  <2>2. <<c, n>>[1] = c /\ <<c, n>>[2] = n
    OBVIOUS
  <2>3. QED
    BY <1>3, <2>1, <2>2
<1>5. <<c, n>> \notin Elements(ready')
  BY <1>1, DistinctTail DEF Order
<1>6. ~Spent(k)
  BY <1>1, <1>2, <1>3 DEF Spent
<1>7. Spent(k)'
  <2> SUFFICES ASSUME NEW d \in Cases, ConversationOf[d] = k[2]
               PROVE  k[3] <= revision'[d] /\ <<d, k[3]>> \notin Elements(ready')
    BY DEF Spent
  <2>1. d = c
    BY <1>1, <1>2 DEF OneCasePerConversation
  <2>2. QED
    BY <1>1, <1>2, <1>4, <1>5, <2>1
<1>8. QED
  BY <1>6, <1>7

LEMMA KeysKept ==
  ASSUME OneCasePerConversation, TypeOK, Order, KeysInv, [Next]_vars
  PROVE  KeysInv'
<1>1. messages \in Seq(Messages) /\ ledger \in [Keys -> {NoRow} \cup Rows]
  BY DEF TypeOK, Messages
<1>2. ASSUME NEW m \in Elements(messages) PROVE m.key \in Keys
  <2>1. m \in Messages
    BY <1>1, ElementsTyped
  <2>2. QED
    BY <2>1 DEF Messages
<1>3. /\ \A m \in Elements(messages) : Counts(m.key) => Spent(m.key)'
      /\ \A k \in Keys : ledger[k] # NoRow /\ Counts(k) => Spent(k)'
  BY <1>2, KeysTyped, SpentStays DEF KeysInv
<1>4. ASSUME UNCHANGED <<messages, ledger>> PROVE KeysInv'
  BY <1>3, <1>4 DEF KeysInv
<1>5. CASE ReplaySend \/ Send \/ SendTimesOut
  <2>1. messages # <<>> /\ messages' = Tail(messages)
    BY <1>5 DEF ReplaySend, Send, SendTimesOut, Unsent, Consumed
  <2>2. Elements(messages) = {Head(messages)} \cup Elements(messages')
    BY <2>1, MessageHead
  <2>3. CASE ledger' = ledger
    BY <1>3, <2>2, <2>3 DEF KeysInv
  <2>4. ASSUME NEW status \in {"SENT", "DELIVERY_UNKNOWN"}, Recorded(status)
        PROVE  KeysInv'
    <3> DEFINE h == Head(messages)
    <3>1. /\ ledger'[h.key].text = h.text
          /\ \A l \in Keys : l # h.key => ledger'[l] = ledger[l]
      BY <2>1, <2>4, RecordedIs
    <3>2. h \in Elements(messages)
      BY <2>2
    <3> HIDE DEF h
    <3>3. ASSUME NEW k \in Keys, ledger'[k] # NoRow, Counts(k)
          PROVE  Spent(k)'
      BY <1>3, <3>1, <3>2, <3>3
    <3>4. ASSUME NEW m \in Elements(messages'), Counts(m.key), ledger'[m.key] # NoRow
          PROVE  ledger'[m.key].text = m.text
      <4>1. m \in Elements(messages) /\ m.key \in Keys
        BY <1>2, <2>2
      <4>2. CASE m.key = h.key
        BY <3>1, <3>2, <3>4, <4>1, <4>2 DEF KeysInv
      <4>3. CASE m.key # h.key
        BY <3>1, <3>4, <4>1, <4>3 DEF KeysInv
      <4>4. QED
        BY <4>2, <4>3
    <3>5. QED
      BY <1>3, <2>2, <3>3, <3>4 DEF KeysInv
  <2>5. QED
    BY <1>5, <2>3, <2>4 DEF ReplaySend, Send, SendTimesOut
<1>6. CASE CommitResult
  <2>1. ledger' = ledger
    BY <1>6, CommitChanges
  <2>2. CASE messages' = messages
    BY <1>4, <2>1, <2>2
  <2>3. ASSUME NEW m \in Messages, messages' = Append(messages, m),
               Counts(m.key) =>
                 m.key[2] = ConversationOf[job.case] /\ m.key[3] = job.revision
        PROVE  KeysInv'
    <3>1. Elements(messages') = Elements(messages) \cup {m} /\ m.key \in Keys
      <4>1. Elements(messages') = Elements(messages) \cup {m}
        BY <1>1, <2>3, AppendElements
      <4>2. m.key \in Keys
        BY <2>3 DEF Messages
      <4>3. QED
        BY <4>1, <4>2
    <3>2. Counts(m.key) => ~Spent(m.key) /\ Spent(m.key)'
      BY <1>6, <2>3, CommitIsFresh
    <3>3. ASSUME Counts(m.key)
          PROVE  /\ ledger[m.key] = NoRow
                 /\ \A o \in Elements(messages) : o.key # m.key
      BY <3>1, <3>2, <3>3 DEF KeysInv
    <3>4. \A o \in Elements(messages') : Counts(o.key) => Spent(o.key)'
      BY <1>3, <3>1, <3>2
    <3>5. ASSUME NEW o \in Elements(messages'), NEW p \in Elements(messages'),
                 Counts(o.key), o.key = p.key
          PROVE  o.text = p.text
      <4>1. CASE o \in Elements(messages) /\ p \in Elements(messages)
        BY <3>5, <4>1 DEF KeysInv
      <4>2. CASE o = m \/ p = m
        BY <3>1, <3>3, <3>5, <4>2
      <4>3. QED
        BY <3>1, <4>1, <4>2
    <3>6. ASSUME NEW o \in Elements(messages'), Counts(o.key), ledger'[o.key] # NoRow
          PROVE  ledger'[o.key].text = o.text
      BY <2>1, <3>1, <3>3, <3>6 DEF KeysInv
    <3>7. QED
      BY <1>3, <2>1, <3>4, <3>5, <3>6 DEF KeysInv
  <2>4. QED
    BY <1>6, <2>2, <2>3, CommitSends
<1>7. CASE \/ SkipStale \/ LoadSnapshot \/ MarkAnalyzing
           \/ \E c \in Cases : Assemble(c)
  BY <1>4, <1>7 DEF SkipStale, LoadSnapshot, MarkAnalyzing, Assemble, messageVars
<1>8. CASE CaseWorkerFails \/ SendConflict \/ SendFails \/ Restart \/ UNCHANGED vars
  BY <1>4, <1>8 DEF CaseWorkerFails, SendConflict, SendFails, Restart, vars, messageVars
<1>9. CASE CreateTicket \/ DenyTicket \/ TicketConflict \/ GatewayDiesAfterTicket
  BY <1>4, <1>9 DEF CreateTicket, DenyTicket, TicketConflict,
                    GatewayDiesAfterTicket, messageVars
<1>10. QED
  BY <1>5, <1>6, <1>7, <1>8, <1>9 DEF Next, CaseStep, TicketStep, MessageStep

(* Where every conversation has one case, only clarifications (whose keys   *)
(* carry a round that starts again at 1, not a revision) can meet another   *)
(* text under their key and stop the gateway for good.                      *)
THEOREM OnlyClarificationsPoison ==
  OneCasePerConversation => (Spec => []PoisonIsClarification)
<1> SUFFICES ASSUME OneCasePerConversation
             PROVE  Spec => []PoisonIsClarification
  OBVIOUS
<1>1. Init => KeysInv
  <2> SUFFICES ASSUME Init PROVE KeysInv
    OBVIOUS
  <2>1. messages = <<>> /\ \A k \in Keys : ledger[k] = NoRow
    BY DEF Init
  <2>2. Elements(messages) = {}
    BY <2>1, EmptyHasNoElements
  <2>3. QED
    BY <2>1, <2>2 DEF KeysInv
<1>2. CaseInv /\ KeysInv /\ [Next]_vars => KeysInv'
  BY KeysKept DEF CaseInv
<1>3. CaseInv /\ KeysInv => PoisonIsClarification
  <2> SUFFICES ASSUME CaseInv, KeysInv, Poisoned, Counts(Head(messages).key)
               PROVE  FALSE
    BY DEF PoisonIsClarification
  <2>1. messages # <<>> /\ TypeOK
    BY DEF Poisoned, CaseInv
  <2>2. Head(messages) \in Elements(messages)
    BY <2>1, MessageHead
  <2>3. QED
    BY <2>2 DEF KeysInv, Poisoned, LedgerHas
<1>4. Spec => []CaseInv
  BY CaseFlowInvariant
<1>5. QED
  BY <1>1, <1>2, <1>3, <1>4, PTL DEF Spec
=============================================================================
