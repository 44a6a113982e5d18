------------------------- MODULE InteractionsProofs -------------------------
(***************************************************************************)
(* A request has one answer: the safety of Interactions, for any requests, *)
(* responders, doors and limits.                                           *)
(***************************************************************************)
EXTENDS Interactions, SequenceTheorems, FiniteSetTheorems, TLAPS

(***************************************************************************)
(* The inductive invariant                                                 *)
(***************************************************************************)
\* Who takes part in the answer of its generation: the responder that resolved
\* it, before and after its delivery is staged, those that wait for the outcome,
\* and those that were told that it was taken.
Early == {"stage", "spawned"}
Late  == {"project", "publish", "release", "resolved", "ack"}
Party(q) == q.pc \in Early \cup Late \cup {"follow"} \/ (q.pc = "done" /\ q.result = "ok")

\* The causes for which the request of each generation left the feed.
Said == [g \in Gens |-> Causes(g)]

\* A generation is used once, and that of an approval is the only one of it.
Generations ==
    /\ \A g \in Gens :
         /\ g >= nextGen => ticket[g].st = "none" /\ confirm[g] = "none" /\ completion[g] = "open"
                            /\ Said[g] = {}
         /\ ticket[g].st = "none" <=> ticket[g].req = "none"
    /\ \A g, h \in Gens : ticket[g].req \in Typed /\ ticket[g].req = ticket[h].req => g = h

\* An entry is of a generation that was begun for its request.
Begun == \A r \in Requests : requests[r].st # "none" =>
           requests[r].gen \in Gens /\ ticket[requests[r].gen].req = r

\* Nobody has touched the continuation of a request that is pending.
Untouched == \A r \in Requests : requests[r].st = "pending" =>
    LET g == requests[r].gen IN
    /\ ticket[g].st \in {"waiting", "closing", "dropped"}
    /\ confirm[g] = "none" /\ completion[g] = "open" /\ Said[g] = {}
    /\ \A p \in Responders : Party(resp[p]) => resp[p].gen # g

\* A responder that has found a request knows its generation, ...
Found == \A p \in Responders : resp[p].pc = "validated" \/ Party(resp[p]) =>
           resp[p].gen \in Gens /\ resp[p].req \in Requests /\ ticket[resp[p].gen].req = resp[p].req

\* ... and everybody who takes part in an answer has the same one: the responders,
\* the continuation and the entry.
OneValue == \A p, q \in Responders :
    Party(resp[p]) /\ Party(resp[q]) /\ resp[p].gen = resp[q].gen => resp[p].val = resp[q].val
Delivers == \A p \in Responders :
    Party(resp[p]) /\ confirm[resp[p].gen] # "none" => ticket[resp[p].gen].val = resp[p].val
Recorded == \A r \in Requests : requests[r].st = "resolved" =>
    /\ \A p \in Responders : Party(resp[p]) /\ resp[p].gen = requests[r].gen => resp[p].val = requests[r].val
    /\ confirm[requests[r].gen] # "none" => ticket[requests[r].gen].val = requests[r].val

\* A transaction has one leader, which knows how far it is.
OneLeader == \A p, q \in Responders :
    resp[p].pc \in Early \cup Late /\ resp[q].pc \in Early \cup Late /\ resp[p].gen = resp[q].gen => p = q
EarlyLeads == \A p \in Responders : resp[p].pc \in Early =>
    confirm[resp[p].gen] = "none" /\ completion[resp[p].gen] = "open" /\ Said[resp[p].gen] = {}
LateLeads == \A p \in Responders : resp[p].pc \in Late =>
    /\ confirm[resp[p].gen] = "open" /\ completion[resp[p].gen] = "open"
    /\ ticket[resp[p].gen].st \in {"staged", "closing", "dropped"}
    /\ Enabled => Said[resp[p].gen] = IF resp[p].pc = "ack" THEN {"resolved"} ELSE {}

\* What was confirmed is delivered, unless the tool is gone, and the feed has
\* said so.
Confirmed ==
    /\ \A g \in Gens :
         /\ completion[g] = "ok" <=> confirm[g] = "ok"
         /\ confirm[g] = "ok" => /\ ticket[g].st \in {"staged", "answered", "closing", "dropped"}
                                 /\ Enabled => Said[g] = {"resolved"}
         /\ ticket[g].st = "answered" => confirm[g] = "ok"
    /\ \A p \in Responders : resp[p].pc = "done" /\ resp[p].result = "ok" => completion[resp[p].gen] = "ok"

\* The snapshot shows what is pending and, while the run is retained, what has a
\* leader.
PendingShown == Enabled => \A r \in Requests : requests[r].st = "pending" => r \in shown
LeaderKept == recorded /\ identified => \A p \in Responders : resp[p].pc \in Early \cup Late =>
    /\ requests[resp[p].req].st = "resolved" /\ requests[resp[p].req].gen = resp[p].gen
    /\ requests[resp[p].req].val = resp[p].val
    /\ Enabled /\ resp[p].pc = "ack" => resp[p].req \notin shown
ShownLed == Enabled /\ recorded /\ identified => \A r \in Requests : r \in shown /\ requests[r].st # "pending" =>
    requests[r].st = "resolved" /\ \E p \in Responders : resp[p].gen = requests[r].gen /\ resp[p].pc \in Early \cup Late

Answers == /\ Generations /\ Begun /\ Untouched /\ Found /\ OneValue /\ Delivers /\ Recorded
           /\ OneLeader /\ EarlyLeads /\ LateLeads /\ Confirmed /\ PendingShown /\ LeaderKept /\ ShownLed

\* A record that is removed is not registered again.
Removed == closing \in {"removed", "dropped"} <=> ~recorded

\* Who waits, waits for a request.
Waits == \A g \in Gens : producer[g] # "none" => ticket[g].req # "none"

AnswerInv == InteractionsTypeOK /\ Removed /\ Waits /\ Answers /\ ApprovalShown

(***************************************************************************)
(* What the feed has said                                                  *)
(***************************************************************************)
EventTypes == [kind : {"requested", "removed"}, gen : Gens, req : Requests,
               cause : {"none", "resolved", "origin_finished", "publication_failed",
                        "cancelled", "run_finished", "session_closed"}]

\* A cause was said when some event of the feed says it.
LEMMA SaidIs ==
  ASSUME NEW g \in Gens, NEW c
  PROVE  /\ c \in Said[g] <=> \E i \in DOMAIN changes :
              changes[i].kind = "removed" /\ changes[i].gen = g /\ changes[i].cause = c
         /\ c \in Said'[g] <=> \E i \in DOMAIN changes' :
              changes'[i].kind = "removed" /\ changes'[i].gen = g /\ changes'[i].cause = c
BY DEF Said, Causes

\* Nothing is said when no event is added.
LEMMA SaidKept ==
  ASSUME changes' = changes
  PROVE  Said' = Said
BY DEF Said, Causes

\* An event that is added says its own cause of its own generation only.
LEMMA SaidMore ==
  ASSUME NEW e \in EventTypes, changes \in Seq(EventTypes), changes' = Append(changes, e)
  PROVE  \A g \in Gens : Said'[g] = IF e.kind = "removed" /\ e.gen = g THEN Said[g] \cup {e.cause}
                                     ELSE Said[g]
<1> SUFFICES ASSUME NEW g \in Gens
             PROVE  Said'[g] = IF e.kind = "removed" /\ e.gen = g THEN Said[g] \cup {e.cause} ELSE Said[g]
  OBVIOUS
<1> DEFINE Says(s, i, c) == s[i].kind = "removed" /\ s[i].gen = g /\ s[i].cause = c
<1>1. DOMAIN changes = 1..Len(changes) /\ DOMAIN changes' = 1..(Len(changes) + 1) /\ Len(changes) \in Nat
      /\ changes'[Len(changes) + 1] = e /\ \A i \in 1..Len(changes) : changes'[i] = changes[i]
  OBVIOUS
<1>2. ASSUME NEW c
      PROVE  c \in Said'[g] <=> c \in Said[g] \/ (e.kind = "removed" /\ e.gen = g /\ c = e.cause)
  <2>1. /\ c \in Said[g] <=> \E i \in DOMAIN changes : Says(changes, i, c)
        /\ c \in Said'[g] <=> \E i \in DOMAIN changes' : Says(changes', i, c)
    BY SaidIs
  <2>2. (\E i \in DOMAIN changes' : Says(changes', i, c)) <=>
          (\E i \in DOMAIN changes : Says(changes, i, c)) \/ Says(changes', Len(changes) + 1, c)
    BY <1>1
  <2> QED BY <2>1, <2>2, <1>1
<1>3. Said[g] = Causes(g) /\ Said'[g] = Causes(g)' BY DEF Said
<1>4. CASE e.kind = "removed" /\ e.gen = g BY <1>2, <1>3, <1>4
<1>5. CASE ~(e.kind = "removed" /\ e.gen = g) BY <1>2, <1>3, <1>5
<1> QED BY <1>4, <1>5

\* Events that are added say nothing of a generation that none of them is about.
LEMMA SaidOthers ==
  ASSUME NEW s, s \in Seq(EventTypes), changes \in Seq(EventTypes), changes' = changes \o s
  PROVE  \A g \in Gens : (\A i \in DOMAIN s : s[i].gen # g) => Said'[g] = Said[g]
<1> SUFFICES ASSUME NEW g \in Gens, \A i \in DOMAIN s : s[i].gen # g PROVE Said'[g] = Said[g]
  OBVIOUS
<1> DEFINE Says(t, i, c) == t[i].kind = "removed" /\ t[i].gen = g /\ t[i].cause = c
<1>1. DOMAIN changes = 1..Len(changes) /\ DOMAIN changes' = 1..(Len(changes) + Len(s))
      /\ Len(changes) \in Nat /\ Len(s) \in Nat /\ DOMAIN s = 1..Len(s)
      /\ (\A i \in 1..Len(changes) : changes'[i] = changes[i])
      /\ \A i \in 1..(Len(changes) + Len(s)) : i > Len(changes) => changes'[i] = s[i - Len(changes)]
  OBVIOUS
<1>2. \A i \in DOMAIN changes' : i > Len(changes) => changes'[i].gen # g
  <2> TAKE i \in DOMAIN changes'
  <2> HAVE i > Len(changes)
  <2>1. i - Len(changes) \in DOMAIN s BY <1>1
  <2> QED BY <2>1, <1>1
<1>3. ASSUME NEW c PROVE c \in Said'[g] <=> c \in Said[g]
  <2>1. /\ c \in Said[g] <=> \E i \in DOMAIN changes : Says(changes, i, c)
        /\ c \in Said'[g] <=> \E i \in DOMAIN changes' : Says(changes', i, c)
    BY SaidIs
  <2>2. (\E i \in DOMAIN changes' : Says(changes', i, c)) <=> (\E i \in DOMAIN changes : Says(changes, i, c))
    BY <1>1, <1>2
  <2> QED BY <2>1, <2>2
<1> QED
  <2>1. Said[g] = Causes(g) /\ Said'[g] = Causes(g)' BY DEF Said
  <2> QED BY <1>3, <2>1

(***************************************************************************)
(* The kinds of steps of a response                                        *)
(***************************************************************************)
\* A continuation is given up, closed, dropped, or sees its confirmation; it fails
\* only where nothing was confirmed, nobody leads and nothing pends.
Fades == \A g \in Gens :
    /\ ticket'[g].req = ticket[g].req /\ ticket'[g].val = ticket[g].val
    /\ \/ ticket'[g].st = ticket[g].st
       \/ ticket[g].st \in {"waiting", "staged"} /\ ticket'[g].st = "closing"
       \/ ticket[g].st = "closing" /\ ticket'[g].st = "dropped"
       \/ ticket[g].st = "staged" /\ confirm[g] = "ok" /\ ticket'[g].st = "answered"
       \/ /\ ticket[g].st \in {"waiting", "staged"} /\ ticket'[g].st = "failed" /\ confirm[g] # "ok"
          /\ \A p \in Responders : resp[p].gen = g => resp[p].pc \notin Late
          /\ \A r \in Requests : requests'[r].st = "pending" => requests'[r].gen # g

\* Entries leave the record: only pending ones while the run is retained, and the
\* feed and the snapshot follow.
Withdraws ==
    /\ \A r \in Requests : requests'[r] = requests[r] \/ requests'[r] = NoRequest
    /\ recorded' /\ identified' => /\ recorded /\ identified
                                   /\ \A r \in Requests : requests[r].st # "pending" => requests'[r] = requests[r]
    /\ Enabled => \A r \in Requests : requests'[r].st = "pending" /\ r \in shown => r \in shown'
    /\ Enabled /\ recorded' /\ identified' =>
         \A r \in Requests : r \in shown' => r \in shown /\ requests'[r] = requests[r]
    /\ \A g \in Gens : Said'[g] = Said[g]
         \/ \E r \in Requests : requests[r].st = "pending" /\ requests[r].gen = g /\ requests'[r].st # "pending"

\* Nobody who takes part in an answer leaves, and nobody joins.
Bystanders == \A p \in Responders :
    \/ resp'[p] = resp[p]
    \/ resp[p].pc \notin Early \cup Late /\ resp'[p].pc = "done" /\ resp'[p].result # "ok"

\* What a responder that takes part in an answer knows.
LEMMA PartyKnows ==
  ASSUME Answers, NEW p \in Responders, Party(resp[p])
  PROVE  /\ resp[p].gen \in Gens /\ resp[p].req \in Requests /\ ticket[resp[p].gen].req = resp[p].req
         /\ ~(resp[p].gen >= nextGen)
         /\ \A r \in Requests : requests[r].st = "pending" => requests[r].gen # resp[p].gen
<1>1. resp[p].gen \in Gens /\ resp[p].req \in Requests /\ ticket[resp[p].gen].req = resp[p].req
  BY DEF Answers, Found
<1>2. ticket[resp[p].gen].req # "none" BY <1>1, InteractionsGiven DEF InteractionsAssumption
<1> QED BY <1>1, <1>2 DEF Answers, Generations, Untouched

\* The answers survive the end of a request that nobody has resolved, and of
\* any request once its run is retired or its record removed.
LEMMA Withdrawn ==
  ASSUME Answers, Fades, Withdraws, Bystanders,
         confirm' = confirm, completion' = completion, nextGen' = nextGen
  PROVE  Answers'
<1> USE DEF Answers, NoRequest, Fades, Withdraws, Bystanders
<1>1. Generations' BY DEF Generations, Begun, Untouched
<1>2. Begun' BY DEF Begun
<1>3. Untouched' BY DEF Untouched, Begun, Found, Party, Early, Late
<1>4. Found' BY DEF Found, Party, Early, Late
<1>5. OneValue' BY DEF OneValue, Party, Early, Late
<1>6. Delivers' BY DEF Delivers, Found, Party, Early, Late
<1>7. Recorded' BY DEF Recorded, Begun, Party, Early, Late
<1>8. OneLeader' BY DEF OneLeader, Early, Late
<1>9. EarlyLeads'
  <2> SUFFICES ASSUME NEW p \in Responders, resp'[p].pc \in Early
               PROVE  confirm[resp'[p].gen] = "none" /\ completion[resp'[p].gen] = "open" /\ Said'[resp'[p].gen] = {}
    BY DEF EarlyLeads
  <2>1. resp'[p] = resp[p] /\ Party(resp[p]) BY DEF Party, Early
  <2>2. Said'[resp[p].gen] = Said[resp[p].gen] BY <2>1, PartyKnows
  <2> QED BY <2>1, <2>2 DEF EarlyLeads
<1>10. LateLeads' BY DEF LateLeads, Untouched, Found, Party, Early, Late
<1>11. Confirmed' BY DEF Confirmed, Untouched, Found, Begun, Party, Early, Late
<1>12. PendingShown' BY DEF PendingShown
<1>13. LeaderKept' BY DEF LeaderKept, OneLeader, Found, Party, Early, Late
<1>14. ShownLed' BY DEF ShownLed, LeaderKept, Begun, Found, Party, Early, Late
<1> QED BY <1>1, <1>2, <1>3, <1>4, <1>5, <1>6, <1>7, <1>8, <1>9, <1>10, <1>11, <1>12, <1>13, <1>14

\* One responder moves, and keeps what it knows.
Turned(p, c, result) ==
    /\ \A q \in Responders : resp'[q].gen = resp[q].gen /\ resp'[q].req = resp[q].req /\ resp'[q].val = resp[q].val
    /\ \A q \in Responders : q # p => resp'[q].pc = resp[q].pc /\ resp'[q].result = resp[q].result
    /\ resp'[p].pc = c /\ resp'[p].result = result

\* A leader goes on.
LEMMA Moved ==
  ASSUME Answers, NEW p \in Responders, NEW c,
         \/ resp[p].pc \in Early /\ c \in Early
         \/ resp[p].pc \in Late \ {"ack"} /\ c \in Late \ {"ack"},
         Turned(p, c, resp[p].result),
         requests' = requests, shown' = shown, Said' = Said, recorded' = recorded,
         identified' = identified, nextGen' = nextGen, ticket' = ticket, confirm' = confirm,
         completion' = completion
  PROVE  Answers'
<1> USE DEF Answers, Turned
<1>1. Generations' BY DEF Generations, Found, Party, Early, Late
<1>2. Begun' BY DEF Begun
<1>3. Untouched' BY DEF Untouched, Begun, Found, Party, Early, Late
<1>4. Found' BY DEF Found, Party, Early, Late
<1>5. OneValue' BY DEF OneValue, Party, Early, Late
<1>6. Delivers' BY DEF Delivers, Party, Early, Late
<1>7. Recorded' BY DEF Recorded, Party, Early, Late
<1>8. OneLeader' BY DEF OneLeader, Early, Late
<1>9. EarlyLeads' BY DEF EarlyLeads, Found, Party, Early, Late
<1>10. LateLeads' BY DEF LateLeads, EarlyLeads, Found, Party, Early, Late
<1>11. Confirmed' BY DEF Confirmed, Found, Party, Early, Late
<1>12. PendingShown' BY DEF PendingShown
<1>13. LeaderKept' BY DEF LeaderKept, OneLeader, Found, Party, Early, Late
<1>14. ShownLed' BY DEF ShownLed, LeaderKept, Begun, Found, Party, Early, Late
<1> QED BY <1>1, <1>2, <1>3, <1>4, <1>5, <1>6, <1>7, <1>8, <1>9, <1>10, <1>11, <1>12, <1>13, <1>14

\* A responder finds nothing, another answer, the same answer, or a request that
\* still pends.
LEMMA Looked ==
  ASSUME Answers, NEW p \in Responders, NEW r \in Requests,
         resp[p].pc \in {"idle", "validated"},
         \A q \in Responders : q # p => resp'[q] = resp[q],
         \/ resp'[p].pc = "done" /\ resp'[p].result # "ok"
         \/ /\ resp'[p].pc = "validated" /\ requests[r].st = "pending"
            /\ resp'[p].req = r /\ resp'[p].gen = requests[r].gen
         \/ /\ resp'[p].pc = "follow" /\ requests[r].st = "resolved"
            /\ resp'[p].req = r /\ resp'[p].gen = requests[r].gen /\ resp'[p].val = requests[r].val,
         requests' = requests, shown' = shown, Said' = Said, recorded' = recorded, identified' = identified,
         nextGen' = nextGen, ticket' = ticket, confirm' = confirm, completion' = completion
  PROVE  Answers'
<1> USE DEF Answers
<1>1. Generations' BY DEF Generations, Found, Party, Early, Late
<1>2. Begun' BY DEF Begun
<1>3. Untouched' BY DEF Untouched, Begun, Found, Party, Early, Late
<1>4. Found' BY DEF Found, Begun, Party, Early, Late
<1>5. OneValue' BY DEF OneValue, Recorded, Party, Early, Late
<1>6. Delivers' BY DEF Delivers, Recorded, Party, Early, Late
<1>7. Recorded' BY DEF Recorded, Begun, Party, Early, Late
<1>8. OneLeader' BY DEF OneLeader, Early, Late
<1>9. EarlyLeads' BY DEF EarlyLeads, Found, Party, Early, Late
<1>10. LateLeads' BY DEF LateLeads, EarlyLeads, Found, Party, Early, Late
<1>11. Confirmed' BY DEF Confirmed, Found, Party, Early, Late
<1>12. PendingShown' BY DEF PendingShown
<1>13. LeaderKept' BY DEF LeaderKept, OneLeader, Found, Party, Early, Late
<1>14. ShownLed' BY DEF ShownLed, LeaderKept, Begun, Found, Party, Early, Late
<1> QED BY <1>1, <1>2, <1>3, <1>4, <1>5, <1>6, <1>7, <1>8, <1>9, <1>10, <1>11, <1>12, <1>13, <1>14

\* A follower learns the outcome.
LEMMA Followed ==
  ASSUME Answers, NEW p \in Responders, resp[p].pc = "follow", NEW result,
         result = "ok" => completion[resp[p].gen] = "ok",
         Turned(p, "done", result),
         requests' = requests, shown' = shown, Said' = Said, recorded' = recorded, identified' = identified,
         nextGen' = nextGen, ticket' = ticket, confirm' = confirm, completion' = completion
  PROVE  Answers'
<1> USE DEF Answers, Turned
<1>1. Generations' BY DEF Generations, Found, Party, Early, Late
<1>2. Begun' BY DEF Begun
<1>3. Untouched' BY DEF Untouched, Begun, Found, Party, Early, Late
<1>4. Found' BY DEF Found, Party, Early, Late
<1>5. OneValue' BY DEF OneValue, Party, Early, Late
<1>6. Delivers' BY DEF Delivers, Party, Early, Late
<1>7. Recorded' BY DEF Recorded, Party, Early, Late
<1>8. OneLeader' BY DEF OneLeader, Early, Late
<1>9. EarlyLeads' BY DEF EarlyLeads, Found, Party, Early, Late
<1>10. LateLeads' BY DEF LateLeads, EarlyLeads, Found, Party, Early, Late
<1>11. Confirmed' BY DEF Confirmed, Found, Party, Early, Late
<1>12. PendingShown' BY DEF PendingShown
<1>13. LeaderKept' BY DEF LeaderKept, OneLeader, Found, Party, Early, Late
<1>14. ShownLed' BY DEF ShownLed, LeaderKept, Begun, Found, Party, Early, Late
<1> QED BY <1>1, <1>2, <1>3, <1>4, <1>5, <1>6, <1>7, <1>8, <1>9, <1>10, <1>11, <1>12, <1>13, <1>14

\* A responder resolves a pending request, and leads its transaction.
LEMMA Resolved ==
  ASSUME Answers, NEW p \in Responders, resp[p].pc = "validated", NEW c \in Early,
         requests[resp[p].req].st = "pending", requests[resp[p].req].gen = resp[p].gen,
         Turned(p, c, resp[p].result),
         \A r \in Requests : r # resp[p].req => requests'[r] = requests[r],
         requests'[resp[p].req].st = "resolved", requests'[resp[p].req].gen = resp[p].gen,
         requests'[resp[p].req].val = resp[p].val,
         shown' = shown, Said' = Said, recorded' = recorded, identified' = identified,
         nextGen' = nextGen, ticket' = ticket, confirm' = confirm, completion' = completion
  PROVE  Answers'
<1> USE DEF Answers, Turned
<1>1. Generations' BY DEF Generations, Found, Party, Early, Late
<1>2. Begun' BY DEF Begun, Found
<1>3. Untouched' BY DEF Untouched, Begun, Found, Party, Early, Late
<1>4. Found' BY DEF Found, Party, Early, Late
<1>5. OneValue' BY DEF OneValue, Untouched, Found, Party, Early, Late
<1>6. Delivers' BY DEF Delivers, Untouched, Found, Party, Early, Late
<1>7. Recorded' BY DEF Recorded, Begun, Untouched, Found, Party, Early, Late
<1>8. OneLeader' BY DEF OneLeader, Untouched, Found, Party, Early, Late
<1>9. EarlyLeads' BY DEF EarlyLeads, Untouched, Found, Party, Early, Late
<1>10. LateLeads' BY DEF LateLeads, EarlyLeads, Found, Party, Early, Late
<1>11. Confirmed' BY DEF Confirmed, Found, Party, Early, Late
<1>12. PendingShown' BY DEF PendingShown
<1>13. LeaderKept' BY DEF LeaderKept, OneLeader, Found, Party, Early, Late
<1>14. ShownLed' BY DEF ShownLed, LeaderKept, Begun, Found, Party, Early, Late
<1> QED BY <1>1, <1>2, <1>3, <1>4, <1>5, <1>6, <1>7, <1>8, <1>9, <1>10, <1>11, <1>12, <1>13, <1>14

\* The leader stages the delivery.
LEMMA Staged ==
  ASSUME Answers, NEW p \in Responders, resp[p].pc = "stage", NEW c \in Late \ {"ack"},
         Turned(p, c, resp[p].result), ticket[resp[p].gen].st = "waiting",
         \A g \in Gens : g # resp[p].gen => ticket'[g] = ticket[g] /\ confirm'[g] = confirm[g],
         ticket'[resp[p].gen].req = ticket[resp[p].gen].req, ticket'[resp[p].gen].st = "staged",
         ticket'[resp[p].gen].val = resp[p].val, confirm'[resp[p].gen] = "open",
         requests' = requests, shown' = shown, Said' = Said, recorded' = recorded, identified' = identified, nextGen' = nextGen, completion' = completion
  PROVE  Answers'
<1>a. /\ resp[p].gen \in Gens /\ resp[p].req \in Requests /\ ticket[resp[p].gen].req = resp[p].req
      /\ ~(resp[p].gen >= nextGen)
      /\ \A r \in Requests : requests[r].st = "pending" => requests[r].gen # resp[p].gen
  BY PartyKnows DEF Party, Early, Late
<1> USE DEF Answers, Turned
<1>1. Generations' BY <1>a DEF Generations
<1>2. Begun' BY <1>a DEF Begun, Begun, Found, Party, Early, Late
<1>3. Untouched' BY <1>a DEF Untouched, Begun, Found, Party, Early, Late
<1>4. Found' BY <1>a DEF Found, Party, Early, Late
<1>5. OneValue' BY <1>a DEF OneValue, Party, Early, Late
<1>6. Delivers' BY <1>a DEF Delivers, OneValue, Found, Party, Early, Late
<1>7. Recorded' BY <1>a DEF Recorded, Begun, Found, Party, Early, Late
<1>8. OneLeader' BY <1>a DEF OneLeader, Early, Late
<1>9. EarlyLeads' BY <1>a DEF EarlyLeads, OneLeader, Found, Party, Early, Late
<1>10. LateLeads'
  <2> SUFFICES ASSUME NEW q \in Responders, resp'[q].pc \in Late
               PROVE  /\ confirm'[resp'[q].gen] = "open" /\ completion'[resp'[q].gen] = "open"
                      /\ ticket'[resp'[q].gen].st \in {"staged", "closing", "dropped"}
                      /\ Enabled => Said'[resp'[q].gen] = IF resp'[q].pc = "ack" THEN {"resolved"} ELSE {}
    BY DEF LateLeads
  <2>1. CASE q = p
    <3>1. resp'[q].gen = resp[p].gen /\ resp'[q].pc # "ack" BY <2>1
    <3>2. completion[resp[p].gen] = "open" /\ Said[resp[p].gen] = {} BY DEF EarlyLeads, Early
    <3> QED BY <3>1, <3>2
  <2>2. CASE q # p
    <3>1. resp[q].gen # resp[p].gen /\ resp[q].gen \in Gens BY <2>2 DEF OneLeader, Found, Party, Early, Late
    <3> QED BY <3>1, <2>2 DEF LateLeads
  <2> QED BY <2>1, <2>2
<1>11. Confirmed' BY <1>a DEF Confirmed, EarlyLeads, Found, Party, Early, Late
<1>12. PendingShown' BY <1>a DEF PendingShown, Begun
<1>13. LeaderKept' BY <1>a DEF LeaderKept, OneLeader, Found, Party, Early, Late
<1>14. ShownLed' BY <1>a DEF ShownLed, LeaderKept, Begun, Found, Party, Early, Late
<1> QED BY <1>1, <1>2, <1>3, <1>4, <1>5, <1>6, <1>7, <1>8, <1>9, <1>10, <1>11, <1>12, <1>13, <1>14

\* The leader gives up: its entry, if it is still there, leaves the record.
LEMMA Aborted ==
  ASSUME Answers, NEW p \in Responders, resp[p].pc \in (Early \cup Late) \ {"ack"}, NEW result, result # "ok",
         Turned(p, "done", result),
         \A g \in Gens : ticket'[g].req = ticket[g].req /\ ticket'[g].val = ticket[g].val,
         \A g \in Gens : \/ ticket'[g].st = ticket[g].st
                         \/ /\ g = resp[p].gen /\ resp[p].pc \in Early
                            /\ ticket[g].st \in {"waiting", "staged"} /\ ticket'[g].st = "failed",
         \A g \in Gens : g # resp[p].gen => confirm'[g] = confirm[g] /\ completion'[g] = completion[g] /\ Said'[g] = Said[g],
         confirm'[resp[p].gen] = IF confirm[resp[p].gen] = "open" THEN "err" ELSE confirm[resp[p].gen],
         completion'[resp[p].gen] = "failed",
         \A r \in Requests : requests'[r] = requests[r] \/ (r = resp[p].req /\ requests'[r].st = "none"),
         \A r \in Requests : r \in shown' => r \in shown,
         \A r \in Requests : requests'[r].st = "pending" /\ r \in shown => r \in shown',
         recorded /\ identified => resp[p].req \notin shown',
         recorded' = recorded, identified' = identified, nextGen' = nextGen
  PROVE  Answers'
<1>a. /\ resp[p].gen \in Gens /\ resp[p].req \in Requests /\ ticket[resp[p].gen].req = resp[p].req
      /\ ~(resp[p].gen >= nextGen)
      /\ \A r \in Requests : requests[r].st = "pending" => requests[r].gen # resp[p].gen
  BY PartyKnows DEF Party, Early, Late
<1> USE DEF Answers, Turned
<1>1. Generations' BY <1>a DEF Generations
<1>2. Begun' BY <1>a DEF Begun, Found, Party, Early, Late
<1>3. Untouched'
  <2> SUFFICES ASSUME NEW r \in Requests, requests'[r].st = "pending"
               PROVE  LET g == requests'[r].gen IN
                      /\ ticket'[g].st \in {"waiting", "closing", "dropped"}
                      /\ confirm'[g] = "none" /\ completion'[g] = "open" /\ Said'[g] = {}
                      /\ \A q \in Responders : Party(resp'[q]) => resp'[q].gen # g
    BY DEF Untouched
  <2>1. requests'[r] = requests[r] /\ requests[r].gen \in Gens /\ requests[r].gen # resp[p].gen
    BY <1>a DEF Begun
  <2>2. \A q \in Responders : Party(resp'[q]) => Party(resp[q]) BY DEF Party, Early, Late
  <2>3. /\ ticket[requests[r].gen].st \in {"waiting", "closing", "dropped"} /\ confirm[requests[r].gen] = "none"
        /\ completion[requests[r].gen] = "open" /\ Said[requests[r].gen] = {}
        /\ \A q \in Responders : Party(resp[q]) => resp[q].gen # requests[r].gen
    BY <2>1 DEF Untouched
  <2>4. ticket'[requests[r].gen].st = ticket[requests[r].gen].st BY <2>1
  <2> QED BY <2>1, <2>2, <2>3, <2>4
<1>4. Found' BY <1>a DEF Found, Party, Early, Late
<1>5. OneValue' BY <1>a DEF OneValue, Party, Early, Late
<1>6. Delivers'
  <2> SUFFICES ASSUME NEW q \in Responders, Party(resp'[q]), confirm'[resp'[q].gen] # "none"
               PROVE  ticket'[resp'[q].gen].val = resp'[q].val
    BY DEF Delivers
  <2>1. Party(resp[q]) /\ resp[q].gen \in Gens BY DEF Party, Early, Late, Found
  <2>2. confirm[resp[q].gen] # "none" BY <2>1
  <2> QED BY <2>1, <2>2 DEF Delivers
<1>7. Recorded' BY <1>a DEF Recorded, Begun, Found, Party, Early, Late
<1>8. OneLeader' BY <1>a DEF OneLeader, Early, Late
<1>9. EarlyLeads'
  <2> SUFFICES ASSUME NEW q \in Responders, resp'[q].pc \in Early
               PROVE  /\ confirm'[resp'[q].gen] = "none" /\ completion'[resp'[q].gen] = "open"
                      /\ Said'[resp'[q].gen] = {}
    BY DEF EarlyLeads
  <2>1. q # p /\ resp[q].pc \in Early BY DEF Early
  <2>2. resp[q].gen # resp[p].gen /\ resp[q].gen \in Gens BY <2>1 DEF OneLeader, Found, Party, Early, Late
  <2> QED BY <2>1, <2>2 DEF EarlyLeads
<1>10. LateLeads' BY <1>a DEF LateLeads, OneLeader, Found, Party, Early, Late
<1>11. Confirmed' BY <1>a DEF Confirmed, EarlyLeads, LateLeads, Found, Party, Early, Late
<1>12. PendingShown' BY <1>a DEF PendingShown, Begun
<1>13. LeaderKept' BY <1>a DEF LeaderKept, OneLeader, Found, Party, Early, Late
<1>14. ShownLed' BY <1>a DEF ShownLed, LeaderKept, Begun, Found, Party, Early, Late
<1> QED BY <1>1, <1>2, <1>3, <1>4, <1>5, <1>6, <1>7, <1>8, <1>9, <1>10, <1>11, <1>12, <1>13, <1>14

\* The leader says in the feed that the request is resolved.
LEMMA Published ==
  ASSUME Answers, NEW p \in Responders, resp[p].pc = "resolved",
         Turned(p, "ack", resp[p].result),
         requests[resp[p].req].st = "resolved",
         Enabled => shown' = shown \ {resp[p].req} /\ Said'[resp[p].gen] = {"resolved"},
         ~Enabled => shown' = shown /\ Said' = Said,
         \A g \in Gens : g # resp[p].gen => Said'[g] = Said[g],
         requests' = requests, recorded' = recorded, identified' = identified,
         nextGen' = nextGen, ticket' = ticket, confirm' = confirm, completion' = completion
  PROVE  Answers'
<1>a. /\ resp[p].gen \in Gens /\ resp[p].req \in Requests /\ ticket[resp[p].gen].req = resp[p].req
      /\ ~(resp[p].gen >= nextGen)
      /\ \A r \in Requests : requests[r].st = "pending" => requests[r].gen # resp[p].gen
  BY PartyKnows DEF Party, Early, Late
<1> USE DEF Answers, Turned
<1>1. Generations' BY <1>a DEF Generations
<1>2. Begun' BY <1>a DEF Begun
<1>3. Untouched' BY <1>a DEF Untouched, Begun, Found, Party, Early, Late
<1>4. Found' BY <1>a DEF Found, Party, Early, Late
<1>5. OneValue' BY <1>a DEF OneValue, Party, Early, Late
<1>6. Delivers' BY <1>a DEF Delivers, Party, Early, Late
<1>7. Recorded' BY <1>a DEF Recorded, Party, Early, Late
<1>8. OneLeader' BY <1>a DEF OneLeader, Early, Late
<1>9. EarlyLeads' BY <1>a DEF EarlyLeads, OneLeader, Found, Party, Early, Late
<1>10. LateLeads'
  <2> SUFFICES ASSUME NEW q \in Responders, resp'[q].pc \in Late
               PROVE  /\ confirm'[resp'[q].gen] = "open" /\ completion'[resp'[q].gen] = "open"
                      /\ ticket'[resp'[q].gen].st \in {"staged", "closing", "dropped"}
                      /\ Enabled => Said'[resp'[q].gen] = IF resp'[q].pc = "ack" THEN {"resolved"} ELSE {}
    BY DEF LateLeads
  <2>1. CASE q = p BY <2>1, <1>a DEF LateLeads, EarlyLeads, Early, Late
  <2>2. CASE q # p
    <3>1. resp[q].gen # resp[p].gen /\ resp[q].gen \in Gens BY <2>2 DEF OneLeader, Found, Party, Early, Late
    <3> QED BY <3>1, <2>2 DEF LateLeads
  <2> QED BY <2>1, <2>2
<1>11. Confirmed' BY <1>a DEF Confirmed, LateLeads, Found, Party, Early, Late
<1>12. PendingShown' BY <1>a DEF PendingShown, Begun
<1>13. LeaderKept' BY <1>a DEF LeaderKept, OneLeader, Found, Party, Early, Late
<1>14. ShownLed' BY <1>a DEF ShownLed, LeaderKept, Begun, Found, Party, Early, Late
<1> QED BY <1>1, <1>2, <1>3, <1>4, <1>5, <1>6, <1>7, <1>8, <1>9, <1>10, <1>11, <1>12, <1>13, <1>14

\* The leader confirms the delivery.
LEMMA Acknowledged ==
  ASSUME Answers, NEW p \in Responders, resp[p].pc = "ack",
         Turned(p, "done", "ok"),
         \A g \in Gens : g # resp[p].gen => confirm'[g] = confirm[g] /\ completion'[g] = completion[g],
         confirm'[resp[p].gen] = "ok", completion'[resp[p].gen] = "ok",
         requests' = requests, shown' = shown, Said' = Said, recorded' = recorded, identified' = identified,
         nextGen' = nextGen, ticket' = ticket
  PROVE  Answers'
<1>a. /\ resp[p].gen \in Gens /\ resp[p].req \in Requests /\ ticket[resp[p].gen].req = resp[p].req
      /\ ~(resp[p].gen >= nextGen)
      /\ \A r \in Requests : requests[r].st = "pending" => requests[r].gen # resp[p].gen
  BY PartyKnows DEF Party, Early, Late
<1> USE DEF Answers, Turned
<1>1. Generations' BY <1>a DEF Generations
<1>2. Begun' BY <1>a DEF Begun
<1>3. Untouched' BY <1>a DEF Untouched, Begun, Found, Party, Early, Late
<1>4. Found' BY <1>a DEF Found, Party, Early, Late
<1>5. OneValue' BY <1>a DEF OneValue, Party, Early, Late
<1>6. Delivers' BY <1>a DEF Delivers, LateLeads, Found, Party, Early, Late
<1>7. Recorded' BY <1>a DEF Recorded, LateLeads, Begun, Found, Party, Early, Late
<1>8. OneLeader' BY <1>a DEF OneLeader, Early, Late
<1>9. EarlyLeads'
  <2> SUFFICES ASSUME NEW q \in Responders, resp'[q].pc \in Early
               PROVE  /\ confirm'[resp'[q].gen] = "none" /\ completion'[resp'[q].gen] = "open"
                      /\ Said'[resp'[q].gen] = {}
    BY DEF EarlyLeads
  <2>1. q # p /\ resp[q].pc \in Early /\ resp'[q].gen = resp[q].gen BY DEF Early
  <2>2. resp[q].gen \in Gens /\ resp[q].gen # resp[p].gen
    BY <2>1 DEF OneLeader, Found, Party, Early, Late
  <2> QED BY <2>1, <2>2 DEF EarlyLeads
<1>10. LateLeads' BY <1>a DEF LateLeads, OneLeader, Found, Party, Early, Late
<1>11. Confirmed' BY <1>a DEF Confirmed, LateLeads, Found, Party, Early, Late
<1>12. PendingShown' BY <1>a DEF PendingShown, Begun
<1>13. LeaderKept' BY <1>a DEF LeaderKept, OneLeader, Found, Party, Early, Late
<1>14. ShownLed' BY <1>a DEF ShownLed, LeaderKept, Begun, Found, Party, Early, Late
<1> QED BY <1>1, <1>2, <1>3, <1>4, <1>5, <1>6, <1>7, <1>8, <1>9, <1>10, <1>11, <1>12, <1>13, <1>14

\* A request is begun with a new generation, or is refused after it took one.
LEMMA Started ==
  ASSUME Answers, NEW r \in Requests, requests[r].st = "none", nextGen \in Gens, nextGen' = nextGen + 1,
         \A g \in Gens : ticket[g].req = r => r \notin Typed,
         \/ ticket' = ticket /\ requests' = requests /\ shown' = shown
         \/ /\ \A g \in Gens : g # nextGen => ticket'[g] = ticket[g]
            /\ ticket'[nextGen].req = r /\ ticket'[nextGen].st = "waiting"
            /\ \A s \in Requests : s # r => requests'[s] = requests[s]
            /\ requests'[r].st = "pending" /\ requests'[r].gen = nextGen
            /\ Enabled => shown' = shown \cup {r},
         Said' = Said, recorded' = recorded, identified' = identified, confirm' = confirm, completion' = completion, resp' = resp
  PROVE  Answers'
<1>a. "none" \notin Requests /\ Typed \subseteq Requests BY InteractionsGiven DEF InteractionsAssumption
<1>b. nextGen >= nextGen /\ \A g \in Gens : g >= nextGen' => g >= nextGen /\ g # nextGen
  BY InteractionsGiven DEF InteractionsAssumption, Gens
<1>c. /\ ticket[nextGen].st = "none" /\ ticket[nextGen].req = "none" /\ confirm[nextGen] = "none"
      /\ completion[nextGen] = "open" /\ Said[nextGen] = {}
  BY <1>b DEF Answers, Generations
<1>d. /\ \A p \in Responders : resp[p].pc = "validated" \/ Party(resp[p]) => resp[p].gen # nextGen
      /\ \A s \in Requests : requests[s].st # "none" => requests[s].gen # nextGen
  BY <1>a, <1>c DEF Answers, Found, Begun
<1> USE DEF Answers
<1>1. Generations' BY <1>a, <1>b, <1>c, <1>d DEF Generations
<1>2. Begun' BY <1>a, <1>b, <1>c, <1>d DEF Begun
<1>3. Untouched' BY <1>a, <1>b, <1>c, <1>d DEF Untouched, Begun, Party, Early, Late
<1>4. Found' BY <1>a, <1>b, <1>c, <1>d DEF Found
<1>5. OneValue' BY <1>a, <1>b, <1>c, <1>d DEF OneValue, Party, Early, Late
<1>6. Delivers' BY <1>a, <1>b, <1>c, <1>d DEF Delivers, Party, Found, Early, Late
<1>7. Recorded' BY <1>a, <1>b, <1>c, <1>d DEF Recorded, Begun, Party, Early, Late
<1>8. OneLeader' BY <1>a, <1>b, <1>c, <1>d DEF OneLeader, Early, Late
<1>9. EarlyLeads' BY <1>a, <1>b, <1>c, <1>d DEF EarlyLeads, Early, Late
<1>10. LateLeads' BY <1>a, <1>b, <1>c, <1>d DEF LateLeads, Found, Party, Early, Late
<1>11. Confirmed' BY <1>a, <1>b, <1>c, <1>d DEF Confirmed
<1>12. PendingShown' BY <1>a, <1>b, <1>c, <1>d DEF PendingShown
<1>13. LeaderKept' BY <1>a, <1>b, <1>c, <1>d DEF LeaderKept, Found, Party, Early, Late
<1>14. ShownLed' BY <1>a, <1>b, <1>c, <1>d DEF ShownLed, Early, Late
<1> QED BY <1>1, <1>2, <1>3, <1>4, <1>5, <1>6, <1>7, <1>8, <1>9, <1>10, <1>11, <1>12, <1>13, <1>14

(***************************************************************************)
(* What the operators of the record and of the tickets do                  *)
(***************************************************************************)
Tickets == [req : Requests \cup {"none"}, val : Responses \cup {"none"},
            st : {"none", "waiting", "staged", "answered", "failed", "closing", "dropped"}]
Entries == [st : {"none", "pending", "resolved"}, gen : 0..GenBound, val : Responses \cup {"none"}]

EntryTypes == requests \in [Requests -> Entries] /\ shown \subseteq Requests /\ changes \in Seq(EventTypes)

\* A removal that is committed is a well-formed event.
LEMMA RemovalType ==
  ASSUME EntryTypes, Begun, NEW r \in Requests, requests[r].st # "none",
         NEW cause \in {"resolved", "origin_finished", "publication_failed",
                        "cancelled", "run_finished", "session_closed"}
  PROVE  Removal(r, cause) \in EventTypes /\ Removal(r, cause).gen = requests[r].gen
         /\ Removal(r, cause).kind = "removed" /\ Removal(r, cause).req = r
BY DEF EventTypes, Removal, Change, Begun

\* Taking a pending entry away: it leaves the record, the snapshot and, with its
\* own generation, the feed.
LEMMA EntryTaken ==
  ASSUME EntryTypes, Begun, PendingShown, NEW r \in Requests, requests[r].st = "pending",
         NEW cause \in {"origin_finished"}, TakeEntry(r, cause)
  PROVE  /\ EntryTypes'
         /\ requests' = [requests EXCEPT ![r] = NoRequest]
         /\ Enabled => shown' = shown \ {r}
         /\ \A g \in Gens : g # requests[r].gen => Said'[g] = Said[g]
<1>1. Removal(r, cause) \in EventTypes /\ Removal(r, cause).gen = requests[r].gen
      /\ Removal(r, cause).kind = "removed" /\ Removal(r, cause).req = r
  BY RemovalType
<1>2. NoRequest \in Entries BY InteractionsGiven DEF NoRequest, Entries, InteractionsAssumption
<1>3. requests' = [requests EXCEPT ![r] = NoRequest] /\ requests' \in [Requests -> Entries]
  BY <1>2 DEF TakeEntry, EntryTypes
<1>4. CASE ~Enabled
  <2>1. shown' = shown /\ changes' = changes BY <1>4 DEF TakeEntry, CommitEvent
  <2> QED BY <2>1, <1>3, <1>4, SaidKept DEF EntryTypes
<1>5. CASE Enabled
  <2>1. r \in shown BY <1>5 DEF PendingShown
  <2>2. shown' = shown \ {r} /\ changes' = Append(changes, Removal(r, cause))
    BY <1>1, <1>5, <2>1 DEF TakeEntry, CommitEvent, Applies
  <2>3. \A g \in Gens : g # requests[r].gen => Said'[g] = Said[g]
    BY <2>2, <1>1, SaidMore DEF EntryTypes
  <2> QED BY <2>2, <2>3, <1>1, <1>3, <1>5 DEF EntryTypes
<1> QED BY <1>4, <1>5

\* Clearing the run takes every pending entry away and fails its continuation.
LEMMA RunCleared ==
  ASSUME EntryTypes, Begun, PendingShown, recorded,
         NEW cause \in {"cancelled", "run_finished", "session_closed"}, ClearRun(cause)
  PROVE  /\ EntryTypes'
         /\ requests' = [r \in Requests |-> IF requests[r].st = "pending" THEN NoRequest ELSE requests[r]]
         /\ Enabled => shown' = shown \ Pendings
         /\ \A g \in Gens : Said'[g] = Said[g] \/ \E r \in Pendings : requests[r].gen = g
         /\ ticket' = FailAll({requests[r].gen : r \in Pendings}, ticket)
<1> DEFINE told == IF Enabled THEN Pendings \cap shown ELSE {}
<1>1. NoRequest \in Entries BY InteractionsGiven DEF NoRequest, Entries, InteractionsAssumption
<1>2. requests' = [r \in Requests |-> IF requests[r].st = "pending" THEN NoRequest ELSE requests[r]]
      /\ shown' = shown \ told /\ ticket' = FailAll({requests[r].gen : r \in Pendings}, ticket)
  BY DEF ClearRun, Pendings
<1>3. PICK s \in SetToSeqs(told) : changes' = changes \o [i \in 1..Len(s) |-> Removal(s[i], cause)]
  BY DEF ClearRun
<1>4. told \subseteq Requests /\ Cardinality(told) \in Nat
  <2>1. told \subseteq Requests BY DEF Pendings
  <2>2. IsFiniteSet(told) BY <2>1, FS_Subset, InteractionsGiven DEF InteractionsAssumption
  <2> QED BY <2>1, <2>2, FS_CardinalityType
<1>5. s \in [1..Cardinality(told) -> told] /\ Len(s) = Cardinality(told)
  <2>1. s \in [1..Cardinality(told) -> told] BY <1>3 DEF SetToSeqs
  <2> HIDE DEF told
  <2>2. s \in Seq(told) BY <2>1, <1>4, SeqDef
  <2> QED BY <2>1, <2>2, <1>4, LenProperties
<1> DEFINE new == [i \in 1..Len(s) |-> Removal(s[i], cause)]
<1>6. \A i \in 1..Len(s) : s[i] \in told /\ new[i] \in EventTypes /\ new[i].gen = requests[s[i]].gen
  <2> TAKE i \in 1..Len(s)
  <2>1. s[i] \in told BY <1>5
  <2>2. s[i] \in Requests /\ requests[s[i]].st = "pending" BY <2>1, <1>4 DEF Pendings
  <2> QED BY <2>1, <2>2, RemovalType
<1>7. new \in Seq(EventTypes) /\ DOMAIN new = 1..Len(s)
  <2>1. Len(s) \in Nat BY <1>4, <1>5
  <2> QED BY <1>6, <2>1, IsASeq
<1>8. \A g \in Gens : Said'[g] = Said[g] \/ \E r \in Pendings : requests[r].gen = g
  <2> SUFFICES ASSUME NEW g \in Gens, ~ \E r \in Pendings : requests[r].gen = g PROVE Said'[g] = Said[g]
    OBVIOUS
  <2>1. \A i \in DOMAIN new : new[i].gen # g BY <1>6, <1>7
  <2> HIDE DEF new
  <2> QED BY <2>1, <1>3, <1>7, SaidOthers DEF EntryTypes, new
<1>9. changes' \in Seq(EventTypes)
  <2> HIDE DEF new
  <2> QED BY <1>3, <1>7, ConcatProperties DEF EntryTypes, new
<1>10. EntryTypes' BY <1>1, <1>2, <1>4, <1>9 DEF EntryTypes
<1>11. Enabled => shown' = shown \ Pendings BY <1>2 DEF PendingShown, Pendings
<1> QED BY <1>2, <1>8, <1>10, <1>11

\* A responder that moves keeps its type, and what it knows.
LEMMA RespondsTo ==
  ASSUME ResponderTypes, NEW p \in Responders,
         NEW c \in {"idle", "validated", "follow", "done"} \cup Leading,
         NEW x \in {"none", "not_found", "conflict", "accepted", "invalid", "ok", "failed", "unavailable"},
         \/ resp' = [resp EXCEPT ![p].pc = c, ![p].result = x]
         \/ resp' = [resp EXCEPT ![p].pc = c] /\ x = resp[p].result
  PROVE  ResponderTypes' /\ Turned(p, c, x)
BY DEF ResponderTypes, Turned

\* A ticket that fails, or is closed, keeps everything but its state.
LEMMA TicketFails ==
  ASSUME ticket \in [Gens -> Tickets], NEW g \in Gens
  PROVE  /\ Fail(g, ticket) \in [Gens -> Tickets] /\ Dropping(g) \in [Gens -> Tickets]
         /\ \A h \in Gens : /\ Fail(g, ticket)[h].req = ticket[h].req /\ Fail(g, ticket)[h].val = ticket[h].val
                            /\ \/ Fail(g, ticket)[h].st = ticket[h].st
                               \/ /\ h = g /\ ticket[h].st \in {"waiting", "staged"}
                                  /\ Fail(g, ticket)[h].st = "failed"
         /\ \A h \in Gens : /\ Dropping(g)[h].req = ticket[h].req /\ Dropping(g)[h].val = ticket[h].val
                            /\ \/ Dropping(g)[h].st = ticket[h].st
                               \/ /\ ticket[h].st \in {"waiting", "staged"}
                                  /\ Dropping(g)[h].st = "closing"
<1>1. CASE ticket[g].st \in {"waiting", "staged"}
  <2>1. Fail(g, ticket) = [ticket EXCEPT ![g].st = "failed"] BY <1>1 DEF Fail
  <2>2. Dropping(g) = [ticket EXCEPT ![g].st = "closing"] BY <1>1 DEF Dropping
  <2>3. /\ [ticket EXCEPT ![g].st = "failed"] \in [Gens -> Tickets]
        /\ [ticket EXCEPT ![g].st = "closing"] \in [Gens -> Tickets]
    BY DEF Tickets
  <2> QED BY <2>1, <2>2, <2>3, <1>1 DEF Tickets
<1>2. CASE ticket[g].st \notin {"waiting", "staged"}
  <2>1. Fail(g, ticket) = ticket BY <1>2 DEF Fail
  <2>2. Dropping(g) = ticket BY <1>2 DEF Dropping, Tickets
  <2> QED BY <2>1, <2>2
<1> QED BY <1>1, <1>2

LEMMA TicketsFail ==
  ASSUME ticket \in [Gens -> Tickets], NEW gs
  PROVE  /\ FailAll(gs, ticket) \in [Gens -> Tickets]
         /\ \A h \in Gens : /\ FailAll(gs, ticket)[h].req = ticket[h].req /\ FailAll(gs, ticket)[h].val = ticket[h].val
                            /\ \/ FailAll(gs, ticket)[h].st = ticket[h].st
                               \/ /\ h \in gs /\ ticket[h].st \in {"waiting", "staged"}
                                  /\ FailAll(gs, ticket)[h].st = "failed"
BY DEF FailAll, Tickets

\* Approvals are still shown when no request comes, no approval is announced or
\* answered and the run goes no way but its end.
LEMMA StillShown ==
  ASSUME ApprovalShown, Begun, Typed \subseteq Requests,
         \A r \in Requests : requests'[r].st = "pending" => requests'[r] = requests[r],
         \A g \in Gens : producer'[g] = "waiting" => producer[g] = "waiting",
         queue' = queue,
         \/ exec' # "running"
         \/ exec' = exec /\ status' = "cancelling"
         \/ exec' = exec /\ status' = status /\ approvals' = approvals
  PROVE  ApprovalShown'
BY DEF ApprovalShown, Begun

\* Nothing that answers are about changes.
LEMMA NothingAnswered ==
  ASSUME Answers, requests' = requests, shown' = shown, changes' = changes, recorded' = recorded,
         identified' = identified, nextGen' = nextGen, ticket' = ticket, confirm' = confirm,
         completion' = completion, resp' = resp
  PROVE  Answers'
<1>1. Fades BY DEF Fades
<1>2. Withdraws BY SaidKept DEF Withdraws
<1>3. Bystanders BY DEF Bystanders
<1> QED BY <1>1, <1>2, <1>3, Withdrawn

LEMMA Given ==
  /\ Typed \subseteq Requests /\ Hosted \subseteq Requests /\ "none" \notin Requests
  /\ GenBound \in Nat /\ NoRequest \in Entries /\ Valid \subseteq Responses
BY InteractionsGiven DEF InteractionsAssumption, NoRequest, Entries

(***************************************************************************)
(* Every step keeps the invariant.  First the steps that touch no answer.  *)
(***************************************************************************)
LEMMA CheckOriginKeeps ==
  ASSUME AnswerInv, NEW r \in Requests, CheckOrigin(r)
  PROVE  AnswerInv'
<1> USE DEF AnswerInv, CheckOrigin, recordVars, entryVars, runVars
<1>1. InteractionsTypeOK' BY DEF InteractionsTypeOK, RequestTypes, TicketTypes, ResponderTypes, RunTypes, Leading
<1>2. Removed' /\ Waits' BY DEF Removed, Waits
<1>3. Answers' BY NothingAnswered
<1>4. ApprovalShown' BY Given, StillShown DEF Answers
<1> QED BY <1>1, <1>2, <1>3, <1>4

LEMMA HostEndKeeps ==
  ASSUME AnswerInv, HostEnd
  PROVE  AnswerInv'
<1> USE DEF AnswerInv, HostEnd, recordVars, entryVars, runVars
<1>1. InteractionsTypeOK' BY DEF InteractionsTypeOK, RequestTypes, TicketTypes, ResponderTypes, RunTypes, Leading
<1>2. Removed' /\ Waits' BY DEF Removed, Waits
<1>3. Answers' BY NothingAnswered
<1>4. ApprovalShown' BY Given, StillShown DEF Answers
<1> QED BY <1>1, <1>2, <1>3, <1>4

LEMMA AnnounceKeeps ==
  ASSUME AnswerInv, NEW g \in Gens, Announce(g)
  PROVE  AnswerInv'
<1> USE DEF AnswerInv, Announce, recordVars, entryVars, originVars
<1>0. ticket[g].req \in Requests
  BY DEF Waits, InteractionsTypeOK, TicketTypes
<1>1. InteractionsTypeOK'
  <2>1. queue' \in Seq(Requests) BY <1>0 DEF InteractionsTypeOK, RunTypes
  <2>2. producer' \in [Gens -> {"none", "begun", "waiting", "over"}] BY DEF InteractionsTypeOK, TicketTypes
  <2> QED BY <2>1, <2>2 DEF InteractionsTypeOK, RequestTypes, TicketTypes, ResponderTypes, RunTypes, Leading
<1>2. Removed' /\ Waits' BY DEF Removed, Waits, InteractionsTypeOK, TicketTypes
<1>3. Answers' BY NothingAnswered
<1>4. ApprovalShown'
  <2> SUFFICES ASSUME NEW r \in Typed, requests[r].st = "pending", producer'[requests[r].gen] = "waiting",
                      \A i \in DOMAIN queue' : queue'[i] # r
               PROVE  r \in approvals \/ status = "cancelling" \/ exec # "running"
    BY DEF ApprovalShown
  <2>1. requests[r].gen \in Gens /\ ticket[requests[r].gen].req = r BY Given DEF Answers, Begun
  <2>2. queue \in Seq(Requests) BY DEF InteractionsTypeOK, RunTypes
  <2>3. DOMAIN queue' = 1..(Len(queue) + 1) /\ DOMAIN queue = 1..Len(queue) /\ Len(queue) \in Nat
        /\ queue'[Len(queue) + 1] = ticket[g].req /\ \A i \in 1..Len(queue) : queue'[i] = queue[i]
    BY <2>2, <1>0
  <2>4. requests[r].gen # g BY <2>1, <2>3
  <2>5. producer[requests[r].gen] = "waiting" BY <2>1, <2>4 DEF InteractionsTypeOK, TicketTypes
  <2>6. \A i \in DOMAIN queue : queue[i] # r BY <2>3
  <2> QED BY <2>5, <2>6 DEF ApprovalShown
<1> QED BY <1>1, <1>2, <1>3, <1>4

LEMMA ExecEndKeeps ==
  ASSUME AnswerInv, ExecEnd
  PROVE  AnswerInv'
<1> USE DEF AnswerInv, ExecEnd, recordVars, entryVars, waiterVars, originVars
<1>1. InteractionsTypeOK' BY DEF InteractionsTypeOK, RequestTypes, TicketTypes, ResponderTypes, RunTypes, Leading
<1>2. Removed' /\ Waits' BY DEF Removed, Waits
<1>3. Answers' BY NothingAnswered
<1>4. ApprovalShown' BY DEF ApprovalShown
<1> QED BY <1>1, <1>2, <1>3, <1>4

LEMMA TakeEventKeeps ==
  ASSUME AnswerInv, TakeEvent
  PROVE  AnswerInv'
<1> USE DEF AnswerInv, TakeEvent, recordVars, entryVars, waiterVars, originVars
<1>0. queue \in Seq(Requests) /\ queue # <<>> BY DEF InteractionsTypeOK, RunTypes
<1>1. InteractionsTypeOK'
  <2>1. Head(queue) \in Requests /\ Tail(queue) \in Seq(Requests) BY <1>0
  <2> QED BY <2>1 DEF InteractionsTypeOK, RequestTypes, TicketTypes, ResponderTypes, RunTypes, Leading
<1>2. Removed' /\ Waits' BY DEF Removed, Waits
<1>3. Answers' BY NothingAnswered
<1>4. ApprovalShown'
  <2> SUFFICES ASSUME NEW r \in Typed, requests[r].st = "pending", producer[requests[r].gen] = "waiting",
                      \A i \in DOMAIN queue' : queue'[i] # r
               PROVE  r \in approvals' \/ status' = "cancelling" \/ exec # "running"
    BY DEF ApprovalShown
  <2>1. DOMAIN queue = 1..Len(queue) /\ DOMAIN queue' = 1..(Len(queue) - 1) /\ Len(queue) \in Nat
        /\ Len(queue) >= 1 /\ queue[1] = Head(queue)
        /\ \A i \in 1..(Len(queue) - 1) : queue'[i] = queue[i + 1]
    BY <1>0
  <2>2. \A i \in DOMAIN queue : i # 1 => queue[i] # r
    <3> TAKE i \in DOMAIN queue
    <3> HAVE i # 1
    <3>1. i - 1 \in 1..(Len(queue) - 1) /\ (i - 1) + 1 = i BY <2>1
    <3> QED BY <3>1, <2>1
  <2>3. CASE queue[1] = r BY <2>1, <2>3
  <2>4. CASE queue[1] # r
    <3>1. r \in approvals \/ status = "cancelling" \/ exec # "running" BY <2>2, <2>4 DEF ApprovalShown
    <3> QED BY <3>1
  <2> QED BY <2>3, <2>4
<1> QED BY <1>1, <1>2, <1>3, <1>4

LEMMA SettleKeeps ==
  ASSUME AnswerInv, Settle
  PROVE  AnswerInv'
<1> USE DEF AnswerInv, Settle, recordVars, entryVars, waiterVars, originVars
<1>1. InteractionsTypeOK' BY DEF InteractionsTypeOK, RequestTypes, TicketTypes, ResponderTypes, RunTypes, Leading
<1>2. Removed' /\ Waits' BY DEF Removed, Waits
<1>3. Answers' BY NothingAnswered
<1>4. ApprovalShown' BY DEF ApprovalShown
<1> QED BY <1>1, <1>2, <1>3, <1>4

LEMMA RetireRunKeeps ==
  ASSUME AnswerInv, RetireRun
  PROVE  AnswerInv'
<1> USE DEF AnswerInv, RetireRun, recordVars, entryVars, waiterVars, originVars
<1>1. InteractionsTypeOK' BY DEF InteractionsTypeOK, RequestTypes, TicketTypes, ResponderTypes, RunTypes, Leading
<1>2. Removed' /\ Waits' BY DEF Removed, Waits
<1>3. Answers' BY NothingAnswered
<1>4. ApprovalShown' BY DEF ApprovalShown
<1> QED BY <1>1, <1>2, <1>3, <1>4

(***************************************************************************)
(* The steps that end requests nobody has resolved                         *)
(***************************************************************************)
\* The types of the record and of the tickets, by their parts.
LEMMA TypeParts ==
  ASSUME InteractionsTypeOK
  PROVE  EntryTypes /\ ticket \in [Gens -> Tickets]
BY DEF InteractionsTypeOK, RequestTypes, TicketTypes, EntryTypes, Entries, EventTypes, Tickets

\* They hold again when the parts do.
LEMMA PartsType ==
  ASSUME InteractionsTypeOK, EntryTypes', (ticket \in [Gens -> Tickets])',
         recorded' \in BOOLEAN, identified' \in BOOLEAN, closing' \in {"open", "cleared", "removed", "dropped"},
         nextGen' \in 1..(GenBound + 1),
         confirm' \in [Gens -> {"none", "open", "ok", "err"}],
         completion' \in [Gens -> {"open", "ok", "failed"}],
         producer' \in [Gens -> {"none", "begun", "waiting", "over"}],
         ResponderTypes', RunTypes'
  PROVE  InteractionsTypeOK'
BY DEF InteractionsTypeOK, RequestTypes, TicketTypes, EntryTypes, Entries, EventTypes, Tickets

\* Taking one pending entry withdraws it.
LEMMA TakenWithdraws ==
  ASSUME InteractionsTypeOK, Answers, NEW r \in Requests, requests[r].st = "pending",
         TakeEntry(r, "origin_finished"), recorded' = recorded, identified' = identified
  PROVE  EntryTypes' /\ Withdraws /\ \A s \in Requests : requests'[s].st = "pending" => requests'[s] = requests[s] /\ s # r
<1>1. /\ EntryTypes'
      /\ requests' = [requests EXCEPT ![r] = NoRequest]
      /\ Enabled => shown' = shown \ {r}
      /\ \A g \in Gens : g # requests[r].gen => Said'[g] = Said[g]
  BY EntryTaken, TypeParts DEF Answers
<1>2. requests'[r] = NoRequest /\ NoRequest.st = "none" /\ \A s \in Requests : s # r => requests'[s] = requests[s]
  BY <1>1, TypeParts DEF EntryTypes, NoRequest
<1>3. Withdraws BY <1>1, <1>2 DEF Withdraws
<1> QED BY <1>1, <1>2, <1>3

\* Nothing is withdrawn when the entries stay.
LEMMA NothingWithdrawn ==
  ASSUME requests' = requests, shown' = shown, changes' = changes, recorded' = recorded, identified' = identified
  PROVE  Withdraws
BY SaidKept DEF Withdraws

\* clear_run withdraws every pending entry and its continuation, and nothing else.
LEMMA ClearRunAnswers ==
  ASSUME InteractionsTypeOK, Answers, NEW cause \in {"cancelled", "run_finished", "session_closed"},
         ClearRun(cause), recorded' = recorded, identified' = identified, confirm' = confirm,
         completion' = completion, nextGen' = nextGen, resp' = resp
  PROVE  /\ EntryTypes' /\ (ticket \in [Gens -> Tickets])' /\ Answers'
         /\ \A g \in Gens : ticket'[g].req = ticket[g].req
         /\ \A r \in Requests : requests'[r].st = "pending" => requests'[r] = requests[r]
<1>1. CASE ~recorded
  <2>1. requests' = requests /\ shown' = shown /\ changes' = changes /\ ticket' = ticket
    BY <1>1 DEF ClearRun, entryVars
  <2> QED BY <2>1, NothingAnswered, TypeParts DEF EntryTypes
<1>2. CASE recorded
  <2> DEFINE gs == {requests[r].gen : r \in Pendings}
  <2>1. /\ EntryTypes'
        /\ requests' = [r \in Requests |-> IF requests[r].st = "pending" THEN NoRequest ELSE requests[r]]
        /\ Enabled => shown' = shown \ Pendings
        /\ \A g \in Gens : Said'[g] = Said[g] \/ \E r \in Pendings : requests[r].gen = g
        /\ ticket' = FailAll(gs, ticket)
    BY <1>2, RunCleared, TypeParts DEF Answers
  <2>2. \A r \in Requests : requests'[r].st # "pending"
        /\ (requests'[r] = requests[r] \/ (requests[r].st = "pending" /\ requests'[r] = NoRequest))
    BY <2>1 DEF NoRequest
  <2>3. Withdraws BY <2>1, <2>2 DEF Withdraws, Pendings
  <2>4. /\ (ticket \in [Gens -> Tickets])'
        /\ \A h \in Gens : /\ ticket'[h].req = ticket[h].req /\ ticket'[h].val = ticket[h].val
                           /\ \/ ticket'[h].st = ticket[h].st
                              \/ h \in gs /\ ticket[h].st \in {"waiting", "staged"} /\ ticket'[h].st = "failed"
    <3> HIDE DEF gs
    <3> QED BY <2>1, TicketsFail, TypeParts
  <2>5. \A h \in gs : confirm[h] # "ok" /\ \A p \in Responders : resp[p].gen = h => resp[p].pc \notin Late
    BY DEF Pendings, Answers, Untouched, Party
  <2>6. Fades BY <2>2, <2>4, <2>5 DEF Fades
  <2>7. Bystanders BY DEF Bystanders
  <2>8. Answers' BY <2>3, <2>6, <2>7, Withdrawn
  <2> QED BY <2>1, <2>2, <2>4, <2>8
<1> QED BY <1>1, <1>2

LEMMA CancelRunKeeps ==
  ASSUME AnswerInv, CancelRun
  PROVE  AnswerInv'
<1> USE DEF AnswerInv, CancelRun, originVars
<1>1. /\ EntryTypes' /\ (ticket \in [Gens -> Tickets])' /\ Answers'
      /\ \A g \in Gens : ticket'[g].req = ticket[g].req
      /\ \A r \in Requests : requests'[r].st = "pending" => requests'[r] = requests[r]
  BY ClearRunAnswers
<1>2. ResponderTypes' /\ RunTypes' BY DEF InteractionsTypeOK, ResponderTypes, RunTypes
<1>3. InteractionsTypeOK' BY <1>1, <1>2, PartsType DEF InteractionsTypeOK, RequestTypes, TicketTypes
<1>4. Removed' /\ Waits' BY <1>1 DEF Removed, Waits
<1>5. ApprovalShown' BY <1>1, Given, StillShown DEF Answers
<1> QED BY <1>1, <1>3, <1>4, <1>5

LEMMA DeadlineKeeps ==
  ASSUME AnswerInv, Deadline
  PROVE  AnswerInv'
<1> USE DEF AnswerInv, Deadline, originVars
<1>1. /\ EntryTypes' /\ (ticket \in [Gens -> Tickets])' /\ Answers'
      /\ \A g \in Gens : ticket'[g].req = ticket[g].req
      /\ \A r \in Requests : requests'[r].st = "pending" => requests'[r] = requests[r]
  BY ClearRunAnswers
<1>2. ResponderTypes' /\ RunTypes' BY DEF InteractionsTypeOK, ResponderTypes, RunTypes
<1>3. InteractionsTypeOK' BY <1>1, <1>2, PartsType DEF InteractionsTypeOK, RequestTypes, TicketTypes
<1>4. Removed' /\ Waits' BY <1>1 DEF Removed, Waits
<1>5. ApprovalShown' BY <1>1, Given, StillShown DEF Answers
<1> QED BY <1>1, <1>3, <1>4, <1>5

LEMMA ExecClearKeeps ==
  ASSUME AnswerInv, ExecClear
  PROVE  AnswerInv'
<1> USE DEF AnswerInv, ExecClear, originVars
<1>1. /\ EntryTypes' /\ (ticket \in [Gens -> Tickets])' /\ Answers'
      /\ \A g \in Gens : ticket'[g].req = ticket[g].req
      /\ \A r \in Requests : requests'[r].st = "pending" => requests'[r] = requests[r]
  BY ClearRunAnswers
<1>2. ResponderTypes' /\ RunTypes' BY DEF InteractionsTypeOK, ResponderTypes, RunTypes
<1>3. InteractionsTypeOK' BY <1>1, <1>2, PartsType DEF InteractionsTypeOK, RequestTypes, TicketTypes
<1>4. Removed' /\ Waits' BY <1>1 DEF Removed, Waits
<1>5. ApprovalShown' BY <1>1, Given, StillShown DEF Answers
<1> QED BY <1>1, <1>3, <1>4, <1>5

LEMMA CloseClearKeeps ==
  ASSUME AnswerInv, CloseClear
  PROVE  AnswerInv'
<1> USE DEF AnswerInv, CloseClear, originVars, runVars
<1>1. /\ EntryTypes' /\ (ticket \in [Gens -> Tickets])' /\ Answers'
      /\ \A g \in Gens : ticket'[g].req = ticket[g].req
      /\ \A r \in Requests : requests'[r].st = "pending" => requests'[r] = requests[r]
  BY ClearRunAnswers
<1>2. ResponderTypes' /\ RunTypes' BY DEF InteractionsTypeOK, ResponderTypes, RunTypes
<1>3. InteractionsTypeOK' BY <1>1, <1>2, PartsType DEF InteractionsTypeOK, RequestTypes, TicketTypes
<1>4. Removed' /\ Waits' BY <1>1 DEF Removed, Waits
<1>5. ApprovalShown' BY <1>1, Given, StillShown DEF Answers
<1> QED BY <1>1, <1>3, <1>4, <1>5

\* The tool is gone: nobody waits for it any more.
LEMMA ProducerOver ==
  ASSUME InteractionsTypeOK, NEW g \in Gens, Over(g)
  PROVE  /\ producer' \in [Gens -> {"none", "begun", "waiting", "over"}] /\ gate' \subseteq Typed
         /\ producer'[g] = "over" /\ \A h \in Gens : h # g => producer'[h] = producer[h]
BY DEF InteractionsTypeOK, TicketTypes, RunTypes, Over

LEMMA PollKeeps ==
  ASSUME AnswerInv, NEW g \in Gens, Poll(g)
  PROVE  AnswerInv'
<1> USE DEF AnswerInv, Poll, recordVars, entryVars, originVars, runVars
<1>0. /\ producer' \in [Gens -> {"none", "begun", "waiting", "over"}] /\ gate' \subseteq Typed
      /\ producer'[g] = "over" /\ \A h \in Gens : h # g => producer'[h] = producer[h]
  BY ProducerOver
<1>1. /\ (ticket \in [Gens -> Tickets])'
      /\ \A h \in Gens : ticket'[h].req = ticket[h].req /\ ticket'[h].val = ticket[h].val
      /\ \A h \in Gens : h # g => ticket'[h].st = ticket[h].st
      /\ \/ ticket'[g].st = ticket[g].st
         \/ ticket[g].st = "staged" /\ confirm[g] = "ok" /\ ticket'[g].st = "answered"
         \/ ticket[g].st = "staged" /\ confirm[g] = "err" /\ ticket'[g].st = "failed"
  BY TypeParts DEF Tickets
<1>2. Fades BY <1>1 DEF Fades, Answers, LateLeads, Untouched
<1>3. Answers' BY <1>2, NothingWithdrawn, Withdrawn DEF Bystanders
<1>4. ResponderTypes' /\ RunTypes' BY <1>0 DEF InteractionsTypeOK, ResponderTypes, RunTypes
<1>5. InteractionsTypeOK'
  BY <1>0, <1>1, <1>4, PartsType, TypeParts DEF InteractionsTypeOK, RequestTypes, TicketTypes, EntryTypes
<1>6. Removed' /\ Waits' BY <1>0, <1>1 DEF Removed, Waits
<1>7. ApprovalShown' BY <1>0, Given, StillShown DEF Answers
<1> QED BY <1>3, <1>5, <1>6, <1>7

LEMMA DropProducerKeeps ==
  ASSUME AnswerInv, NEW g \in Gens, DropProducer(g)
  PROVE  AnswerInv'
<1> USE DEF AnswerInv, DropProducer, recordVars, entryVars, originVars, runVars
<1>0. /\ producer' \in [Gens -> {"none", "begun", "waiting", "over"}] /\ gate' \subseteq Typed
      /\ producer'[g] = "over" /\ \A h \in Gens : h # g => producer'[h] = producer[h]
  BY ProducerOver
<1>1. /\ (ticket \in [Gens -> Tickets])'
      /\ \A h \in Gens : /\ ticket'[h].req = ticket[h].req /\ ticket'[h].val = ticket[h].val
                         /\ \/ ticket'[h].st = ticket[h].st
                            \/ ticket[h].st \in {"waiting", "staged"} /\ ticket'[h].st = "closing"
  BY TypeParts, TicketFails
<1>2. Fades BY <1>1 DEF Fades
<1>3. Answers' BY <1>2, NothingWithdrawn, Withdrawn DEF Bystanders
<1>4. ResponderTypes' /\ RunTypes' BY <1>0 DEF InteractionsTypeOK, ResponderTypes, RunTypes
<1>5. InteractionsTypeOK'
  BY <1>0, <1>1, <1>4, PartsType, TypeParts DEF InteractionsTypeOK, RequestTypes, TicketTypes, EntryTypes
<1>6. Removed' /\ Waits' BY <1>0, <1>1 DEF Removed, Waits
<1>7. ApprovalShown' BY <1>0, Given, StillShown DEF Answers
<1> QED BY <1>3, <1>5, <1>6, <1>7

LEMMA HostFinishedKeeps ==
  ASSUME AnswerInv, NEW g \in Gens, HostFinished(g)
  PROVE  AnswerInv'
<1> DEFINE r == ticket[g].req
<1> USE DEF AnswerInv, HostFinished, originVars, runVars
<1>0. /\ producer' \in [Gens -> {"none", "begun", "waiting", "over"}] /\ gate' \subseteq Typed
      /\ producer'[g] = "over" /\ \A h \in Gens : h # g => producer'[h] = producer[h]
  BY ProducerOver
<1>1. /\ EntryTypes' /\ (ticket \in [Gens -> Tickets])' /\ Withdraws /\ Fades
      /\ \A s \in Requests : requests'[s].st = "pending" => requests'[s] = requests[s]
  <2>1. CASE Exact(g, r)
    <3>1. r \in Requests /\ requests[r].st = "pending" /\ requests[r].gen = g
      BY <2>1, Given DEF Exact
    <3>2. TakeEntry(r, "origin_finished") /\ ticket' = Fail(g, ticket) BY <2>1
    <3>3. EntryTypes' /\ Withdraws
          /\ \A s \in Requests : requests'[s].st = "pending" => requests'[s] = requests[s] /\ s # r
      BY <3>1, <3>2, TakenWithdraws
    <3>4. /\ (ticket \in [Gens -> Tickets])'
          /\ \A h \in Gens : /\ ticket'[h].req = ticket[h].req /\ ticket'[h].val = ticket[h].val
                             /\ \/ ticket'[h].st = ticket[h].st
                                \/ h = g /\ ticket[h].st \in {"waiting", "staged"} /\ ticket'[h].st = "failed"
      BY <3>2, TypeParts, TicketFails
    <3>5. confirm[g] # "ok" /\ \A p \in Responders : resp[p].gen = g => resp[p].pc \notin Late
      BY <3>1 DEF Answers, Untouched, Party
    <3>6. \A s \in Requests : requests'[s].st = "pending" => requests'[s].gen # g
      BY <3>3, <3>1 DEF Answers, Begun
    <3>7. Fades BY <3>4, <3>5, <3>6 DEF Fades
    <3> QED BY <3>3, <3>4, <3>7
  <2>2. CASE ~Exact(g, r)
    <3>1. requests' = requests /\ shown' = shown /\ changes' = changes /\ ticket' = Dropping(g)
      BY <2>2 DEF entryVars
    <3>2. /\ (ticket \in [Gens -> Tickets])'
          /\ \A h \in Gens : /\ ticket'[h].req = ticket[h].req /\ ticket'[h].val = ticket[h].val
                             /\ \/ ticket'[h].st = ticket[h].st
                                \/ ticket[h].st \in {"waiting", "staged"} /\ ticket'[h].st = "closing"
      BY <3>1, TypeParts, TicketFails
    <3> QED BY <3>1, <3>2, NothingWithdrawn, TypeParts DEF EntryTypes, Fades
  <2> QED BY <2>1, <2>2
<1>2. Answers' BY <1>1, Withdrawn DEF Bystanders
<1>4. ResponderTypes' /\ RunTypes' BY <1>0 DEF InteractionsTypeOK, ResponderTypes, RunTypes
<1>5. InteractionsTypeOK'
  BY <1>0, <1>1, <1>4, PartsType DEF InteractionsTypeOK, RequestTypes, TicketTypes
<1>6. Removed' /\ Waits' BY <1>0, <1>1 DEF Removed, Waits, Fades
<1>7. ApprovalShown' BY <1>0, <1>1, Given, StillShown DEF Answers
<1> QED BY <1>2, <1>5, <1>6, <1>7

LEMMA CleanupKeeps ==
  ASSUME AnswerInv, NEW g \in Gens, Cleanup(g)
  PROVE  AnswerInv'
<1> DEFINE r == ticket[g].req
<1> USE DEF AnswerInv, Cleanup, originVars, runVars
<1>1. /\ (ticket \in [Gens -> Tickets])'
      /\ \A h \in Gens : /\ ticket'[h].req = ticket[h].req /\ ticket'[h].val = ticket[h].val
                         /\ \/ ticket'[h].st = ticket[h].st
                            \/ ticket[h].st = "closing" /\ ticket'[h].st = "dropped"
  BY TypeParts DEF Tickets
<1>2. /\ EntryTypes' /\ Withdraws
      /\ \A s \in Requests : requests'[s].st = "pending" => requests'[s] = requests[s]
  <2>1. CASE Exact(g, r)
    <3>0. r # "none" BY <1>1, TypeParts DEF Answers, Generations
    <3>1. r \in Requests /\ requests[r].st = "pending"
      BY <2>1, <3>0, TypeParts DEF Exact, Tickets
    <3> QED BY <2>1, <3>1, TakenWithdraws
  <2>2. CASE ~Exact(g, r)
    <3>1. requests' = requests /\ shown' = shown /\ changes' = changes BY <2>2 DEF entryVars
    <3> QED BY <3>1, NothingWithdrawn, TypeParts DEF EntryTypes
  <2> QED BY <2>1, <2>2
<1>3. Answers' BY <1>1, <1>2, Withdrawn DEF Bystanders, Fades
<1>4. ResponderTypes' /\ RunTypes' BY DEF InteractionsTypeOK, ResponderTypes, RunTypes
<1>5. InteractionsTypeOK'
  BY <1>1, <1>2, <1>4, PartsType DEF InteractionsTypeOK, RequestTypes, TicketTypes
<1>6. Removed' /\ Waits' BY <1>1 DEF Removed, Waits
<1>7. ApprovalShown' BY <1>2, Given, StillShown DEF Answers
<1> QED BY <1>3, <1>5, <1>6, <1>7

LEMMA CloseRemoveKeeps ==
  ASSUME AnswerInv, CloseRemove
  PROVE  AnswerInv'
<1> USE DEF AnswerInv, CloseRemove, entryVars, waiterVars, originVars, runVars
<1>1. Withdraws BY SaidKept DEF Withdraws
<1>2. Answers' BY <1>1, Withdrawn DEF Fades, Bystanders
<1>3. InteractionsTypeOK' BY DEF InteractionsTypeOK, RequestTypes, TicketTypes, ResponderTypes, RunTypes
<1>4. Removed' /\ Waits' BY DEF Removed, Waits
<1>5. ApprovalShown' BY DEF ApprovalShown
<1> QED BY <1>2, <1>3, <1>4, <1>5

LEMMA CloseDropKeeps ==
  ASSUME AnswerInv, CloseDrop
  PROVE  AnswerInv'
<1> USE DEF AnswerInv, CloseDrop, originVars, runVars
<1> DEFINE gs == {requests[r].gen : r \in Pendings}
<1>1. \A r \in Requests : requests'[r] = NoRequest /\ requests'[r].st = "none" BY DEF NoRequest
<1>2. recorded' = FALSE BY DEF Removed, InteractionsTypeOK, RequestTypes
<1>3. Withdraws BY <1>1, <1>2, SaidKept DEF Withdraws
<1>4. /\ (ticket \in [Gens -> Tickets])'
      /\ \A h \in Gens : /\ ticket'[h].req = ticket[h].req /\ ticket'[h].val = ticket[h].val
                         /\ \/ ticket'[h].st = ticket[h].st
                            \/ h \in gs /\ ticket[h].st \in {"waiting", "staged"} /\ ticket'[h].st = "failed"
  <2>1. ticket' = FailAll(gs, ticket) OBVIOUS
  <2> HIDE DEF gs, CloseDrop
  <2> QED BY <2>1, TicketsFail, TypeParts
<1>5. \A h \in gs : confirm[h] # "ok" /\ \A p \in Responders : resp[p].gen = h => resp[p].pc \notin Late
  BY DEF Pendings, Answers, Untouched, Party
<1>6. Fades BY <1>1, <1>4, <1>5 DEF Fades
<1>7. Answers' BY <1>3, <1>6, Withdrawn DEF Bystanders
<1>8. EntryTypes' BY Given, TypeParts DEF EntryTypes
<1>9. ResponderTypes' /\ RunTypes' BY DEF InteractionsTypeOK, ResponderTypes, RunTypes
<1>10. InteractionsTypeOK'
  BY <1>4, <1>8, <1>9, PartsType DEF InteractionsTypeOK, RequestTypes, TicketTypes
<1>11. Removed' /\ Waits' BY <1>4 DEF Removed, Waits
<1>12. ApprovalShown' BY <1>1, Given DEF ApprovalShown
<1> QED BY <1>7, <1>10, <1>11, <1>12

LEMMA RetireKeeps ==
  ASSUME AnswerInv, Retire
  PROVE  AnswerInv'
<1> USE DEF AnswerInv, Retire, waiterVars, originVars, runVars
<1>1. \A r \in Requests : requests'[r] = NoRequest /\ requests'[r].st = "none" BY DEF NoRequest
<1>2. Withdraws BY <1>1, SaidKept DEF Withdraws
<1>3. Answers' BY <1>2, Withdrawn DEF Fades, Bystanders
<1>4. EntryTypes' BY Given, TypeParts DEF EntryTypes
<1>5. ResponderTypes' /\ RunTypes' BY DEF InteractionsTypeOK, ResponderTypes, RunTypes
<1>6. InteractionsTypeOK' BY <1>4, <1>5, PartsType, TypeParts DEF InteractionsTypeOK, RequestTypes, TicketTypes
<1>7. Removed' /\ Waits' BY DEF Removed, Waits
<1>8. ApprovalShown' BY <1>1, Given DEF ApprovalShown
<1> QED BY <1>3, <1>6, <1>7, <1>8

(***************************************************************************)
(* The steps of requests and responses                                     *)
(***************************************************************************)
LEMMA BeginKeeps ==
  ASSUME AnswerInv, NEW r \in Requests, Begin(r)
  PROVE  AnswerInv'
<1> USE DEF AnswerInv
<1> DEFINE e == Change("requested", nextGen, r, "none")
<1>0. nextGen \in Gens /\ nextGen \in Nat
  BY Given DEF Begin, InteractionsTypeOK, TicketTypes, Gens
<1>1. /\ recorded' = recorded /\ closing' = closing /\ identified' = identified /\ confirm' = confirm
      /\ completion' = completion /\ hostDone' = hostDone /\ live' = live /\ queue' = queue
      /\ status' = status /\ approvals' = approvals /\ exec' = exec /\ cancelToken' = cancelToken
      /\ resp' = resp /\ nextGen' = nextGen + 1 /\ checked' = checked \ {r} /\ requests[r].st = "none"
      /\ \A g \in Gens : ticket[g].req = r => r \notin Typed
  BY DEF Begin, runVars
<1>2. e \in EventTypes /\ e.kind = "requested" /\ e.req = r BY <1>0 DEF EventTypes, Change
<1>3. CASE Enabled /\ ~Applies(e)
  <2>1. requests' = requests /\ shown' = shown /\ changes' = changes /\ ticket' = ticket
        /\ producer' = producer /\ gate' = gate
    BY <1>3 DEF Begin, entryVars
  <2>2. Answers' BY <1>0, <1>1, <2>1, SaidKept, Started
  <2>3. nextGen' \in 1..(GenBound + 1) BY <1>0, <1>1, Given DEF Gens
  <2>4. InteractionsTypeOK'
    BY <1>1, <2>1, <2>3 DEF InteractionsTypeOK, RequestTypes, TicketTypes, ResponderTypes, RunTypes
  <2>5. Removed' /\ Waits' BY <1>1, <2>1 DEF Removed, Waits
  <2>6. ApprovalShown' BY <1>1, <2>1 DEF ApprovalShown
  <2> QED BY <2>2, <2>4, <2>5, <2>6
<1>4. CASE ~(Enabled /\ ~Applies(e))
  <2>1. /\ requests' = [requests EXCEPT ![r] = [st |-> "pending", gen |-> nextGen, val |-> "none"]]
        /\ CommitEvent(e)
        /\ ticket' = [ticket EXCEPT ![nextGen] = [req |-> r, st |-> "waiting", val |-> "none"]]
        /\ producer' = [producer EXCEPT ![nextGen] = IF r \in Typed THEN "begun" ELSE "waiting"]
        /\ gate' = GateWith(r)
    BY <1>4 DEF Begin
  <2>2. /\ Enabled => shown' = shown \cup {r} /\ changes' = Append(changes, e)
        /\ ~Enabled => shown' = shown /\ changes' = changes
    BY <2>1, <1>2, <1>4 DEF CommitEvent
  <2> HIDE DEF e
  <2>3. \A g \in Gens : Said'[g] = Said[g] BY <2>2, <1>2, SaidKept, SaidMore, TypeParts DEF EntryTypes
  <2>4. Said' = Said BY <2>3 DEF Said
  <2>5. requests \in [Requests -> Entries] /\ ticket \in [Gens -> Tickets] BY TypeParts DEF EntryTypes
  <2>6. /\ \A g \in Gens : g # nextGen => ticket'[g] = ticket[g] /\ producer'[g] = producer[g]
        /\ ticket'[nextGen].req = r /\ ticket'[nextGen].st = "waiting"
        /\ \A s \in Requests : s # r => requests'[s] = requests[s]
        /\ requests'[r].st = "pending" /\ requests'[r].gen = nextGen
        /\ r \in Typed => producer'[nextGen] = "begun"
    BY <2>1, <2>5, <1>0 DEF InteractionsTypeOK, TicketTypes
  <2>7. Answers' BY <1>0, <1>1, <2>2, <2>4, <2>6, Started
  <2>8. /\ EntryTypes' /\ (ticket \in [Gens -> Tickets])'
        /\ producer' \in [Gens -> {"none", "begun", "waiting", "over"}]
    <3>1. [st |-> "pending", gen |-> nextGen, val |-> "none"] \in Entries
          /\ [req |-> r, st |-> "waiting", val |-> "none"] \in Tickets
      BY <1>0 DEF Entries, Tickets, Gens
    <3>2. requests' \in [Requests -> Entries] /\ ticket' \in [Gens -> Tickets] BY <2>1, <2>5, <3>1
    <3>3. changes' \in Seq(EventTypes) /\ shown' \subseteq Requests BY <2>2, <1>2, TypeParts DEF EntryTypes
    <3>4. producer' \in [Gens -> {"none", "begun", "waiting", "over"}] BY <2>1 DEF InteractionsTypeOK, TicketTypes
    <3> QED BY <3>2, <3>3, <3>4 DEF EntryTypes
  <2>9. ResponderTypes' /\ RunTypes' BY <1>1, <2>1 DEF InteractionsTypeOK, ResponderTypes, RunTypes, GateWith
  <2>10. nextGen' \in 1..(GenBound + 1) BY <1>0, <1>1, Given DEF Gens
  <2>11. InteractionsTypeOK'
    BY <1>1, <2>8, <2>9, <2>10, PartsType DEF InteractionsTypeOK, RequestTypes, TicketTypes
  <2>12. Removed' /\ Waits' BY <1>1, <2>6, Given DEF Removed, Waits
  <2>13. ApprovalShown'
    <3> SUFFICES ASSUME NEW s \in Typed, requests'[s].st = "pending", producer'[requests'[s].gen] = "waiting",
                        \A i \in DOMAIN queue : queue[i] # s
                 PROVE  s \in approvals \/ status = "cancelling" \/ exec # "running"
      BY <1>1 DEF ApprovalShown
    <3>1. s # r /\ requests'[s] = requests[s] BY <2>6, Given
    <3>2. requests[s].gen \in Gens /\ requests[s].gen # nextGen
      BY <3>1, <2>7, <2>6, Given DEF Answers, Begun
    <3> QED BY <3>1, <3>2, <2>6 DEF ApprovalShown
  <2> QED BY <2>7, <2>11, <2>12, <2>13
<1> QED BY <1>3, <1>4

\* What does not depend on the responders is kept by a step of theirs.
LEMMA RespTyped ==
  ASSUME InteractionsTypeOK, ResponderTypes', UNCHANGED <<recordVars, waiterVars, runVars>>
  PROVE  InteractionsTypeOK'
BY DEF InteractionsTypeOK, RequestTypes, TicketTypes, RunTypes, recordVars, entryVars, waiterVars, originVars, runVars

ResponderStates == [pc : {"idle", "validated", "follow", "done"} \cup Leading, door : Doors \cup {"none"},
               req : Requests \cup {"none"}, val : Responses \cup {"none"}, gen : 0..GenBound,
               result : {"none", "not_found", "conflict", "accepted", "invalid", "ok", "failed", "unavailable"}]

\* What a responder finds in place of a pending request.
LEMMA TakenIs ==
  ASSUME NEW p, NEW q \in ResponderStates,
         NEW e \in Entries, e.st # "pending"
  PROVE  /\ Taken(p, q, e) \in ResponderStates
         /\ \/ Taken(p, q, e).pc = "done" /\ Taken(p, q, e).result # "ok"
            \/ /\ Taken(p, q, e).pc = "follow" /\ e.st = "resolved" /\ Taken(p, q, e).req = q.req
               /\ Taken(p, q, e).gen = e.gen /\ Taken(p, q, e).val = e.val
<1>1. CASE e.st = "none" BY <1>1 DEF Taken, Entries, ResponderStates
<1>2. CASE e.st # "none" /\ e.val # q.val BY <1>2 DEF Taken, Entries, ResponderStates
<1>3. CASE e.st # "none" /\ e.val = q.val /\ q.door = "core" BY <1>3 DEF Taken, Entries, ResponderStates
<1>4. CASE e.st # "none" /\ e.val = q.val /\ q.door # "core" BY <1>4 DEF Taken, Entries, ResponderStates
<1> QED BY <1>1, <1>2, <1>3, <1>4

LEMMA ReadKeeps ==
  ASSUME AnswerInv, NEW p \in Responders, NEW d \in Doors, NEW r \in Requests, NEW v \in Responses, Read(p, d, r, v)
  PROVE  AnswerInv'
<1> USE DEF AnswerInv
<1> DEFINE q == [resp[p] EXCEPT !.door = d, !.req = r, !.val = v]
           x == IF requests[r].st # "pending" THEN Taken(p, q, requests[r])
                ELSE IF v \notin Valid THEN [q EXCEPT !.pc = "done", !.result = "invalid"]
                ELSE [q EXCEPT !.pc = "validated", !.gen = requests[r].gen]
<1>1. /\ resp' = [resp EXCEPT ![p] = x] /\ resp[p].pc = "idle"
      /\ requests' = requests /\ shown' = shown /\ changes' = changes /\ recorded' = recorded
      /\ closing' = closing /\ identified' = identified /\ nextGen' = nextGen /\ ticket' = ticket
      /\ confirm' = confirm /\ completion' = completion /\ producer' = producer
      /\ status' = status /\ approvals' = approvals /\ queue' = queue /\ exec' = exec
      /\ UNCHANGED <<recordVars, waiterVars, runVars>>
  BY DEF Read, recordVars, entryVars, waiterVars, originVars, runVars
<1>2. requests[r] \in Entries /\ resp \in [Responders -> ResponderStates] /\ resp[p] \in ResponderStates
  BY TypeParts DEF EntryTypes, InteractionsTypeOK, ResponderTypes, ResponderStates
<1>3. q \in ResponderStates /\ q.req = r /\ q.val = v BY <1>2 DEF ResponderStates
<1>4. x \in ResponderStates /\ (\/ x.pc = "done" /\ x.result # "ok"
                         \/ /\ x.pc = "validated" /\ requests[r].st = "pending"
                            /\ x.req = r /\ x.gen = requests[r].gen
                         \/ /\ x.pc = "follow" /\ requests[r].st = "resolved"
                            /\ x.req = r /\ x.gen = requests[r].gen /\ x.val = requests[r].val)
  <2>1. CASE requests[r].st # "pending"
    <3>1. x = Taken(p, q, requests[r]) BY <2>1
    <3> HIDE DEF q, x
    <3> QED BY <3>1, <2>1, <1>2, <1>3, TakenIs
  <2>2. CASE requests[r].st = "pending" /\ v \notin Valid
    <3>1. x = [q EXCEPT !.pc = "done", !.result = "invalid"] BY <2>2
    <3> HIDE DEF q, x
    <3> QED BY <3>1, <1>3 DEF ResponderStates
  <2>3. CASE requests[r].st = "pending" /\ v \in Valid
    <3>1. x = [q EXCEPT !.pc = "validated", !.gen = requests[r].gen] BY <2>3
    <3> HIDE DEF q, x
    <3> QED BY <3>1, <2>3, <1>2, <1>3 DEF ResponderStates, Entries
  <2> QED BY <2>1, <2>2, <2>3
<1> HIDE DEF q, x
<1>5. resp' \in [Responders -> ResponderStates] /\ resp'[p] = x /\ \A s \in Responders : s # p => resp'[s] = resp[s]
  BY <1>1, <1>2, <1>4
<1>6. Answers' BY <1>1, <1>4, <1>5, SaidKept, Looked
<1>7. InteractionsTypeOK' BY <1>1, <1>5, RespTyped DEF ResponderTypes, ResponderStates
<1>8. Removed' /\ Waits' /\ ApprovalShown' BY <1>1 DEF Removed, Waits, ApprovalShown
<1> QED BY <1>6, <1>7, <1>8

LEMMA ResolveKeeps ==
  ASSUME AnswerInv, NEW p \in Responders, Resolve(p)
  PROVE  AnswerInv'
<1> USE DEF AnswerInv
<1> DEFINE r == resp[p].req
           e == requests[r]
           g == resp[p].gen
<1>1. /\ resp[p].pc = "validated" /\ recorded' = recorded
      /\ closing' = closing /\ identified' = identified /\ nextGen' = nextGen /\ ticket' = ticket
      /\ confirm' = confirm /\ completion' = completion /\ producer' = producer
      /\ status' = status /\ approvals' = approvals /\ queue' = queue /\ exec' = exec
      /\ UNCHANGED <<waiterVars, runVars>>
  BY DEF Resolve, waiterVars, originVars, runVars
<1>2. r \in Requests /\ g \in Gens /\ ticket[g].req = r BY <1>1 DEF Answers, Found
<1>3. e \in Entries /\ resp \in [Responders -> ResponderStates] /\ resp[p] \in ResponderStates /\ requests \in [Requests -> Entries]
  BY <1>2, TypeParts DEF EntryTypes, InteractionsTypeOK, ResponderTypes, ResponderStates
<1>4. Removed' /\ Waits' BY <1>1 DEF Removed, Waits
<1>5. CASE /\ e.st # "pending" \/ e.gen # g
           /\ resp' = [resp EXCEPT ![p] = Taken(p, @, IF e.st = "pending" THEN NoRequest ELSE e)]
           /\ UNCHANGED entryVars
  <2> DEFINE f == IF e.st = "pending" THEN NoRequest ELSE e
             x == Taken(p, resp[p], f)
  <2>1. f \in Entries /\ f.st # "pending" /\ (f.st = "resolved" => f = e)
    BY <1>3, Given DEF NoRequest
  <2>2. /\ x \in ResponderStates
        /\ \/ x.pc = "done" /\ x.result # "ok"
           \/ /\ x.pc = "follow" /\ f.st = "resolved" /\ x.req = r
              /\ x.gen = f.gen /\ x.val = f.val
    <3> HIDE DEF f
    <3> QED BY <2>1, <1>3, TakenIs
  <2>3. resp' = [resp EXCEPT ![p] = x] BY <1>5
  <2> HIDE DEF x, f
  <2>4. resp' \in [Responders -> ResponderStates] /\ resp'[p] = x /\ \A s \in Responders : s # p => resp'[s] = resp[s]
    <3>1. x \in ResponderStates BY <2>2
    <3>2. resp \in [Responders -> ResponderStates] BY <1>3
    <3> QED BY <2>3, <3>1, <3>2
  <2>5. requests' = requests /\ shown' = shown /\ changes' = changes BY <1>5 DEF entryVars
  <2>6. \/ x.pc = "done" /\ x.result # "ok"
        \/ /\ x.pc = "follow" /\ e.st = "resolved" /\ x.req = r /\ x.gen = e.gen /\ x.val = e.val
    BY <2>1, <2>2
  <2>7. Answers' BY <1>1, <1>2, <2>4, <2>5, <2>6, SaidKept, Looked
  <2>8. InteractionsTypeOK' BY <1>1, <2>4, <2>5, RespTyped DEF ResponderTypes, ResponderStates, recordVars, entryVars
  <2>9. ApprovalShown' BY <1>1, <2>5 DEF ApprovalShown
  <2> QED BY <1>4, <2>7, <2>8, <2>9
<1>6. CASE e.st = "pending" /\ e.gen = g /\ TakeEntry(r, "origin_finished") /\ Answer(p, "not_found")
  <2>1. ResponderTypes' /\ Turned(p, "done", "not_found")
    <3>1. ResponderTypes BY DEF InteractionsTypeOK
    <3> QED BY <1>6, <3>1, RespondsTo DEF Answer
  <2>2. EntryTypes' /\ Withdraws /\ \A s \in Requests : requests'[s].st = "pending" => requests'[s] = requests[s]
    BY <1>1, <1>2, <1>6, TakenWithdraws
  <2>3. \A s \in Responders : s # p => resp'[s] = resp[s]
    BY <1>3, <1>6 DEF Answer
  <2>4. Bystanders BY <1>1, <2>1, <2>3 DEF Bystanders, Turned, Early, Late
  <2>5. Answers' BY <1>1, <2>2, <2>4, Withdrawn DEF Fades
  <2>6. RunTypes' BY <1>1 DEF InteractionsTypeOK, RunTypes, waiterVars, originVars, runVars
  <2>7. InteractionsTypeOK'
    BY <1>1, <2>1, <2>2, <2>6, PartsType, TypeParts DEF InteractionsTypeOK, RequestTypes, TicketTypes
  <2>8. ApprovalShown' BY <1>1, <2>2, Given, StillShown DEF Answers
  <2> QED BY <1>4, <2>5, <2>7, <2>8
<1>7. CASE /\ e.st = "pending" /\ e.gen = g
           /\ requests' = [requests EXCEPT ![r] = [st |-> "resolved", gen |-> g, val |-> resp[p].val]]
           /\ UNCHANGED <<shown, changes>>
           /\ resp' = [resp EXCEPT ![p].pc = IF resp[p].door = "core" /\ r \in Typed THEN "spawned" ELSE "stage"]
  <2> DEFINE c == IF resp[p].door = "core" /\ r \in Typed THEN "spawned" ELSE "stage"
  <2>0. c \in Early BY DEF Early
  <2>1. ResponderTypes' /\ Turned(p, c, resp[p].result)
    <3>1. ResponderTypes BY DEF InteractionsTypeOK
    <3>2. c \in {"idle", "validated", "follow", "done"} \cup Leading BY DEF Leading
    <3>3. resp' = [resp EXCEPT ![p].pc = c] BY <1>7
    <3>4. resp[p].result \in {"none", "not_found", "conflict", "accepted", "invalid", "ok", "failed", "unavailable"}
      BY <1>3 DEF ResponderStates
    <3> HIDE DEF c
    <3> QED BY <3>1, <3>2, <3>3, <3>4, RespondsTo
  <2>2. [st |-> "resolved", gen |-> g, val |-> resp[p].val] \in Entries BY <1>3 DEF Entries, ResponderStates
  <2>3. /\ requests' \in [Requests -> Entries]
        /\ \A s \in Requests : s # r => requests'[s] = requests[s]
        /\ requests'[r].st = "resolved" /\ requests'[r].gen = g /\ requests'[r].val = resp[p].val
    BY <1>2, <1>3, <1>7, <2>2
  <2>4. EntryTypes' BY <1>7, <2>3, TypeParts DEF EntryTypes
  <2> HIDE DEF c
  <2>5. Answers' BY <1>1, <1>7, <2>0, <2>1, <2>3, SaidKept, Resolved
  <2>6. RunTypes' BY <1>1 DEF InteractionsTypeOK, RunTypes, waiterVars, originVars, runVars
  <2>7. InteractionsTypeOK'
    BY <1>1, <2>1, <2>4, <2>6, PartsType, TypeParts DEF InteractionsTypeOK, RequestTypes, TicketTypes
  <2>8. \A s \in Requests : requests'[s].st = "pending" => requests'[s] = requests[s] BY <2>3
  <2>9. ApprovalShown' BY <1>1, <2>8, Given, StillShown DEF Answers
  <2> QED BY <1>4, <2>5, <2>7, <2>9
<1> QED BY <1>5, <1>6, <1>7 DEF Resolve

\* ResponseCommit::abort, wherever a leader gives up.
LEMMA AbortKeeps ==
  ASSUME AnswerInv, NEW p \in Responders, resp[p].pc \in (Early \cup Late) \ {"ack"},
         NEW cause \in {"origin_finished", "publication_failed"}, NEW result \in {"not_found", "unavailable"},
         Abort(p, cause, result),
         UNCHANGED <<recorded, closing, identified, producer, gate, nextGen, originVars, runVars>>,
         ticket' = ticket \/ (resp[p].pc \in Early /\ ticket' = Fail(resp[p].gen, ticket))
  PROVE  AnswerInv'
<1> USE DEF AnswerInv
<1> DEFINE r == resp[p].req
           g == resp[p].gen
<1>0. Party(resp[p]) BY DEF Party, Early, Late
<1>1. g \in Gens /\ r \in Requests /\ ticket[g].req = r BY <1>0, PartyKnows
<1>2. /\ recorded' = recorded /\ closing' = closing /\ identified' = identified /\ producer' = producer
      /\ nextGen' = nextGen /\ status' = status /\ approvals' = approvals /\ queue' = queue /\ exec' = exec
  BY DEF runVars
<1>3. ResponderTypes' /\ Turned(p, "done", result)
  <2>1. ResponderTypes BY DEF InteractionsTypeOK
  <2>2. resp' = [resp EXCEPT ![p].pc = "done", ![p].result = result] BY DEF Abort, Answer
  <2> QED BY <2>1, <2>2, RespondsTo
<1>4. /\ confirm' \in [Gens -> {"none", "open", "ok", "err"}] /\ completion' \in [Gens -> {"open", "ok", "failed"}]
      /\ confirm'[g] = IF confirm[g] = "open" THEN "err" ELSE confirm[g]
      /\ completion'[g] = "failed"
      /\ \A h \in Gens : h # g => confirm'[h] = confirm[h] /\ completion'[h] = completion[h]
  BY <1>1 DEF Abort, InteractionsTypeOK, TicketTypes
<1>5. /\ (ticket \in [Gens -> Tickets])'
      /\ \A h \in Gens : ticket'[h].req = ticket[h].req /\ ticket'[h].val = ticket[h].val
      /\ \A h \in Gens : \/ ticket'[h].st = ticket[h].st
                         \/ /\ h = g /\ resp[p].pc \in Early
                            /\ ticket[h].st \in {"waiting", "staged"} /\ ticket'[h].st = "failed"
  <2>1. CASE ticket' = ticket BY <2>1, TypeParts
  <2>2. CASE resp[p].pc \in Early /\ ticket' = Fail(g, ticket) BY <2>2, <1>1, TypeParts, TicketFails
  <2> QED BY <2>1, <2>2
<1>6. /\ EntryTypes'
      /\ \A h \in Gens : h # g => Said'[h] = Said[h]
      /\ \A s \in Requests : requests'[s] = requests[s] \/ (s = r /\ requests'[s].st = "none")
      /\ \A s \in Requests : s \in shown' => s \in shown
      /\ \A s \in Requests : requests'[s].st = "pending" /\ s \in shown => s \in shown'
      /\ recorded /\ identified => r \notin shown'
  <2>1. CASE Mine(p)
    <3>1. requests[r].st = "resolved" /\ requests[r].gen = g BY <2>1 DEF Mine
    <3>2. /\ requests' = [requests EXCEPT ![r] = NoRequest] /\ shown' = shown \ {r}
          /\ changes' = IF Enabled /\ r \in shown THEN Append(changes, Removal(r, cause)) ELSE changes
      BY <2>1 DEF Abort, AbortResolved
    <3>3. Removal(r, cause) \in EventTypes /\ Removal(r, cause).gen = g
      BY <3>1, <1>1, RemovalType, TypeParts DEF Answers
    <3>4. requests \in [Requests -> Entries] /\ shown \subseteq Requests /\ changes \in Seq(EventTypes)
      BY TypeParts DEF EntryTypes
    <3>5. requests' \in [Requests -> Entries] /\ requests'[r].st = "none" /\ \A s \in Requests : s # r => requests'[s] = requests[s]
      BY <3>2, <3>4, <1>1, Given DEF NoRequest
    <3>6. changes' \in Seq(EventTypes) BY <3>2, <3>3, <3>4
    <3>7. \A h \in Gens : h # g => Said'[h] = Said[h]
      <4>1. CASE Enabled /\ r \in shown BY <4>1, <3>2, <3>3, <3>4, SaidMore
      <4>2. CASE ~(Enabled /\ r \in shown) BY <4>2, <3>2, SaidKept
      <4> QED BY <4>1, <4>2
    <3> QED BY <3>2, <3>4, <3>5, <3>6, <3>7 DEF EntryTypes
  <2>2. CASE ~Mine(p)
    <3>1. requests' = requests /\ shown' = shown /\ changes' = changes
      BY <2>2 DEF Abort, AbortResolved, entryVars
    <3>2. ~(recorded /\ identified) BY <2>2 DEF Mine, Answers, LeaderKept
    <3> QED BY <3>1, <3>2, SaidKept, TypeParts DEF EntryTypes
  <2> QED BY <2>1, <2>2
<1>7. Answers'
  <2>1. result # "ok" OBVIOUS
  <2> HIDE DEF AnswerInv
  <2> QED BY <2>1, <1>2, <1>3, <1>4, <1>5, <1>6, Aborted DEF AnswerInv
<1>8. RunTypes' BY DEF InteractionsTypeOK, RunTypes, originVars, runVars
<1>9. InteractionsTypeOK'
  BY <1>2, <1>3, <1>4, <1>5, <1>6, <1>8, PartsType DEF InteractionsTypeOK, RequestTypes, TicketTypes
<1>10. Removed' /\ Waits' BY <1>2, <1>5 DEF Removed, Waits
<1>11. ApprovalShown'
  <2>1. \A s \in Requests : requests'[s].st = "pending" => requests'[s] = requests[s] BY <1>6
  <2> QED BY <2>1, <1>2, Given, StillShown DEF Answers
<1> QED BY <1>7, <1>9, <1>10, <1>11

\* A leader that goes on: everything but itself is as it was.
LEMMA MoveKeeps ==
  ASSUME AnswerInv, NEW p \in Responders, NEW c,
         \/ resp[p].pc \in Early /\ c \in Early
         \/ resp[p].pc \in Late \ {"ack"} /\ c \in Late \ {"ack"},
         resp' = [resp EXCEPT ![p].pc = c],
         UNCHANGED <<recordVars, waiterVars, live, queue, exec, cancelToken>>,
         approvals' \subseteq Requests, status' \in {"running", "waiting", "cancelling", "terminal"}
  PROVE  InteractionsTypeOK' /\ Removed' /\ Waits' /\ Answers'
<1> USE DEF AnswerInv
<1>1. /\ requests' = requests /\ shown' = shown /\ changes' = changes /\ recorded' = recorded
      /\ closing' = closing /\ identified' = identified /\ nextGen' = nextGen /\ ticket' = ticket
      /\ confirm' = confirm /\ completion' = completion /\ producer' = producer
  BY DEF recordVars, entryVars, waiterVars, originVars
<1>2. ResponderTypes' /\ Turned(p, c, resp[p].result)
  <2>1. ResponderTypes /\ c \in {"idle", "validated", "follow", "done"} \cup Leading
    BY DEF InteractionsTypeOK, Leading, Early, Late
  <2>2. resp[p].result \in {"none", "not_found", "conflict", "accepted", "invalid", "ok", "failed", "unavailable"}
    BY <2>1 DEF ResponderTypes
  <2> QED BY <2>1, <2>2, RespondsTo
<1>3. Answers' BY <1>1, <1>2, SaidKept, Moved
<1>4. RunTypes' BY DEF InteractionsTypeOK, RunTypes, waiterVars, originVars
<1>5. InteractionsTypeOK' BY <1>1, <1>2, <1>4 DEF InteractionsTypeOK, RequestTypes, TicketTypes
<1>6. Removed' /\ Waits' BY <1>1 DEF Removed, Waits
<1> QED BY <1>3, <1>5, <1>6

LEMMA SpawnedKeeps ==
  ASSUME AnswerInv, NEW p \in Responders, Spawned(p)
  PROVE  AnswerInv'
<1>1. CASE live
  <2>1. resp' = [resp EXCEPT ![p].pc = "stage"] /\ resp[p].pc = "spawned" BY <1>1 DEF Spawned
  <2>2. UNCHANGED <<recordVars, waiterVars, runVars>>
    BY <1>1 DEF Spawned, recordVars, waiterVars, runVars
  <2>3. InteractionsTypeOK' /\ Removed' /\ Waits' /\ Answers'
    BY <2>1, <2>2, MoveKeeps DEF Early, runVars, AnswerInv, InteractionsTypeOK, RunTypes
  <2>4. ApprovalShown'
    BY <2>2 DEF AnswerInv, ApprovalShown, recordVars, entryVars, waiterVars, runVars
  <2> QED BY <2>3, <2>4 DEF AnswerInv
<1>2. CASE ~live
  <2>1. resp[p].pc = "spawned" /\ Abort(p, "publication_failed", "unavailable") /\ ticket' = Fail(resp[p].gen, ticket)
        /\ UNCHANGED <<recorded, closing, identified, producer, gate, nextGen, originVars, runVars>>
    BY <1>2 DEF Spawned
  <2> QED BY <2>1, AbortKeeps DEF Early, Late
<1> QED BY <1>1, <1>2

LEMMA ProjectKeeps ==
  ASSUME AnswerInv, NEW p \in Responders, Project(p)
  PROVE  AnswerInv'
<1> DEFINE r == resp[p].req
           c == IF r \in approvals THEN "publish" ELSE "release"
<1>1. resp' = [resp EXCEPT ![p].pc = c] /\ resp[p].pc = "project" /\ approvals' = approvals \ {r}
      /\ (status' = status \/ (status = "waiting" /\ status' = "running"))
      /\ UNCHANGED <<recordVars, waiterVars, live, queue, exec, cancelToken>>
  BY DEF Project
<1>2. c \in Late \ {"ack"} /\ resp[p].pc \in Late \ {"ack"} BY <1>1 DEF Late
<1>3. approvals' \subseteq Requests /\ status' \in {"running", "waiting", "cancelling", "terminal"}
  BY <1>1 DEF AnswerInv, InteractionsTypeOK, RunTypes
<1>4. InteractionsTypeOK' /\ Removed' /\ Waits' /\ Answers'
  <2> HIDE DEF c
  <2> QED BY <1>1, <1>2, <1>3, MoveKeeps
<1>5. ApprovalShown'
  <2>1. requests' = requests /\ producer' = producer /\ queue' = queue /\ exec' = exec
    BY <1>1 DEF recordVars, entryVars, waiterVars
  <2> SUFFICES ASSUME NEW s \in Typed, requests[s].st = "pending", producer[requests[s].gen] = "waiting",
                      \A i \in DOMAIN queue : queue[i] # s
               PROVE  s \in approvals' \/ status' = "cancelling" \/ exec # "running"
    BY <2>1 DEF ApprovalShown
  <2>2. s \in approvals \/ status = "cancelling" \/ exec # "running" BY DEF AnswerInv, ApprovalShown
  <2>3. s # r
    <3>1. Party(resp[p]) BY <1>2 DEF Party
    <3>2. /\ resp[p].gen \in Gens /\ ticket[resp[p].gen].req = r
          /\ requests[s].gen # resp[p].gen
      BY <3>1, PartyKnows, Given DEF AnswerInv
    <3>3. requests[s].gen \in Gens /\ ticket[requests[s].gen].req = s BY Given DEF AnswerInv, Answers, Begun
    <3> QED BY <3>2, <3>3 DEF AnswerInv, Answers, Generations
  <2> QED BY <1>1, <2>2, <2>3
<1> QED BY <1>4, <1>5 DEF AnswerInv

LEMMA CommitViewKeeps ==
  ASSUME AnswerInv, NEW p \in Responders, CommitView(p)
  PROVE  AnswerInv'
<1>0. resp[p].pc = "publish" BY DEF CommitView
<1>1. CASE resp' = [resp EXCEPT ![p].pc = "release"] /\ UNCHANGED <<entryVars, confirm, completion>>
  <2>2. UNCHANGED <<recordVars, waiterVars, runVars>>
    BY <1>1 DEF CommitView, recordVars, waiterVars, runVars
  <2>3. InteractionsTypeOK' /\ Removed' /\ Waits' /\ Answers'
    BY <1>0, <1>1, <2>2, MoveKeeps DEF Late, runVars, AnswerInv, InteractionsTypeOK, RunTypes
  <2>4. ApprovalShown'
    BY <2>2 DEF AnswerInv, ApprovalShown, recordVars, entryVars, waiterVars, runVars
  <2> QED BY <2>3, <2>4 DEF AnswerInv
<1>2. CASE Abort(p, "publication_failed", "unavailable")
  <2>1. ticket' = ticket /\ UNCHANGED <<recorded, closing, identified, producer, gate, nextGen, originVars, runVars>>
    BY DEF CommitView
  <2> QED BY <1>0, <1>2, <2>1, AbortKeeps DEF Early, Late
<1> QED BY <1>1, <1>2 DEF CommitView

LEMMA ReleaseKeeps ==
  ASSUME AnswerInv, NEW p \in Responders, Release(p)
  PROVE  AnswerInv'
<1>0. resp[p].pc = "release" BY DEF Release
<1>1. CASE resp' = [resp EXCEPT ![p].pc = "resolved"] /\ UNCHANGED <<entryVars, confirm, completion>>
  <2>2. UNCHANGED <<recordVars, waiterVars, runVars>>
    BY <1>1 DEF Release, recordVars, waiterVars, runVars
  <2>3. InteractionsTypeOK' /\ Removed' /\ Waits' /\ Answers'
    BY <1>0, <1>1, <2>2, MoveKeeps DEF Late, runVars, AnswerInv, InteractionsTypeOK, RunTypes
  <2>4. ApprovalShown'
    BY <2>2 DEF AnswerInv, ApprovalShown, recordVars, entryVars, waiterVars, runVars
  <2> QED BY <2>3, <2>4 DEF AnswerInv
<1>2. CASE Abort(p, "origin_finished", "not_found")
  <2>1. ticket' = ticket /\ UNCHANGED <<recorded, closing, identified, producer, gate, nextGen, originVars, runVars>>
    BY DEF Release
  <2> QED BY <1>0, <1>2, <2>1, AbortKeeps DEF Early, Late
<1> QED BY <1>1, <1>2 DEF Release

LEMMA StageKeeps ==
  ASSUME AnswerInv, NEW p \in Responders, Stage(p)
  PROVE  AnswerInv'
<1> DEFINE g == resp[p].gen
           r == resp[p].req
           c == IF r \in Typed THEN "project" ELSE "release"
<1>0. resp[p].pc = "stage" /\ Party(resp[p])
      /\ UNCHANGED <<recorded, closing, identified, producer, gate, nextGen, originVars, runVars>>
  BY DEF Stage, Party, Early
<1>1. CASE ticket[g].st = "waiting"
  <2>1. /\ ticket' = [ticket EXCEPT ![g].st = "staged", ![g].val = resp[p].val]
        /\ confirm' = [confirm EXCEPT ![g] = "open"]
        /\ resp' = [resp EXCEPT ![p].pc = c]
        /\ requests' = requests /\ shown' = shown /\ changes' = changes /\ completion' = completion
    BY <1>1 DEF Stage, entryVars
  <2>2. g \in Gens BY <1>0, PartyKnows DEF AnswerInv
  <2>3. ResponderTypes /\ c \in Late \ {"ack"} /\ c \in {"idle", "validated", "follow", "done"} \cup Leading
    BY DEF AnswerInv, InteractionsTypeOK, Leading, Late
  <2> HIDE DEF c
  <2>4. ResponderTypes' /\ Turned(p, c, resp[p].result)
    <3>1. resp[p].result \in {"none", "not_found", "conflict", "accepted", "invalid", "ok", "failed", "unavailable"}
      BY <2>3 DEF ResponderTypes
    <3> QED BY <2>1, <2>3, <3>1, RespondsTo
  <2>5. resp[p].val \in Responses \cup {"none"} BY <2>3 DEF ResponderTypes
  <2>6. ticket \in [Gens -> Tickets] BY TypeParts DEF AnswerInv
  <2>7. /\ ticket' \in [Gens -> Tickets]
        /\ \A h \in Gens : h # g => ticket'[h] = ticket[h]
        /\ ticket'[g].req = ticket[g].req /\ ticket'[g].st = "staged" /\ ticket'[g].val = resp[p].val
    BY <2>1, <2>2, <2>5, <2>6 DEF Tickets
  <2>8. /\ confirm' \in [Gens -> {"none", "open", "ok", "err"}] /\ confirm'[g] = "open"
        /\ \A h \in Gens : h # g => confirm'[h] = confirm[h]
    BY <2>1, <2>2 DEF AnswerInv, InteractionsTypeOK, TicketTypes
  <2>9. Answers'
    BY <1>0, <1>1, <2>1, <2>3, <2>4, <2>7, <2>8, SaidKept, Staged DEF AnswerInv
  <2>10. RunTypes' /\ EntryTypes' BY <1>0, <2>1, TypeParts DEF AnswerInv, InteractionsTypeOK, RunTypes, originVars, runVars, EntryTypes
  <2>11. InteractionsTypeOK'
    BY <1>0, <2>1, <2>4, <2>7, <2>8, <2>10, PartsType DEF AnswerInv, InteractionsTypeOK, RequestTypes, TicketTypes
  <2>12. Removed' /\ Waits' BY <1>0, <2>7 DEF AnswerInv, Removed, Waits
  <2>13. ApprovalShown' BY <1>0, <2>1 DEF AnswerInv, ApprovalShown, runVars
  <2> QED BY <2>9, <2>11, <2>12, <2>13 DEF AnswerInv
<1>2. CASE ticket[g].st # "waiting"
  <2>1. Abort(p, "origin_finished", "not_found") /\ ticket' = ticket BY <1>2 DEF Stage
  <2> QED BY <1>0, <2>1, AbortKeeps DEF Early, Late
<1> QED BY <1>1, <1>2

LEMMA PublishResolvedKeeps ==
  ASSUME AnswerInv, NEW p \in Responders, PublishResolved(p)
  PROVE  AnswerInv'
<1> DEFINE g == resp[p].gen
           r == resp[p].req
           e == Change("removed", g, r, "resolved")
<1>0. resp[p].pc = "resolved" /\ Party(resp[p]) /\ ticket' = ticket
      /\ UNCHANGED <<recorded, closing, identified, producer, gate, nextGen, originVars, runVars>>
  BY DEF PublishResolved, Party, Late
<1>1. CASE Mine(p) /\ (Enabled => Applies(e))
  <2>1. /\ CommitEvent(e) /\ requests' = requests /\ confirm' = confirm /\ completion' = completion
        /\ resp' = [resp EXCEPT ![p].pc = "ack"]
    BY <1>1 DEF PublishResolved
  <2>2. g \in Gens /\ r \in Requests BY <1>0, PartyKnows DEF AnswerInv
  <2>3. e \in EventTypes /\ e.kind = "removed" /\ e.gen = g /\ e.req = r /\ e.cause = "resolved"
    BY <2>2 DEF EventTypes, Change
  <2>4. /\ Enabled => shown' = shown \ {r} /\ changes' = Append(changes, e)
        /\ ~Enabled => shown' = shown /\ changes' = changes
    BY <1>1, <2>1, <2>3 DEF CommitEvent
  <2> HIDE DEF e
  <2>5. requests[r].st = "resolved" BY <1>1 DEF Mine
  <2>6. Enabled => Said[g] = {} BY <1>0 DEF AnswerInv, Answers, LateLeads, Late
  <2>7. /\ Enabled => Said'[g] = {"resolved"}
        /\ ~Enabled => Said' = Said
        /\ \A h \in Gens : h # g => Said'[h] = Said[h]
    <3>1. changes \in Seq(EventTypes) BY TypeParts DEF AnswerInv, EntryTypes
    <3>2. CASE Enabled
      <4>1. \A h \in Gens : Said'[h] = IF e.kind = "removed" /\ e.gen = h THEN Said[h] \cup {e.cause} ELSE Said[h]
        BY <3>1, <3>2, <2>3, <2>4, SaidMore
      <4> QED BY <4>1, <3>2, <2>2, <2>3, <2>6
    <3>3. CASE ~Enabled BY <3>3, <2>4, SaidKept
    <3> QED BY <3>2, <3>3
  <2>8. ResponderTypes BY DEF AnswerInv, InteractionsTypeOK
  <2>9. ResponderTypes' /\ Turned(p, "ack", resp[p].result)
    <3>1. resp[p].result \in {"none", "not_found", "conflict", "accepted", "invalid", "ok", "failed", "unavailable"}
      BY <2>8 DEF ResponderTypes
    <3> QED BY <2>1, <2>8, <3>1, RespondsTo DEF Leading
  <2>10. Answers' BY <1>0, <2>1, <2>4, <2>5, <2>7, <2>9, Published DEF AnswerInv
  <2>11. EntryTypes'
    <3>1. requests \in [Requests -> Entries] /\ shown \subseteq Requests /\ changes \in Seq(EventTypes)
      BY TypeParts DEF AnswerInv, EntryTypes
    <3>2. Append(changes, e) \in Seq(EventTypes) BY <3>1, <2>3
    <3>3. changes' \in Seq(EventTypes) BY <3>1, <3>2, <2>4
    <3>4. shown' \subseteq Requests BY <3>1, <2>4
    <3> QED BY <3>1, <3>3, <3>4, <2>1 DEF EntryTypes
  <2>12. RunTypes' BY <1>0 DEF AnswerInv, InteractionsTypeOK, RunTypes, originVars, runVars
  <2>13. InteractionsTypeOK'
    BY <1>0, <2>1, <2>9, <2>11, <2>12, PartsType, TypeParts DEF AnswerInv, InteractionsTypeOK, RequestTypes, TicketTypes
  <2>14. Removed' /\ Waits' BY <1>0 DEF AnswerInv, Removed, Waits
  <2>15. ApprovalShown' BY <1>0, <2>1 DEF AnswerInv, ApprovalShown, runVars
  <2> QED BY <2>10, <2>13, <2>14, <2>15 DEF AnswerInv
<1>2. CASE ~(Mine(p) /\ (Enabled => Applies(e)))
  <2>1. Abort(p, "publication_failed", "unavailable") BY <1>2 DEF PublishResolved
  <2> QED BY <1>0, <2>1, AbortKeeps DEF Early, Late
<1> QED BY <1>1, <1>2

LEMMA AcknowledgeKeeps ==
  ASSUME AnswerInv, NEW p \in Responders, Acknowledge(p)
  PROVE  AnswerInv'
<1> DEFINE g == resp[p].gen
<1>0. resp[p].pc = "ack" /\ Party(resp[p]) /\ ticket' = ticket /\ producer' = producer
      /\ requests' = requests /\ shown' = shown /\ changes' = changes /\ recorded' = recorded
      /\ closing' = closing /\ identified' = identified /\ nextGen' = nextGen
      /\ confirm' = [confirm EXCEPT ![g] = "ok"] /\ completion' = [completion EXCEPT ![g] = "ok"]
      /\ resp' = [resp EXCEPT ![p].pc = "done", ![p].result = "ok"]
      /\ UNCHANGED <<gate, originVars, runVars>>
  BY DEF Acknowledge, Answer, Party, Late, recordVars, entryVars
<1>1. g \in Gens BY <1>0, PartyKnows DEF AnswerInv
<1>2. ResponderTypes' /\ Turned(p, "done", "ok")
  <2>1. ResponderTypes BY DEF AnswerInv, InteractionsTypeOK
  <2> QED BY <1>0, <2>1, RespondsTo
<1>3. /\ confirm' \in [Gens -> {"none", "open", "ok", "err"}] /\ completion' \in [Gens -> {"open", "ok", "failed"}]
      /\ confirm'[g] = "ok" /\ completion'[g] = "ok"
      /\ \A h \in Gens : h # g => confirm'[h] = confirm[h] /\ completion'[h] = completion[h]
  BY <1>0, <1>1 DEF AnswerInv, InteractionsTypeOK, TicketTypes
<1>4. Answers' BY <1>0, <1>2, <1>3, SaidKept, Acknowledged DEF AnswerInv
<1>5. RunTypes' BY <1>0 DEF AnswerInv, InteractionsTypeOK, RunTypes, originVars, runVars
<1>6. InteractionsTypeOK' BY <1>0, <1>2, <1>3, <1>5 DEF AnswerInv, InteractionsTypeOK, RequestTypes, TicketTypes
<1>7. Removed' /\ Waits' BY <1>0 DEF AnswerInv, Removed, Waits
<1>8. ApprovalShown' BY <1>0 DEF AnswerInv, ApprovalShown, runVars
<1> QED BY <1>4, <1>6, <1>7, <1>8 DEF AnswerInv

LEMMA FollowKeeps ==
  ASSUME AnswerInv, NEW p \in Responders, Follow(p)
  PROVE  AnswerInv'
<1> DEFINE x == IF completion[resp[p].gen] = "ok" THEN "ok" ELSE "failed"
<1>0. resp[p].pc = "follow" /\ resp' = [resp EXCEPT ![p].pc = "done", ![p].result = x]
      /\ UNCHANGED <<recordVars, waiterVars, runVars>>
  BY DEF Follow, Answer
<1>1. /\ requests' = requests /\ shown' = shown /\ changes' = changes /\ recorded' = recorded
      /\ closing' = closing /\ identified' = identified /\ nextGen' = nextGen /\ ticket' = ticket
      /\ confirm' = confirm /\ completion' = completion /\ producer' = producer
      /\ status' = status /\ approvals' = approvals /\ queue' = queue /\ exec' = exec
  BY <1>0 DEF recordVars, entryVars, waiterVars, runVars
<1>2. x \in {"ok", "failed"} /\ (x = "ok" => completion[resp[p].gen] = "ok") OBVIOUS
<1> HIDE DEF x
<1>3. ResponderTypes' /\ Turned(p, "done", x)
  <2>1. ResponderTypes BY DEF AnswerInv, InteractionsTypeOK
  <2> QED BY <1>0, <1>2, <2>1, RespondsTo
<1>4. Answers' BY <1>0, <1>1, <1>2, <1>3, SaidKept, Followed DEF AnswerInv
<1>5. InteractionsTypeOK' BY <1>0, <1>3, RespTyped DEF AnswerInv
<1>6. Removed' /\ Waits' /\ ApprovalShown' BY <1>1 DEF AnswerInv, Removed, Waits, ApprovalShown
<1> QED BY <1>4, <1>5, <1>6 DEF AnswerInv

(***************************************************************************)
(* The theorem                                                             *)
(***************************************************************************)
\* Nothing is asked and nobody has answered.
LEMMA InteractionsStart ==
  ASSUME InteractionsInit
  PROVE  AnswerInv
<1> USE DEF InteractionsInit
<1>1. InteractionsTypeOK
  <2>1. RequestTypes
    <3>1. NoRequest \in Entries BY Given
    <3> QED BY <3>1 DEF RequestTypes, Entries
  <2>2. TicketTypes BY Given DEF TicketTypes, Gens
  <2>3. ResponderTypes BY Given DEF ResponderTypes
  <2>4. RunTypes
    <3>1. queue \in Seq(Requests) /\ gate = {} /\ approvals = {} /\ checked = {} OBVIOUS
    <3>2. hostDone \in BOOLEAN /\ live \in BOOLEAN /\ cancelToken \in BOOLEAN OBVIOUS
    <3>3. status \in {"running", "waiting", "cancelling", "terminal"}
          /\ exec \in {"running", "dropped", "cleared", "terminal"}
      OBVIOUS
    <3> HIDE DEF InteractionsInit
    <3> QED BY <3>1, <3>2, <3>3 DEF RunTypes
  <2> QED BY <2>1, <2>2, <2>3, <2>4 DEF InteractionsTypeOK
<1>2. Removed /\ Waits BY DEF Removed, Waits
<1>3. Answers
  <2>1. \A r \in Requests : requests[r].st = "none" BY DEF NoRequest
  <2>2. \A p \in Responders : resp[p].pc = "idle" OBVIOUS
  <2>3. \A g \in Gens : /\ ticket[g].st = "none" /\ ticket[g].req = "none" /\ confirm[g] = "none"
                        /\ completion[g] = "open"
    OBVIOUS
  <2>4. \A g \in Gens : Said[g] = {} BY DEF Said, Causes
  <2>5. shown = {} OBVIOUS
  <2> HIDE DEF InteractionsInit
  <2>6. Generations BY <2>3, <2>4, Given DEF Generations
  <2>7. Begun /\ Untouched /\ Recorded /\ PendingShown /\ ShownLed
    BY <2>1, <2>5 DEF Begun, Untouched, Recorded, PendingShown, ShownLed
  <2>8. Found /\ OneValue /\ Delivers /\ OneLeader /\ EarlyLeads /\ LateLeads /\ LeaderKept
    BY <2>2 DEF Found, OneValue, Delivers, OneLeader, EarlyLeads, LateLeads, LeaderKept, Party, Early, Late
  <2>9. Confirmed BY <2>2, <2>3 DEF Confirmed
  <2> QED BY <2>6, <2>7, <2>8, <2>9 DEF Answers
<1>4. ApprovalShown BY Given DEF ApprovalShown, NoRequest
<1> QED BY <1>1, <1>2, <1>3, <1>4 DEF AnswerInv

LEMMA InteractionsSteps ==
  ASSUME AnswerInv, [InteractionsNext]_interactionsVars
  PROVE  AnswerInv'
<1>1. CASE UNCHANGED interactionsVars
  <2>1. UNCHANGED <<recordVars, waiterVars, runVars, resp>> BY <1>1 DEF interactionsVars
  <2>2. /\ requests' = requests /\ shown' = shown /\ changes' = changes /\ recorded' = recorded
        /\ closing' = closing /\ identified' = identified /\ nextGen' = nextGen /\ ticket' = ticket
        /\ confirm' = confirm /\ completion' = completion /\ producer' = producer
        /\ status' = status /\ approvals' = approvals /\ queue' = queue /\ exec' = exec /\ resp' = resp
    BY <2>1 DEF recordVars, entryVars, waiterVars, runVars
  <2>3. ResponderTypes' BY <2>2 DEF AnswerInv, InteractionsTypeOK, ResponderTypes
  <2>4. InteractionsTypeOK' BY <2>1, <2>3, RespTyped DEF AnswerInv
  <2>5. Answers' BY <2>2, NothingAnswered DEF AnswerInv
  <2>6. Removed' /\ Waits' /\ ApprovalShown' BY <2>2 DEF AnswerInv, Removed, Waits, ApprovalShown
  <2> QED BY <2>4, <2>5, <2>6 DEF AnswerInv
<1>2. ASSUME NEW r \in Requests, Begin(r) \/ CheckOrigin(r) PROVE AnswerInv'
  BY <1>2, BeginKeeps, CheckOriginKeeps
<1>3. ASSUME NEW g \in Gens, ProducerStep(g) PROVE AnswerInv'
  BY <1>3, AnnounceKeeps, PollKeeps, DropProducerKeeps, HostFinishedKeeps, CleanupKeeps DEF ProducerStep
<1>4. ASSUME NEW p \in Responders, NEW d \in Doors, NEW r \in Requests, NEW v \in Responses, Read(p, d, r, v)
      PROVE  AnswerInv'
  BY <1>4, ReadKeeps
<1>5. ASSUME NEW p \in Responders, RespondStep(p) PROVE AnswerInv'
  BY <1>5, ResolveKeeps, StageKeeps, SpawnedKeeps, ProjectKeeps, CommitViewKeeps, ReleaseKeeps,
     PublishResolvedKeeps, AcknowledgeKeeps, FollowKeeps DEF RespondStep
<1>6. CASE HostEnd \/ CancelRun \/ Deadline \/ ExecStep \/ Retire \/ RetireRun \/ CloseClear \/ CloseStep
  BY <1>6, HostEndKeeps, CancelRunKeeps, DeadlineKeeps, ExecEndKeeps, ExecClearKeeps, TakeEventKeeps, SettleKeeps,
     RetireKeeps, RetireRunKeeps, CloseClearKeeps, CloseRemoveKeeps, CloseDropKeeps DEF ExecStep, CloseStep
<1> QED BY <1>1, <1>2, <1>3, <1>4, <1>5, <1>6 DEF InteractionsNext

\* Every variable of the interactions keeps its type.
THEOREM InteractionsAlwaysTyped == InteractionsSpec => []InteractionsTypeOK
<1>1. InteractionsInit => AnswerInv BY InteractionsStart
<1>2. AnswerInv /\ [InteractionsNext]_interactionsVars => AnswerInv' BY InteractionsSteps
<1>3. AnswerInv => InteractionsTypeOK BY DEF AnswerInv
<1> QED BY <1>1, <1>2, <1>3, PTL DEF InteractionsSpec

\* A request has one answer (commit_response, release, publish_resolved_exact,
\* publish_stream, clear_run, clear_exact): whatever order the locks of a response,
\* the cancellation, the deadline and the end of the run, its retention and the
\* close of the session fall in, and for any number of requests, responders and
\* generations, the answer a client is told was taken is the one the tool got or
\* will get, the feed says that the request was resolved before the tool has it,
\* and the snapshots show what can still be answered.
THEOREM OneAnswerAlways == InteractionsSpec => []OneAnswer
<1>1. InteractionsInit => AnswerInv BY InteractionsStart
<1>2. AnswerInv /\ [InteractionsNext]_interactionsVars => AnswerInv' BY InteractionsSteps
<1>3. AnswerInv => OneAnswer
  <2> SUFFICES ASSUME AnswerInv PROVE OneAnswer OBVIOUS
  <2>1. AckedIsDelivered
    <3> SUFFICES ASSUME NEW p \in Responders, resp[p].pc = "done", resp[p].result = "ok"
                 PROVE  ticket[resp[p].gen].st # "failed" /\ ticket[resp[p].gen].val = resp[p].val
      BY DEF AckedIsDelivered, Told
    <3>1. Party(resp[p]) BY DEF Party
    <3>2. resp[p].gen \in Gens BY <3>1, PartyKnows DEF AnswerInv
    <3>3. confirm[resp[p].gen] = "ok" /\ ticket[resp[p].gen].st # "failed"
      BY <3>2 DEF AnswerInv, Answers, Confirmed
    <3> QED BY <3>1, <3>3 DEF AnswerInv, Answers, Delivers
  <2>2. CauseIsTrue
    <3> SUFFICES ASSUME Enabled, NEW g \in Gens, ticket[g].st = "answered" PROVE Causes(g) = {"resolved"}
      BY DEF CauseIsTrue
    <3>1. Said[g] = {"resolved"} BY DEF AnswerInv, Answers, Confirmed
    <3> QED BY <3>1 DEF Said
  <2>3. SnapshotHonest
    BY DEF SnapshotHonest, AnswerInv, Answers, PendingShown, ShownLed, Leads, Leading, Early, Late
  <2> QED BY <2>1, <2>2, <2>3 DEF OneAnswer, AnswerInv
<1> QED BY <1>1, <1>2, <1>3, PTL DEF InteractionsSpec
=============================================================================
