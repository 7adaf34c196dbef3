-------------------------- MODULE GateSteadyProofs ---------------------------
(***************************************************************************)
(* What holds of GateRuntime between requests while the process lives and  *)
(* no audit append raises: inbox, acked set, active set and trail agree.   *)
(* SQLite may lose whatever it is given: its tables are read at a start    *)
(* only.  A crash or an append that raises leaves a handler's writes half  *)
(* done and breaks all of it.  Clients may use ids again, except for what  *)
(* the recipient sees: an id that was acked hides the next tasking under   *)
(* it.                                                                     *)
(***************************************************************************)
EXTENDS GateOnceProofs

Alive == ~ AuditFaults /\ MaxRestarts = 0

NoReuse == Resubmitted = {}

\* The id of a pending proposal, and of the one in hand, has been seen.
IdsSeen ==
  /\ \A c \in CoaId : proposals[c] # None => c \in minted
  /\ Approving => req.root \in minted

\* An id has been seen before it is pending or tasked, and is not both; only
\* a tasked id is acked.
IdsApart ==
  /\ \A c \in CoaId : proposals[c] # None => c \in minted /\ inbox[c] = None
  /\ \A c \in CoaId : inbox[c] # None => c \in minted
  /\ \A c \in acked : inbox[c] # None
  /\ Approving => req.coa \in minted /\ proposals[req.coa] = None
  /\ pc \in {"SealDecision", "Issue"} => inbox[req.coa] = None

\* The unit u of the approval numbered s is still to be issued to.
Owed(s, u) ==
  /\ pc \in {"Issue", "SealTasking"} /\ req.pending.serial = s
  /\ u = Addressee \/ (NavyNext /\ u = req.pending.navy)

\* The proposal numbered s has been issued to u after record i.
IssuedAfter(i, s, u) ==
  \E j \in Positions :
    /\ j > i /\ log[j].act = "tasking_issued"
    /\ log[j].serial = s /\ log[j].units = {u}

\* An approval is carried out, or its handler is about to.
CarriedOutOrOwed ==
  \A i \in Positions : \A u \in log[i].units :
    log[i].act = "gate_decision" /\ log[i].ok =>
      IssuedAfter(i, log[i].serial, u) \/ Owed(log[i].serial, u)

TaskingRecorded(c, s) ==
  \E i \in Positions :
    /\ log[i].act \in {"tasking_issued", "coa_auto_approved"}
    /\ log[i].coa = c /\ log[i].serial = s

\* The handler in hand is about to seal the tasking c, numbered s.
SealingTasking(c, s) ==
  /\ pc = "SealTasking" \/ (pc = "Seal" /\ req.act = "coa_auto_approved")
  /\ req.coa = c /\ req.pending.serial = s

TaskingSealedOrInHand ==
  \A c \in CoaId : inbox[c] # None =>
    TaskingRecorded(c, inbox[c].serial) \/ SealingTasking(c, inbox[c].serial)

AckRecorded(c) ==
  \E i \in Positions : log[i].act = "recipient_ack" /\ log[i].coa = c

AckSealedOrInHand ==
  \A c \in acked :
    \/ AckRecorded(c)
    \/ pc \in {"AckInbox", "Seal"} /\ req.act = "recipient_ack" /\ req.coa = c

ActiveOrInHand ==
  \A c \in CoaId : inbox[c] # None =>
    \/ inbox[c].key \in active
    \/ pc \in {"Issue", "SealTasking"} /\ req.pending.key = inbox[c].key

SteadyInv ==
  /\ IdsSeen /\ CarriedOutOrOwed /\ TaskingSealedOrInHand /\ AckSealedOrInHand
  /\ ActiveOrInHand /\ AckHeld

ListedInv == IdsApart /\ PendingIsListed

-----------------------------------------------------------------------------
\* The steps that remain: no crash, and no append that raises.
LEMMA SteadyCases ==
  ASSUME Alive, TypeOK, [Next]_vars
  PROVE  \/ \E c \in CoaId, k \in Key, safe \in BOOLEAN : RejectFast(c, k, safe)
         \/ \E c \in CoaId : \E p, act : QueueNew(c, p, act)
         \/ \E c \in CoaId, u \in Unit, k \in Key, tier \in Tier, quiet \in BOOLEAN :
              AutoApprove(c, u, k, tier, quiet)
         \/ \E c \in CoaId, ok \in BOOLEAN : Decide(c, ok)
         \/ \E c \in CoaId, u \in Unit : Ack(c, u)
         \/ Seal \/ SealDecision \/ IssueTasking \/ SealTasking \/ AckInbox
         \/ Reset \/ ResetInbox \/ ResetAcked \/ UNCHANGED vars
<1>1. ~ Crash
  BY DEF Crash, Alive, TypeOK
<1>2. ~ AuditFail
  BY DEF AuditFail, Alive
<1> QED
  BY <1>1, <1>2, StepCases

\* An id that is submitted is new.
LEMMA SubmittedNew ==
  ASSUME NoReuse, NEW c \in CoaId, Submit(c)
  PROVE  c \notin minted /\ minted' = minted \union {c}
BY DEF Submit, NoReuse

\* A tasking is not the absence of one.
LEMMA TaskingNotNone ==
  ASSUME NEW t \in Tasking
  PROVE  t # None
BY NoneAssumption

\* What IssueTasking puts in the inbox.
LEMMA IssuedTasking ==
  ASSUME TypeOK, InHand, IssueTasking
  PROVE  \E t \in Tasking :
           /\ inbox' = [inbox EXCEPT ![req.coa] = t] /\ req.coa \in CoaId
           /\ t # None /\ t.status = "PENDING_ACK" /\ t.unit = Addressee
           /\ t.serial = req.pending.serial /\ t.key = req.pending.key
<1> DEFINE t == Tasked(req.root, Addressee, req.pending)
<1>1. req \in Request /\ Addressee \in Unit /\ req.coa \in CoaId
  BY DEF IssueTasking, InHand, TypeOK, Request
<1>2. t \in Tasking
  BY <1>1 DEF Tasked, Tasking, Request, Pending
<1>3. /\ t.status = "PENDING_ACK" /\ t.unit = Addressee
      /\ t.serial = req.pending.serial /\ t.key = req.pending.key
  BY DEF Tasked
<1>4. inbox' = [inbox EXCEPT ![req.coa] = t]
  BY DEF IssueTasking, Deliver
<1> HIDE DEF t
<1> QED
  BY <1>1, <1>2, <1>3, <1>4, TaskingNotNone

\* What AutoApprove puts in the inbox.
LEMMA AutoTasking ==
  ASSUME TypeOK, NEW c \in CoaId, NEW u \in Unit, NEW k \in Key, NEW tier \in Tier,
         NEW quiet \in BOOLEAN, AutoApprove(c, u, k, tier, quiet)
  PROVE  \E t \in Tasking :
           /\ inbox' = [inbox EXCEPT ![c] = t]
           /\ t # None /\ t.status = "PENDING_ACK" /\ t.unit = u
           /\ t.serial = serial + 1 /\ t.key = k
<1> DEFINE t == Tasked(c, u, NewPending(u, None, 0, k))
<1>1. t \in Tasking
  BY DEF Tasked, NewPending, Tasking, TypeOK, Tier
<1>2. /\ t.status = "PENDING_ACK" /\ t.unit = u
      /\ t.serial = serial + 1 /\ t.key = k
  BY DEF Tasked, NewPending
<1>3. inbox' = [inbox EXCEPT ![c] = t]
  BY DEF AutoApprove, Deliver
<1> HIDE DEF t
<1> QED
  BY <1>1, <1>2, <1>3, TaskingNotNone

\* What an ack leaves in the inbox.
LEMMA AckedTasking ==
  ASSUME TypeOK, NEW c \in CoaId, NEW u \in Unit, Ack(c, u)
  PROVE  /\ inbox[c] # None
         /\ \E t \in Tasking :
              /\ inbox' = [inbox EXCEPT ![c] = t]
              /\ t # None /\ t.status = "ACKED" /\ t.unit = inbox[c].unit
              /\ t.serial = inbox[c].serial /\ t.key = inbox[c].key
<1> DEFINE t == [inbox[c] EXCEPT !.status = "ACKED"]
<1>1. inbox[c] \in Tasking /\ inbox[c] # None
  BY DEF Ack, Addressed, TypeOK
<1>2. inbox' = [inbox EXCEPT ![c] = t]
  BY DEF Ack, MarkAcked
<1>3. /\ t \in Tasking /\ t.status = "ACKED" /\ t.unit = inbox[c].unit
      /\ t.serial = inbox[c].serial /\ t.key = inbox[c].key
  BY <1>1 DEF Tasking
<1> HIDE DEF t
<1> QED
  BY <1>1, <1>2, <1>3, TaskingNotNone

\* Every step keeps the ids apart.
LEMMA IdsApartStep ==
  ASSUME Alive, NoReuse, TypeOK, InHand, IdsApart, [Next]_vars
  PROVE  IdsApart'
<1> USE DEF IdsApart, Approving
<1>1. ASSUME NEW c \in CoaId, NEW k \in Key, NEW safe \in BOOLEAN,
             RejectFast(c, k, safe)
      PROVE  IdsApart'
  BY <1>1 DEF RejectFast, Submit, memory, control
<1>2. ASSUME NEW c \in CoaId, NEW p, NEW act, QueueNew(c, p, act)
      PROVE  IdsApart'
  <2>1. c \notin minted /\ minted' = minted \union {c}
    BY <1>2, SubmittedNew DEF QueueNew, Queue
  <2>2. /\ proposals' = [proposals EXCEPT ![c] = p] /\ pc' = "Seal"
        /\ UNCHANGED <<inbox, acked>>
    BY <1>2 DEF QueueNew, Queue, Goto
  <2> QED
    BY <2>1, <2>2 DEF TypeOK
<1>3. ASSUME NEW c \in CoaId, NEW u \in Unit, NEW k \in Key, NEW tier \in Tier,
             NEW quiet \in BOOLEAN, AutoApprove(c, u, k, tier, quiet)
      PROVE  IdsApart'
  <2>1. c \notin minted /\ minted' = minted \union {c}
    BY <1>3, SubmittedNew DEF AutoApprove
  <2>2. PICK t \in Tasking : inbox' = [inbox EXCEPT ![c] = t] /\ t # None
    BY <1>3, AutoTasking
  <2>3. pc' = "Seal" /\ UNCHANGED <<proposals, acked>>
    BY <1>3 DEF AutoApprove, Goto
  <2> QED
    BY <2>1, <2>2, <2>3 DEF TypeOK
<1>4. ASSUME NEW c \in CoaId, NEW ok \in BOOLEAN, Decide(c, ok)
      PROVE  IdsApart'
  <2>1. /\ proposals[c] # None /\ proposals' = [proposals EXCEPT ![c] = None]
        /\ pc' = "SealDecision" /\ req'.coa = c /\ UNCHANGED <<inbox, acked, minted>>
    BY <1>4 DEF Decide, Withdraw, Goto, history
  <2> QED
    BY <2>1 DEF TypeOK
<1>5. ASSUME NEW c \in CoaId, NEW u \in Unit, Ack(c, u)
      PROVE  IdsApart'
  <2>1. inbox[c] # None
    BY <1>5, AckedTasking
  <2>2. PICK t \in Tasking : inbox' = [inbox EXCEPT ![c] = t] /\ t # None
    BY <1>5, AckedTasking
  <2>3. /\ acked' = acked \union {c} /\ pc' = "AckInbox"
        /\ UNCHANGED <<proposals, minted>>
    BY <1>5 DEF Ack, MarkAcked, Goto, history
  <2> QED
    BY <2>1, <2>2, <2>3 DEF TypeOK
<1>6. CASE IssueTasking
  <2>1. PICK t \in Tasking :
          inbox' = [inbox EXCEPT ![req.coa] = t] /\ req.coa \in CoaId /\ t # None
    BY <1>6, IssuedTasking
  <2>2. /\ pc = "Issue" /\ pc' = "SealTasking" /\ req' = req
        /\ UNCHANGED <<proposals, acked, minted>>
    BY <1>6 DEF IssueTasking, Goto, history
  <2> QED
    BY <2>1, <2>2 DEF TypeOK
<1>7. CASE SealTasking
  <2>1. UNCHANGED <<proposals, inbox, acked>> /\ pc = "SealTasking"
    BY <1>7 DEF SealTasking
  <2>2. CASE ~ NavyNext
    BY <1>7, <2>1, <2>2 DEF SealTasking, Return, Goto
  <2>3. CASE NavyNext
    <3>1. PICK c \in CoaId \ minted :
            minted' = minted \union {c} /\ pc' = "Issue" /\ req' = [req EXCEPT !.coa = c]
      BY <1>7, <2>3 DEF SealTasking, Goto
    <3>2. req'.coa = c
      BY <2>1, <3>1 DEF TypeOK, Request
    <3> QED
      BY <2>1, <3>1, <3>2
  <2> QED
    BY <2>2, <2>3
<1>8. CASE SealDecision
  BY <1>8 DEF SealDecision, Return, Goto, memory, history
<1>9. CASE Seal \/ AckInbox \/ ResetInbox \/ ResetAcked
  BY <1>9 DEF Seal, AckInbox, ResetInbox, ResetAcked, Return, Goto, memory, history
<1>10. CASE Reset
  BY <1>10 DEF Reset, Goto, control, history
<1>11. CASE UNCHANGED vars
  BY <1>11 DEF vars, memory, control, history
<1> QED
  BY <1>1, <1>2, <1>3, <1>4, <1>5, <1>6, <1>7, <1>8, <1>9, <1>10, <1>11,
     SteadyCases

\* Every step keeps IdsSeen.
LEMMA IdsSeenStep ==
  ASSUME Alive, TypeOK, IdsSeen, [Next]_vars
  PROVE  IdsSeen'
<1> USE DEF IdsSeen, Approving
<1>1. ASSUME NEW c \in CoaId, NEW k \in Key, NEW safe \in BOOLEAN,
             RejectFast(c, k, safe)
      PROVE  IdsSeen'
  BY <1>1 DEF RejectFast, Submit, memory, control
<1>2. ASSUME NEW c \in CoaId, NEW p, NEW act, QueueNew(c, p, act)
      PROVE  IdsSeen'
  BY <1>2 DEF QueueNew, Queue, Submit, Goto, TypeOK
<1>3. ASSUME NEW c \in CoaId, NEW u \in Unit, NEW k \in Key, NEW tier \in Tier,
             NEW quiet \in BOOLEAN, AutoApprove(c, u, k, tier, quiet)
      PROVE  IdsSeen'
  BY <1>3 DEF AutoApprove, Submit, Goto
<1>4. ASSUME NEW c \in CoaId, NEW ok \in BOOLEAN, Decide(c, ok)
      PROVE  IdsSeen'
  BY <1>4 DEF Decide, Withdraw, Goto, history, TypeOK
<1>5. ASSUME NEW c \in CoaId, NEW u \in Unit, Ack(c, u)
      PROVE  IdsSeen'
  BY <1>5 DEF Ack, Goto, history
<1>6. CASE IssueTasking \/ SealDecision
  BY <1>6 DEF IssueTasking, SealDecision, Return, Goto, memory, history
<1>7. CASE SealTasking
  <2>1. /\ pc = "SealTasking" /\ req \in Request /\ proposals' = proposals
        /\ minted \subseteq minted'
    BY <1>7 DEF SealTasking, TypeOK
  <2>2. pc' = "idle" \/ req'.root = req.root
    BY <1>7, <2>1 DEF SealTasking, Return, Goto, Request
  <2> QED
    BY <2>1, <2>2
<1>8. CASE Seal \/ AckInbox \/ ResetInbox \/ ResetAcked
  BY <1>8 DEF Seal, AckInbox, ResetInbox, ResetAcked, Return, Goto, memory, history
<1>9. CASE Reset
  BY <1>9 DEF Reset, Goto, control, history
<1>10. CASE UNCHANGED vars
  BY <1>10 DEF vars, memory, control, history
<1> QED
  BY <1>1, <1>2, <1>3, <1>4, <1>5, <1>6, <1>7, <1>8, <1>9, <1>10, SteadyCases

\* The status of a tasking and the acked set change together.
LEMMA ListedStep ==
  ASSUME Alive, NoReuse, TypeOK, InHand, IdsApart, PendingIsListed, [Next]_vars
  PROVE  PendingIsListed'
<1>0. /\ \A c \in CoaId : inbox[c] # None => (inbox[c].status = "PENDING_ACK" <=> c \notin acked)
      /\ (\A c \in CoaId : inbox'[c] # None =>
            (inbox'[c].status = "PENDING_ACK" <=> c \notin acked')) => PendingIsListed'
  BY DEF PendingIsListed, Listed
<1>1. CASE UNCHANGED <<inbox, acked>>
  BY <1>0, <1>1
<1>2. ASSUME NEW c \in CoaId, NEW u \in Unit, NEW k \in Key, NEW tier \in Tier,
             NEW quiet \in BOOLEAN, AutoApprove(c, u, k, tier, quiet)
      PROVE  PendingIsListed'
  <2>1. c \notin minted
    BY <1>2, SubmittedNew DEF AutoApprove
  <2>2. PICK t \in Tasking :
          inbox' = [inbox EXCEPT ![c] = t] /\ t.status = "PENDING_ACK"
    BY <1>2, AutoTasking
  <2>3. c \notin acked /\ acked' = acked
    BY <1>2, <2>1 DEF IdsApart, AutoApprove
  <2> QED
    BY <1>0, <2>2, <2>3 DEF TypeOK
<1>3. ASSUME NEW c \in CoaId, NEW u \in Unit, Ack(c, u)
      PROVE  PendingIsListed'
  <2>1. PICK t \in Tasking : inbox' = [inbox EXCEPT ![c] = t] /\ t.status = "ACKED"
    BY <1>3, AckedTasking
  <2>2. acked' = acked \union {c}
    BY <1>3 DEF Ack, MarkAcked
  <2> QED
    BY <1>0, <2>1, <2>2 DEF TypeOK
<1>4. CASE IssueTasking
  <2>1. PICK t \in Tasking : /\ inbox' = [inbox EXCEPT ![req.coa] = t]
                             /\ req.coa \in CoaId /\ t.status = "PENDING_ACK"
    BY <1>4, IssuedTasking
  <2>2. req.coa \notin acked /\ acked' = acked
    BY <1>4 DEF IssueTasking, IdsApart
  <2> QED
    BY <1>0, <2>1, <2>2 DEF TypeOK
<1>5. CASE Reset
  BY <1>0, <1>5 DEF Reset
<1>6. ASSUME NEW c \in CoaId, NEW p, NEW act, QueueNew(c, p, act)
      PROVE  UNCHANGED <<inbox, acked>>
  BY <1>6 DEF QueueNew, Queue
<1>7. ASSUME \/ \E c \in CoaId, k \in Key, safe \in BOOLEAN : RejectFast(c, k, safe)
             \/ \E c \in CoaId, ok \in BOOLEAN : Decide(c, ok)
      PROVE  UNCHANGED <<inbox, acked>>
  BY <1>7 DEF RejectFast, Decide, memory
<1>8. ASSUME \/ Seal \/ SealDecision \/ SealTasking \/ AckInbox \/ ResetInbox
             \/ ResetAcked \/ UNCHANGED vars
      PROVE  UNCHANGED <<inbox, acked>>
  BY <1>8 DEF Seal, SealDecision, SealTasking, AckInbox, ResetInbox, ResetAcked,
              vars, memory
<1> QED
  BY <1>1, <1>2, <1>3, <1>4, <1>5, <1>6, <1>7, <1>8, SteadyCases

-----------------------------------------------------------------------------
\* The key of a tasking is registered before its handler returns.
LEMMA ActiveStep ==
  ASSUME Alive, TypeOK, InHand, ActiveOrInHand, [Next]_vars
  PROVE  ActiveOrInHand'
<1> USE DEF ActiveOrInHand
<1>1. ASSUME NEW c \in CoaId, NEW u \in Unit, NEW k \in Key, NEW tier \in Tier,
             NEW quiet \in BOOLEAN, AutoApprove(c, u, k, tier, quiet)
      PROVE  ActiveOrInHand'
  <2>1. PICK t \in Tasking : inbox' = [inbox EXCEPT ![c] = t] /\ t.key = k
    BY <1>1, AutoTasking
  <2>2. active' = active \union {c, k} /\ pc = "idle"
    BY <1>1 DEF AutoApprove, RegisterActive
  <2> QED
    BY <2>1, <2>2 DEF TypeOK
<1>2. ASSUME NEW c \in CoaId, NEW u \in Unit, Ack(c, u)
      PROVE  ActiveOrInHand'
  <2>1. inbox[c] # None /\ pc = "idle" /\ active' = active
    BY <1>2, AckedTasking DEF Ack
  <2>2. PICK t \in Tasking : inbox' = [inbox EXCEPT ![c] = t] /\ t.key = inbox[c].key
    BY <1>2, AckedTasking
  <2> QED
    BY <2>1, <2>2 DEF TypeOK
<1>3. CASE IssueTasking
  <2>1. PICK t \in Tasking : /\ inbox' = [inbox EXCEPT ![req.coa] = t]
                             /\ req.coa \in CoaId /\ t.key = req.pending.key
    BY <1>3, IssuedTasking
  <2>2. pc' = "SealTasking" /\ req' = req /\ active' = active
    BY <1>3 DEF IssueTasking, Goto
  <2> QED
    BY <2>1, <2>2 DEF TypeOK
<1>4. CASE SealTasking
  <2>1. inbox' = inbox /\ req \in Request /\ pc = "SealTasking"
    BY <1>4 DEF SealTasking, TypeOK
  <2>2. CASE ~ NavyNext
    <3>1. active' = active \union {req.root, req.pending.key}
      BY <1>4, <2>2 DEF SealTasking, RegisterActive
    <3> QED
      BY <2>1, <3>1
  <2>3. CASE NavyNext
    <3>1. PICK c \in CoaId : pc' = "Issue" /\ req' = [req EXCEPT !.coa = c]
      BY <1>4, <2>3 DEF SealTasking, Goto
    <3>2. req'.pending = req.pending /\ active' = active
      BY <1>4, <2>1, <2>3, <3>1 DEF SealTasking, Request
    <3> QED
      BY <2>1, <3>1, <3>2
  <2> QED
    BY <2>2, <2>3
<1>5. CASE Reset
  BY <1>5 DEF Reset
<1>6. ASSUME pc \notin {"Issue", "SealTasking"}, UNCHANGED <<inbox, active>>
      PROVE  ActiveOrInHand'
  BY <1>6
<1>7. ASSUME NEW c \in CoaId, NEW p, NEW act, QueueNew(c, p, act)
      PROVE  pc = "idle" /\ UNCHANGED <<inbox, active>>
  BY <1>7 DEF QueueNew, Queue
<1>8. ASSUME \/ \E c \in CoaId, k \in Key, safe \in BOOLEAN : RejectFast(c, k, safe)
             \/ \E c \in CoaId, ok \in BOOLEAN : Decide(c, ok)
      PROVE  pc = "idle" /\ UNCHANGED <<inbox, active>>
  BY <1>8 DEF RejectFast, Decide, memory
<1>9. ASSUME Seal \/ SealDecision \/ AckInbox \/ ResetInbox \/ ResetAcked
      PROVE  pc \notin {"Issue", "SealTasking"} /\ UNCHANGED <<inbox, active>>
  BY <1>9 DEF Seal, SealDecision, AckInbox, ResetInbox, ResetAcked, memory
<1>10. CASE UNCHANGED vars
  BY <1>10 DEF vars, memory, control
<1> QED
  BY <1>1, <1>2, <1>3, <1>4, <1>5, <1>6, <1>7, <1>8, <1>9, <1>10, SteadyCases

-----------------------------------------------------------------------------
(* What is sealed stays sealed.                                            *)

Kept == \A i \in Positions : i \in Positions' /\ log'[i] = log[i]

\* Every step keeps the records.
LEMMA RecordsKept ==
  ASSUME TypeOK, InHand, [Next]_vars
  PROVE  Kept
<1>1. CASE log' = log
  BY <1>1 DEF Kept, Positions
<1>2. ASSUME NEW r \in Record, log' = Append(log, r) PROVE Kept
  BY <1>2, AppendExtends DEF Extended, Kept, TypeOK
<1> QED
  BY <1>1, <1>2, TrailStep DEF Grows

\* So what is recorded of taskings, acks and issues stays.
LEMMA RecordedStays ==
  ASSUME Kept
  PROVE  /\ \A c, n : TaskingRecorded(c, n) => TaskingRecorded(c, n)'
         /\ \A c : AckRecorded(c) => AckRecorded(c)'
         /\ \A i, n, u : IssuedAfter(i, n, u) => IssuedAfter(i, n, u)'
<1>1. ASSUME NEW c, NEW n, TaskingRecorded(c, n) PROVE TaskingRecorded(c, n)'
  BY <1>1 DEF Kept, TaskingRecorded
<1>2. ASSUME NEW c, AckRecorded(c) PROVE AckRecorded(c)'
  BY <1>2 DEF Kept, AckRecorded
<1>3. ASSUME NEW i, NEW n, NEW u, IssuedAfter(i, n, u) PROVE IssuedAfter(i, n, u)'
  BY <1>3 DEF Kept, IssuedAfter
<1> QED
  BY <1>1, <1>2, <1>3

\* The record a proposal, an automatic approval or an ack ends with.
LEMMA SealExtends ==
  ASSUME TypeOK, Seal
  PROVE  \E r \in Record : /\ Extended(r) /\ r.act = req.act /\ r.coa = req.coa
                           /\ r.serial = req.pending.serial
<1> DEFINE r == Sealed(req.act, Units(req.pending))
<1>1. req \in Request /\ req.act \in Act /\ req.pending \in Pending
  BY DEF Seal, TypeOK, Request
<1>2. r \in Record
  BY <1>1, UnitsType, SealedType
<1>3. r.act = req.act /\ r.coa = req.coa /\ r.serial = req.pending.serial
  BY DEF Sealed
<1>4. log' = Append(log, r)
  BY DEF Seal
<1> HIDE DEF r
<1> QED
  BY <1>2, <1>3, <1>4, AppendExtends DEF TypeOK

\* The record a tasking ends with, and the COA it names.
LEMMA TaskingNamed ==
  ASSUME TypeOK, InHand, SealTasking
  PROVE  \E r \in Record :
           /\ Extended(r) /\ r.act = "tasking_issued" /\ r.coa = req.coa
           /\ r.serial = req.pending.serial /\ r.units = {Addressee}
<1> DEFINE r == Sealed("tasking_issued", {Addressee})
<1>1. req \in Request /\ "tasking_issued" \in Act /\ Addressee \in Unit
  BY DEF SealTasking, TypeOK, InHand, Act
<1>2. r \in Record
  BY <1>1, SealedType
<1>3. /\ r.act = "tasking_issued" /\ r.coa = req.coa
      /\ r.serial = req.pending.serial /\ r.units = {Addressee}
  BY DEF Sealed
<1>4. log' = Append(log, r)
  BY DEF SealTasking
<1> HIDE DEF r
<1> QED
  BY <1>2, <1>3, <1>4, AppendExtends DEF TypeOK

\* A tasking is sealed before its handler returns.
LEMMA TaskingSealedStep ==
  ASSUME Alive, TypeOK, InHand, TaskingSealedOrInHand, [Next]_vars
  PROVE  TaskingSealedOrInHand'
<1>0. Kept /\ \A c, n : TaskingRecorded(c, n) => TaskingRecorded(c, n)'
  BY RecordsKept, RecordedStays
<1>1. ASSUME NEW c \in CoaId, inbox'[c] # None, inbox[c] # None,
             inbox'[c].serial = inbox[c].serial,
             TaskingRecorded(c, inbox[c].serial)
      PROVE  TaskingRecorded(c, inbox[c].serial)'
  <2>1. PICK n : n = inbox[c].serial /\ n = inbox'[c].serial
    BY <1>1
  <2>2. TaskingRecorded(c, n)'
    BY <1>0, <1>1, <2>1
  <2> QED
    BY <2>1, <2>2 DEF TaskingRecorded
<1>2. ASSUME \A c \in CoaId : inbox'[c] # None =>
               inbox[c] # None /\ inbox'[c].serial = inbox[c].serial,
             \A c, n : ~ SealingTasking(c, n)
      PROVE  TaskingSealedOrInHand'
  BY <1>1, <1>2 DEF TaskingSealedOrInHand
<1>3. ASSUME pc \notin {"SealTasking", "Seal"} PROVE \A c, n : ~ SealingTasking(c, n)
  BY <1>3 DEF SealingTasking
<1>4. ASSUME NEW c \in CoaId, NEW u \in Unit, NEW k \in Key, NEW tier \in Tier,
             NEW quiet \in BOOLEAN, AutoApprove(c, u, k, tier, quiet)
      PROVE  TaskingSealedOrInHand'
  <2>1. PICK t \in Tasking : inbox' = [inbox EXCEPT ![c] = t] /\ t.serial = serial + 1
    BY <1>4, AutoTasking
  <2>2. /\ pc = "idle" /\ pc' = "Seal" /\ req'.act = "coa_auto_approved"
        /\ req'.coa = c /\ req'.pending.serial = serial + 1
    BY <1>4 DEF AutoApprove, Goto, NewPending
  <2>3. inbox'[c].serial = serial + 1 /\ \A d \in CoaId \ {c} : inbox'[d] = inbox[d]
    BY <2>1 DEF TypeOK
  <2>4. SealingTasking(c, inbox[c].serial)'
    BY <2>2, <2>3 DEF SealingTasking
  <2>5. ASSUME NEW d \in CoaId \ {c}, inbox'[d] # None
        PROVE  TaskingRecorded(d, inbox[d].serial)'
    <3>1. TaskingRecorded(d, inbox[d].serial)
      BY <1>3, <2>2, <2>3, <2>5 DEF TaskingSealedOrInHand
    <3> QED
      BY <1>1, <2>3, <2>5, <3>1
  <2> QED
    BY <2>4, <2>5 DEF TaskingSealedOrInHand
<1>5. CASE IssueTasking
  <2>1. PICK t \in Tasking : /\ inbox' = [inbox EXCEPT ![req.coa] = t]
                             /\ req.coa \in CoaId /\ t.serial = req.pending.serial
    BY <1>5, IssuedTasking
  <2>2. pc = "Issue" /\ pc' = "SealTasking" /\ req' = req
    BY <1>5 DEF IssueTasking, Goto
  <2>3. PICK c \in CoaId : c = req.coa
    BY <2>1
  <2>4. /\ inbox'[c].serial = req.pending.serial
        /\ \A d \in CoaId \ {c} : inbox'[d] = inbox[d]
    BY <2>1, <2>3 DEF TypeOK
  <2>5. SealingTasking(c, inbox[c].serial)'
    BY <2>2, <2>3, <2>4 DEF SealingTasking
  <2>6. ASSUME NEW d \in CoaId \ {c}, inbox'[d] # None
        PROVE  TaskingRecorded(d, inbox[d].serial)'
    <3>1. TaskingRecorded(d, inbox[d].serial)
      BY <1>3, <2>2, <2>4, <2>6 DEF TaskingSealedOrInHand
    <3> QED
      BY <1>1, <2>4, <2>6, <3>1
  <2> QED
    BY <2>5, <2>6 DEF TaskingSealedOrInHand
<1>6. ASSUME Seal \/ SealTasking PROVE TaskingSealedOrInHand'
  <2>1. inbox' = inbox
    BY <1>6 DEF Seal, SealTasking, memory
  <2>2. ASSUME NEW c \in CoaId, SealingTasking(c, inbox[c].serial)
        PROVE  TaskingRecorded(c, inbox[c].serial)'
    <3>1. PICK r \in Record :
            /\ Extended(r) /\ r.act \in {"tasking_issued", "coa_auto_approved"}
            /\ r.coa = c /\ r.serial = inbox[c].serial
      BY <1>6, <2>2, SealExtends, TaskingNamed DEF Seal, SealTasking, SealingTasking
    <3> QED
      BY <2>1, <3>1 DEF Extended, TaskingRecorded
  <2> QED
    BY <1>1, <2>1, <2>2 DEF TaskingSealedOrInHand
<1>7. ASSUME NEW c \in CoaId, NEW u \in Unit, Ack(c, u)
      PROVE  TaskingSealedOrInHand'
  <2>1. inbox[c] # None /\ pc = "idle"
    BY <1>7, AckedTasking DEF Ack
  <2>2. PICK t \in Tasking :
          inbox' = [inbox EXCEPT ![c] = t] /\ t.serial = inbox[c].serial
    BY <1>7, AckedTasking
  <2> QED
    BY <1>2, <1>3, <2>1, <2>2 DEF TypeOK
<1>8. CASE Reset
  BY <1>8 DEF Reset, TaskingSealedOrInHand
<1>9. ASSUME NEW c \in CoaId, NEW p, NEW act, QueueNew(c, p, act)
      PROVE  pc = "idle" /\ UNCHANGED inbox
  BY <1>9 DEF QueueNew, Queue
<1>10. ASSUME \/ \E c \in CoaId, k \in Key, safe \in BOOLEAN : RejectFast(c, k, safe)
              \/ \E c \in CoaId, ok \in BOOLEAN : Decide(c, ok)
              \/ SealDecision \/ AckInbox \/ ResetInbox \/ ResetAcked
       PROVE  pc \notin {"SealTasking", "Seal"} /\ UNCHANGED inbox
  BY <1>10 DEF RejectFast, Decide, SealDecision, AckInbox, ResetInbox, ResetAcked,
               memory
<1>11. CASE UNCHANGED vars
  BY <1>11 DEF vars, memory, control, TaskingSealedOrInHand, TaskingRecorded,
               SealingTasking, Positions
<1> QED
  BY <1>2, <1>3, <1>4, <1>5, <1>6, <1>7, <1>8, <1>9, <1>10, <1>11, SteadyCases

\* An ack is sealed before its handler returns.
LEMMA AckSealedStep ==
  ASSUME Alive, TypeOK, InHand, AckSealedOrInHand, [Next]_vars
  PROVE  AckSealedOrInHand'
<1>0. Kept /\ \A c : AckRecorded(c) => AckRecorded(c)'
  BY RecordsKept, RecordedStays
<1>1. ASSUME pc \notin {"AckInbox", "Seal"}, acked' \subseteq acked
      PROVE  AckSealedOrInHand'
  BY <1>0, <1>1 DEF AckSealedOrInHand
<1>2. ASSUME NEW c \in CoaId, NEW u \in Unit, Ack(c, u)
      PROVE  AckSealedOrInHand'
  <2>1. /\ pc = "idle" /\ pc' = "AckInbox" /\ req'.coa = c
        /\ req'.act = "recipient_ack" /\ acked' = acked \union {c}
    BY <1>2 DEF Ack, MarkAcked, Goto
  <2> QED
    BY <1>0, <2>1 DEF AckSealedOrInHand
<1>3. CASE AckInbox
  BY <1>0, <1>3 DEF AckInbox, Goto, memory, AckSealedOrInHand
<1>4. CASE Seal
  <2>1. PICK r \in Record : Extended(r) /\ r.act = req.act /\ r.coa = req.coa
    BY <1>4, SealExtends
  <2>2. acked' = acked
    BY <1>4 DEF Seal, memory
  <2>3. ASSUME NEW c, req.act = "recipient_ack", req.coa = c PROVE AckRecorded(c)'
    BY <2>1, <2>3 DEF Extended, AckRecorded
  <2> QED
    BY <1>0, <2>2, <2>3 DEF AckSealedOrInHand
<1>5. ASSUME NEW c \in CoaId, NEW p, NEW act, QueueNew(c, p, act)
      PROVE  pc = "idle" /\ UNCHANGED acked
  BY <1>5 DEF QueueNew, Queue
<1>6. ASSUME NEW c \in CoaId, NEW u \in Unit, NEW k \in Key, NEW tier \in Tier,
             NEW quiet \in BOOLEAN, AutoApprove(c, u, k, tier, quiet)
      PROVE  pc = "idle" /\ UNCHANGED acked
  BY <1>6 DEF AutoApprove
<1>7. ASSUME \/ \E c \in CoaId, k \in Key, safe \in BOOLEAN : RejectFast(c, k, safe)
             \/ \E c \in CoaId, ok \in BOOLEAN : Decide(c, ok)
             \/ SealDecision \/ IssueTasking \/ SealTasking \/ ResetInbox \/ ResetAcked
      PROVE  pc \notin {"AckInbox", "Seal"} /\ UNCHANGED acked
  BY <1>7 DEF RejectFast, Decide, SealDecision, IssueTasking, SealTasking,
              ResetInbox, ResetAcked, memory
<1>8. CASE Reset
  BY <1>8 DEF Reset, AckSealedOrInHand
<1>9. CASE UNCHANGED vars
  BY <1>9 DEF vars, memory, control, AckSealedOrInHand, AckRecorded, Positions
<1> QED
  BY <1>1, <1>2, <1>3, <1>4, <1>5, <1>6, <1>7, <1>8, <1>9, SteadyCases

-----------------------------------------------------------------------------
(* An approval is carried out before its handler returns.                  *)

\* A step that seals no decision and finds nothing owed leaves nothing owed.
LEMMA CarriedOutKept ==
  ASSUME Quiet, CarriedOutOrOwed, pc \notin {"Issue", "SealTasking"},
         \A i \in Positions' : log'[i].act = "gate_decision" => i \in Positions
  PROVE  CarriedOutOrOwed'
<1> SUFFICES ASSUME NEW i \in Positions', NEW u \in log'[i].units,
                    log'[i].act = "gate_decision", log'[i].ok
             PROVE  IssuedAfter(i, log[i].serial, u)'
  BY DEF CarriedOutOrOwed
<1>1. PICK n : n = log[i].serial /\ n = log'[i].serial
  BY DEF Quiet
<1>2. IssuedAfter(i, n, u)
  BY <1>1 DEF Quiet, CarriedOutOrOwed, Owed
<1>3. IssuedAfter(i, n, u)'
  BY <1>2, RecordedStays DEF Quiet, Kept
<1> QED
  BY <1>1, <1>3 DEF IssuedAfter

\* A sealed approval is owed to every unit it names.
LEMMA CarriedOutDecided ==
  ASSUME BackedInv, CarriedOutOrOwed, SealDecision
  PROVE  CarriedOutOrOwed'
<1>1. PICK r \in Record :
        /\ Extended(r) /\ r.serial = req.pending.serial
        /\ r.units = Units(req.pending) /\ r.ok = req.ok
  BY DecisionExtends
<1>2. pc = "SealDecision" /\ req.coa = req.root
  BY DEF SealDecision, BackedInv, InHand
<1> SUFFICES ASSUME NEW i \in Positions', NEW u \in log'[i].units,
                    log'[i].act = "gate_decision", log'[i].ok
             PROVE  IssuedAfter(i, log[i].serial, u)' \/ Owed(log[i].serial, u)'
  BY DEF CarriedOutOrOwed
<1>3. CASE i \in Positions
  <2>1. PICK n : n = log[i].serial /\ n = log'[i].serial
    BY <1>1, <1>3 DEF Extended
  <2>2. IssuedAfter(i, n, u)
    BY <1>1, <1>2, <1>3, <2>1 DEF Extended, CarriedOutOrOwed, Owed
  <2>3. Kept
    BY <1>1 DEF Extended, Kept
  <2>4. IssuedAfter(i, n, u)'
    BY <2>2, <2>3, RecordedStays
  <2> QED
    BY <2>1, <2>4 DEF IssuedAfter
<1>4. CASE i \notin Positions
  <2>1. log'[i] = r
    BY <1>1, <1>4 DEF Extended
  <2>2. pc' = "Issue" /\ req' = req
    BY <1>1, <2>1 DEF SealDecision, Goto
  <2>3. u \in {req.pending.unit, req.pending.navy} \ {None}
    BY <1>1, <2>1 DEF Units
  <2>4. u = Addressee \/ (NavyNext /\ u = req.pending.navy)
    BY <1>2, <2>3 DEF Addressee, NavyNext
  <2> QED
    BY <1>1, <2>1, <2>2, <2>4 DEF Owed, Addressee, NavyNext
<1> QED
  BY <1>3, <1>4

\* A sealed tasking is one unit less that is owed.
LEMMA CarriedOutIssued ==
  ASSUME BackedInv, IdsSeen, CarriedOutOrOwed, SealTasking
  PROVE  CarriedOutOrOwed'
<1>1. PICK r \in Record :
        /\ Extended(r) /\ r.act = "tasking_issued"
        /\ r.serial = req.pending.serial /\ r.units = {Addressee}
  BY TaskingExtends
<1>2. pc = "SealTasking" /\ req \in Request
  BY DEF SealTasking, BackedInv, TypeOK
<1>3. Kept
  BY <1>1 DEF Extended, Kept
<1> SUFFICES ASSUME NEW i \in Positions', NEW u \in log'[i].units,
                    log'[i].act = "gate_decision", log'[i].ok
             PROVE  IssuedAfter(i, log[i].serial, u)' \/ Owed(log[i].serial, u)'
  BY DEF CarriedOutOrOwed
<1>4. i \in Positions /\ log'[i] = log[i]
  BY <1>1 DEF Extended
<1>5. PICK n : n = log[i].serial /\ n = log'[i].serial
  BY <1>4
<1>6. CASE IssuedAfter(i, n, u)
  <2>1. IssuedAfter(i, n, u)'
    BY <1>3, <1>6, RecordedStays
  <2> QED
    BY <1>5, <2>1 DEF IssuedAfter
<1>7. CASE ~ IssuedAfter(i, n, u)
  <2>1. Owed(n, u)
    BY <1>4, <1>5, <1>7 DEF CarriedOutOrOwed
  <2>2. CASE u = Addressee
    <3>1. PICK l \in Nat : l = Len(log)
      BY DEF BackedInv, TypeOK
    <3>2. l + 1 \in Positions' /\ log'[l + 1] = r
      BY <1>1, <3>1 DEF Extended
    <3>3. l + 1 > i
      BY <1>4, <3>1 DEF Positions
    <3> QED
      BY <1>1, <1>5, <2>1, <2>2, <3>2, <3>3 DEF IssuedAfter, Owed
  <2>3. CASE NavyNext /\ u = req.pending.navy
    <3>1. PICK c \in CoaId \ minted : pc' = "Issue" /\ req' = [req EXCEPT !.coa = c]
      BY <2>3 DEF SealTasking, Goto
    <3>2. req'.coa = c /\ req'.root = req.root /\ req'.pending = req.pending
      BY <1>2, <3>1 DEF Request
    <3>3. req.root \in minted
      BY <1>2 DEF IdsSeen, Approving
    <3>4. Addressee' = u
      BY <2>3, <3>1, <3>2, <3>3 DEF Addressee
    <3> QED
      BY <1>5, <2>1, <3>1, <3>2, <3>4 DEF Owed
  <2> QED
    BY <2>1, <2>2, <2>3 DEF Owed
<1> QED
  BY <1>6, <1>7

\* Nothing is sealed, and the handler goes on with what it has in hand.
LEMMA CarriedOutSame ==
  ASSUME CarriedOutOrOwed, log' = log, req' = req,
         pc \in {"Issue", "SealTasking"} => pc' \in {"Issue", "SealTasking"}
  PROVE  CarriedOutOrOwed'
<1>1. Kept
  BY DEF Kept, Positions
<1>2. \A n, u : Owed(n, u) => Owed(n, u)'
  BY DEF Owed, Addressee, NavyNext
<1> SUFFICES ASSUME NEW i \in Positions', NEW u \in log'[i].units,
                    log'[i].act = "gate_decision", log'[i].ok
             PROVE  IssuedAfter(i, log[i].serial, u)' \/ Owed(log[i].serial, u)'
  BY DEF CarriedOutOrOwed
<1>3. PICK n : n = log[i].serial /\ n = log'[i].serial
  OBVIOUS
<1>4. i \in Positions /\ u \in log[i].units /\ log[i].act = "gate_decision" /\ log[i].ok
  BY DEF Positions
<1>5. IssuedAfter(i, n, u) \/ Owed(n, u)
  BY <1>3, <1>4 DEF CarriedOutOrOwed
<1>6. IssuedAfter(i, n, u)' \/ Owed(n, u)'
  BY <1>1, <1>2, <1>5, RecordedStays
<1> QED
  BY <1>3, <1>6 DEF IssuedAfter, Owed

\* Every step keeps CarriedOutOrOwed.
LEMMA CarriedOutStep ==
  ASSUME Alive, BackedInv, SteadyInv, [Next]_vars
  PROVE  CarriedOutOrOwed'
<1>1. TypeOK /\ AckHeld /\ CarriedOutOrOwed /\ IdsSeen
  BY DEF BackedInv, SteadyInv
<1>2. CASE SealDecision
  BY <1>1, <1>2, CarriedOutDecided
<1>3. CASE SealTasking
  BY <1>1, <1>3, CarriedOutIssued
<1>4. CASE IssueTasking
  <2>1. pc = "Issue" /\ pc' = "SealTasking" /\ req' = req /\ log' = log
    BY <1>4 DEF IssueTasking, Goto
  <2> QED
    BY <1>1, <2>1, CarriedOutSame
<1>5. CASE UNCHANGED vars
  BY <1>1, <1>5, CarriedOutSame DEF vars, control
<1>6. ASSUME ~ SealDecision, ~ SealTasking, pc \notin {"Issue", "SealTasking"}
      PROVE  CarriedOutOrOwed'
  <2>1. Quiet
    BY <1>1, <1>6, QuietStep
  <2> QED
    BY <1>1, <1>6, <2>1, CarriedOutKept DEF Quiet, Ruling
<1>7. ASSUME NEW c \in CoaId, NEW p, NEW act, QueueNew(c, p, act) PROVE pc = "idle"
  BY <1>7 DEF QueueNew, Queue
<1>8. ASSUME NEW c \in CoaId, NEW u \in Unit, NEW k \in Key, NEW tier \in Tier,
             NEW quiet \in BOOLEAN, AutoApprove(c, u, k, tier, quiet)
      PROVE  pc = "idle"
  BY <1>8 DEF AutoApprove
<1>9. ASSUME \/ \E c \in CoaId, k \in Key, safe \in BOOLEAN : RejectFast(c, k, safe)
             \/ \E c \in CoaId, ok \in BOOLEAN : Decide(c, ok)
             \/ \E c \in CoaId, u \in Unit : Ack(c, u)
             \/ Seal \/ AckInbox \/ Reset \/ ResetInbox \/ ResetAcked
      PROVE  pc \notin {"Issue", "SealTasking"}
  BY <1>9 DEF RejectFast, Decide, Ack, Seal, AckInbox, Reset, ResetInbox, ResetAcked
<1> QED
  BY <1>1, <1>2, <1>3, <1>4, <1>5, <1>6, <1>7, <1>8, <1>9, SteadyCases

-----------------------------------------------------------------------------
\* The invariants hold at the start.
LEMMA SteadyInit == Init => SteadyInv /\ ListedInv
<1> SUFFICES ASSUME Init PROVE SteadyInv /\ ListedInv
  OBVIOUS
<1>1. Positions = {} /\ acked = {} /\ pc = "idle"
  BY DEF Init, Positions
<1>2. \A c \in CoaId : inbox[c] = None /\ proposals[c] = None
  BY DEF Init
<1> QED
  BY <1>1, <1>2
  DEF SteadyInv, IdsSeen, Approving, CarriedOutOrOwed, TaskingSealedOrInHand,
      AckSealedOrInHand, ActiveOrInHand, AckHeld, ListedInv, IdsApart,
      PendingIsListed

\* Every step keeps the invariant.
LEMMA SteadyNext ==
  ASSUME Alive, BackedInv, SteadyInv, [Next]_vars
  PROVE  SteadyInv'
<1>1. TypeOK /\ InHand
  BY DEF BackedInv
<1>2. IdsSeen' /\ ActiveOrInHand' /\ AckHeld'
  BY <1>1, IdsSeenStep, ActiveStep, AckHeldStep DEF SteadyInv
<1>3. TaskingSealedOrInHand' /\ AckSealedOrInHand' /\ CarriedOutOrOwed'
  BY <1>1, TaskingSealedStep, AckSealedStep, CarriedOutStep DEF SteadyInv
<1> QED
  BY <1>2, <1>3 DEF SteadyInv

\* The inductive invariant holds throughout.
THEOREM SteadyAlways ==
  ASSUME Alive
  PROVE  Spec => [](BackedInv /\ SteadyInv)
<1>1. Init => BackedInv /\ SteadyInv
  BY BackedInit, SteadyInit
<1>2. BackedInv /\ SteadyInv /\ [Next]_vars => (BackedInv /\ SteadyInv)'
  BY BackedNext, SteadyNext
<1> QED
  BY <1>1, <1>2, PTL DEF Spec

\* ApprovalCarriedOut: a sealed approval has been issued to every unit it names
\* when gate_approve returns, the navy line included.
THEOREM ApprovalsCarriedOut ==
  ASSUME Alive
  PROVE  Spec => []ApprovalCarriedOut
<1>1. BackedInv /\ SteadyInv => ApprovalCarriedOut
  BY DEF SteadyInv, CarriedOutOrOwed, IssuedAfter, Owed, ApprovalCarriedOut
<1> QED
  BY <1>1, SteadyAlways, PTL

\* TaskingSealed: between requests no tasking stands in the inbox unsealed.
THEOREM TaskingsSealed ==
  ASSUME Alive
  PROVE  Spec => []TaskingSealed
<1>1. BackedInv /\ SteadyInv => TaskingSealed
  BY DEF SteadyInv, TaskingSealedOrInHand, TaskingRecorded, SealingTasking,
         TaskingSealed
<1> QED
  BY <1>1, SteadyAlways, PTL

\* AckSealed: between requests no ack hides a tasking unsealed.
THEOREM AcksSealed ==
  ASSUME Alive
  PROVE  Spec => []AckSealed
<1>1. BackedInv /\ SteadyInv => AckSealed
  BY DEF SteadyInv, AckSealedOrInHand, AckRecorded, AckSealed
<1> QED
  BY <1>1, SteadyAlways, PTL

\* PendingIsListed: a recipient sees exactly its taskings that are not acked,
\* as long as no id is used again.
THEOREM PendingListed ==
  ASSUME Alive, NoReuse
  PROVE  Spec => []PendingIsListed
<1>1. Init => BackedInv /\ ListedInv
  BY BackedInit, SteadyInit
<1>2. BackedInv /\ ListedInv /\ [Next]_vars => (BackedInv /\ ListedInv)'
  BY BackedNext, IdsApartStep, ListedStep DEF ListedInv, BackedInv
<1>3. BackedInv /\ ListedInv => PendingIsListed
  BY DEF ListedInv
<1> QED
  BY <1>1, <1>2, <1>3, PTL DEF Spec

\* OutstandingIsActive: the interlock refuses the key of every tasking that is
\* out.
THEOREM OutstandingActive ==
  ASSUME Alive
  PROVE  Spec => []OutstandingIsActive
<1>1. BackedInv /\ SteadyInv => OutstandingIsActive
  BY DEF SteadyInv, ActiveOrInHand, OutstandingIsActive
<1> QED
  BY <1>1, SteadyAlways, PTL
=============================================================================
