--------------------------- MODULE GateOnceProofs ----------------------------
(***************************************************************************)
(* What holds of GateRuntime as long as SQLite writes what it is given:    *)
(* memory and tables agree between requests, a proposal is decided once    *)
(* and issued once per unit, and the gate implements HumanAuthority.       *)
(* Crashes, audit appends that raise and ids that clients use again are    *)
(* all allowed.  With StoreFaults none of it is true: a row that was not   *)
(* deleted comes back after a restart and is decided again.                *)
(***************************************************************************)
EXTENDS GateRuntimeProofs

\* The trail has a record of this kind for the proposal numbered s.
Has(act, s) == \E i \in Positions : log[i].act = act /\ log[i].serial = s

\* Every table is what memory holds, but for the handlers that write memory
\* before the table they are about to write.
Mirror ==
  /\ dbProposals = proposals
  /\ pc \notin {"ResetInbox", "AckInbox"} => dbInbox = inbox
  /\ pc = "AckInbox" => \A c \in CoaId : c # req.coa => dbInbox[c] = inbox[c]
  /\ pc \notin {"ResetInbox", "ResetAcked"} => dbAcked = acked
  /\ pc = "ResetInbox" => inbox = [c \in CoaId |-> None]
  /\ pc \in {"ResetInbox", "ResetAcked"} => acked = {}

\* The handler of an approval, between withdrawal and last seal.
Approving == pc \in {"SealDecision", "Issue", "SealTasking"}

\* Pending proposals have numbers of their own, which the trail does not know.
PendingFresh ==
  /\ \A c \in CoaId : proposals[c] # None =>
       /\ c \in minted /\ proposals[c].serial <= serial
       /\ ~ Has("gate_decision", proposals[c].serial)
       /\ ~ Has("tasking_issued", proposals[c].serial)
  /\ \A c, d \in CoaId :
       proposals[c] # None /\ proposals[d] # None
         /\ proposals[c].serial = proposals[d].serial => c = d

\* So does the proposal in hand; it is undecided before its seal, and issued to
\* no unit, or to the first one only, before the next tasking is sealed.
InHandFresh ==
  /\ Approving =>
       /\ req.root \in minted /\ req.pending.serial <= serial
       /\ \A c \in CoaId : proposals[c] # None =>
            proposals[c].serial # req.pending.serial
  /\ pc = "SealDecision" =>
       /\ ~ Has("gate_decision", req.pending.serial)
       /\ ~ Has("tasking_issued", req.pending.serial)
  /\ pc \in {"Issue", "SealTasking"} /\ req.coa = req.root =>
       ~ Has("tasking_issued", req.pending.serial)
  /\ pc \in {"Issue", "SealTasking"} /\ req.coa # req.root =>
       /\ req.pending.navy # req.pending.unit
       /\ \A j \in Positions :
            log[j].act = "tasking_issued" /\ log[j].serial = req.pending.serial =>
              log[j].units = {req.pending.unit}

\* The trail has no number from the future.
LogNumbered ==
  \A i \in Positions :
    log[i].act \in {"gate_decision", "tasking_issued"} => log[i].serial <= serial

\* No two records issue one proposal to one unit.
IssuedOnce ==
  \A j, k \in Positions :
    /\ log[j].act = "tasking_issued" /\ log[k].act = "tasking_issued"
    /\ log[k].serial = log[j].serial /\ log[k].units = log[j].units
    => k = j

\* An issue follows an approval that names its unit.
IssueBacked ==
  \A j \in Positions : log[j].act = "tasking_issued" =>
    \E i \in 1 .. (j - 1) :
      ApprovalAt(i, log[j].serial) /\ log[j].units \subseteq log[i].units

\* The kinds of records that only an approval seals.
Ruling == {"gate_decision", "tasking_issued"}

\* The ack in hand answers a tasking that is still in the inbox, and what is in
\* hand outside an approval is not one.
AckHeld ==
  /\ pc \in {"AckInbox", "Seal"} => req.act \notin Ruling
  /\ pc \in {"AckInbox", "Seal"} /\ req.act = "recipient_ack" =>
       /\ inbox[req.coa] # None
       /\ inbox[req.coa].serial = req.pending.serial
       /\ inbox[req.coa].tier = req.pending.tier
       /\ inbox[req.coa].unit = req.pending.unit /\ req.pending.navy = None

OnceInv ==
  /\ Mirror /\ PendingFresh /\ InHandFresh /\ LogNumbered
  /\ DecidedOnce /\ IssuedOnce /\ IssueBacked /\ AckHeld

-----------------------------------------------------------------------------
(* The steps, the three ways to queue a proposal taken together.           *)

QueueNew(c, p, act) ==
  /\ p \in Pending /\ p.serial = serial + 1
  /\ act \in Act \ (Ruling \union {"recipient_ack"})
  /\ Queue(c, p, act)

\* Every step is one of these.
LEMMA StepCases ==
  ASSUME TypeOK, [Next]_vars
  PROVE  \/ \E c \in CoaId, k \in Key, safe \in BOOLEAN : RejectFast(c, k, safe)
         \/ \E c \in CoaId : \E p, act : QueueNew(c, p, act)
         \/ \E c \in CoaId, u \in Unit, k \in Key, tier \in Tier, quiet \in BOOLEAN :
              AutoApprove(c, u, k, tier, quiet)
         \/ \E c \in CoaId, ok \in BOOLEAN : Decide(c, ok)
         \/ \E c \in CoaId, u \in Unit : Ack(c, u)
         \/ Seal \/ SealDecision \/ IssueTasking \/ SealTasking \/ AckInbox
         \/ Reset \/ ResetInbox \/ ResetAcked \/ AuditFail \/ Crash
         \/ UNCHANGED vars
<1>1. ASSUME NEW c \in CoaId, NEW u \in Unit, NEW navy \in Unit \union {None},
             NEW k \in Key, NEW tier \in Tier,
             NEW act \in {"coa_proposed", "guardrail_veto_option_b_queued"},
             Queue(c, NewPending(u, navy, tier, k), act)
      PROVE  QueueNew(c, NewPending(u, navy, tier, k), act)
  <2>1. NewPending(u, navy, tier, k) \in Pending
    BY DEF NewPending, Pending, TypeOK
  <2>2. NewPending(u, navy, tier, k).serial = serial + 1
    BY DEF NewPending
  <2> QED
    BY <1>1, <2>1, <2>2 DEF QueueNew, Act, Ruling
<1>2. ASSUME NEW c \in CoaId, NEW u \in Unit, NEW k \in Key, NEW tier \in Tier,
             NEW quiet \in BOOLEAN, Propose(c, u, k, tier, quiet)
      PROVE  \E p, act : QueueNew(c, p, act)
  <2>1. ResolveTier(tier, quiet) \in Tier
    BY DEF ResolveTier, Tier
  <2> QED
    BY <1>1, <1>2, <2>1 DEF Propose
<1>3. ASSUME NEW c \in CoaId, NEW u \in Unit, NEW k \in Key, VerifyPropose(c, u, k)
      PROVE  \E p, act : QueueNew(c, p, act)
  BY <1>1, <1>3 DEF VerifyPropose, Tier
<1>4. ASSUME NEW c \in CoaId, NEW u \in Unit, NEW navy \in Unit, NEW k \in Key,
             GuardrailQueue(c, u, navy, k)
      PROVE  \E p, act : QueueNew(c, p, act)
  BY <1>1, <1>4 DEF GuardrailQueue, Tier
<1> QED
  BY <1>2, <1>3, <1>4 DEF Next, HandlerStep, Arrival

-----------------------------------------------------------------------------
(* The trail through a step.                                               *)

\* A record is appended: the others stay where they are.
Extended(r) ==
  /\ \A i \in Positions : i \in Positions' /\ i < Len(log) + 1 /\ log'[i] = log[i]
  /\ \A i \in Positions' : i \in Positions \/ (i = Len(log) + 1 /\ log'[i] = r)
  /\ Len(log) + 1 \in Positions' /\ log'[Len(log) + 1] = r

\* Nothing that only an approval seals is appended.
Quiet ==
  /\ \A i \in Positions : i \in Positions' /\ log'[i] = log[i]
  /\ \A i \in Positions' : log'[i].act \in Ruling => i \in Positions

\* Appending a record keeps the others and puts it last.
LEMMA AppendExtends ==
  ASSUME log \in Seq(Record), NEW r \in Record, log' = Append(log, r)
  PROVE  Extended(r)
<1>1. PICK n \in Nat : n = Len(log)
  OBVIOUS
<1>2. /\ Len(log') = n + 1 /\ log'[n + 1] = r
      /\ \A i \in 1 .. n : log'[i] = log[i]
  BY <1>1, Appended
<1>3. Positions = 1 .. n /\ Positions' = 1 .. (n + 1)
  BY <1>1, <1>2 DEF Positions
<1> QED
  BY <1>1, <1>2, <1>3 DEF Extended

\* A step that leaves the trail alone is quiet.
LEMMA QuietSame == ASSUME log' = log PROVE Quiet
BY DEF Quiet, Positions

\* Appending another kind of record is quiet.
LEMMA QuietAppend ==
  ASSUME NEW r, Extended(r), r.act \notin Ruling
  PROVE  Quiet
BY DEF Extended, Quiet

\* A step that is not the seal of a decision or of a tasking is quiet.
LEMMA QuietStep ==
  ASSUME TypeOK, AckHeld, [Next]_vars, ~ SealDecision, ~ SealTasking
  PROVE  Quiet
<1>1. ASSUME NEW c \in CoaId, NEW k \in Key, NEW safe \in BOOLEAN,
             RejectFast(c, k, safe)
      PROVE  Quiet
  <2> DEFINE r == [act |-> "coa_rejected_fast", coa |-> c, root |-> c,
                   units |-> {}, serial |-> 0, tier |-> 1, ok |-> FALSE]
  <2>1. r \in Record /\ r.act \notin Ruling
    BY DEF Record, Act, Tier, Ruling
  <2>2. log' = Append(log, r)
    BY <1>1 DEF RejectFast
  <2> HIDE DEF r
  <2> QED
    BY <2>1, <2>2, AppendExtends, QuietAppend DEF TypeOK
<1>2. CASE Seal
  <2> DEFINE r == Sealed(req.act, Units(req.pending))
  <2>1. req \in Request /\ req.act \in Act /\ req.pending \in Pending
    BY <1>2 DEF Seal, TypeOK, Request
  <2>2. r \in Record
    BY <2>1, UnitsType, SealedType
  <2>3. r.act \notin Ruling
    BY <1>2 DEF Seal, AckHeld, Sealed
  <2>4. log' = Append(log, r)
    BY <1>2 DEF Seal
  <2> HIDE DEF r
  <2> QED
    BY <2>2, <2>3, <2>4, AppendExtends, QuietAppend DEF TypeOK
<1>3. CASE log' = log
  BY <1>3, QuietSame
<1>4. ASSUME NEW c \in CoaId, NEW p, NEW act, QueueNew(c, p, act)
      PROVE  log' = log
  BY <1>4 DEF QueueNew, Queue
<1>5. ASSUME NEW c \in CoaId, NEW u \in Unit, NEW k \in Key, NEW tier \in Tier,
             NEW quiet \in BOOLEAN, AutoApprove(c, u, k, tier, quiet)
      PROVE  log' = log
  BY <1>5 DEF AutoApprove
<1>6. ASSUME NEW c \in CoaId, NEW u \in Unit, Ack(c, u) PROVE log' = log
  BY <1>6 DEF Ack
<1>7. ASSUME NEW c \in CoaId, NEW ok \in BOOLEAN, Decide(c, ok) PROVE log' = log
  BY <1>7 DEF Decide
<1>8. ASSUME \/ IssueTasking \/ AckInbox \/ Reset \/ ResetInbox \/ ResetAcked
             \/ AuditFail \/ Crash \/ UNCHANGED vars
      PROVE  log' = log
  BY <1>8 DEF IssueTasking, AckInbox, Reset, ResetInbox, ResetAcked, AuditFail,
              Crash, vars
<1> QED
  BY <1>1, <1>2, <1>3, <1>4, <1>5, <1>6, <1>7, <1>8, StepCases

\* A quiet step leaves what the trail knows of each number.
LEMMA QuietHas ==
  ASSUME Quiet, NEW act \in Ruling, NEW s
  PROVE  Has(act, s)' <=> Has(act, s)
BY DEF Quiet, Has

\* A quiet step leaves what is said of the trail alone, as numbers only grow.
LEMMA QuietTrail ==
  ASSUME Quiet, TypeOK, TypeOK', serial' >= serial,
         LogNumbered, DecidedOnce, IssuedOnce, IssueBacked
  PROVE  LogNumbered' /\ DecidedOnce' /\ IssuedOnce' /\ IssueBacked'
<1> USE DEF Quiet, Ruling
<1>1. LogNumbered'
  <2> SUFFICES ASSUME NEW i \in Positions', log'[i].act \in Ruling
               PROVE  log'[i].serial <= serial'
    BY DEF LogNumbered
  <2>1. i \in Positions /\ log'[i] = log[i] /\ log[i].serial <= serial
    BY DEF LogNumbered
  <2>2. log[i] \in Record /\ serial \in Nat /\ serial' \in Nat
    BY <2>1 DEF TypeOK, Positions
  <2>3. log[i].serial \in Nat
    BY <2>2 DEF Record
  <2> QED
    BY <2>1, <2>2, <2>3
<1>2. DecidedOnce'
  BY DEF DecidedOnce
<1>3. IssuedOnce'
  BY DEF IssuedOnce
<1>4. IssueBacked'
  <2> SUFFICES ASSUME NEW j \in Positions', log'[j].act = "tasking_issued"
               PROVE  \E i \in 1 .. (j - 1) :
                        /\ log'[i].act = "gate_decision" /\ log'[i].ok
                        /\ log'[i].serial = log'[j].serial
                        /\ log'[j].units \subseteq log'[i].units
    BY DEF IssueBacked, ApprovalAt
  <2>1. j \in Positions /\ log'[j] = log[j]
    OBVIOUS
  <2>2. PICK i \in 1 .. (j - 1) :
          ApprovalAt(i, log[j].serial) /\ log[j].units \subseteq log[i].units
    BY <2>1 DEF IssueBacked
  <2>3. i \in Positions
    BY <2>1, <2>2 DEF Positions, TypeOK
  <2>4. log'[i] = log[i]
    BY <2>3
  <2> QED
    BY <2>1, <2>2, <2>4 DEF ApprovalAt
<1> QED
  BY <1>1, <1>2, <1>3, <1>4

-----------------------------------------------------------------------------
(* Memory and tables.                                                      *)

\* Every handler writes the tables as it writes memory.
LEMMA MirrorStep ==
  ASSUME TypeOK, Mirror, ~ StoreFaults, [Next]_vars
  PROVE  Mirror'
<1> USE DEF Mirror
<1>1. ASSUME NEW c \in CoaId, NEW p, NEW act, QueueNew(c, p, act)
      PROVE  Mirror'
  BY <1>1 DEF QueueNew, Queue, Store, Goto
<1>2. ASSUME NEW c \in CoaId, NEW u \in Unit, NEW k \in Key, NEW tier \in Tier,
             NEW quiet \in BOOLEAN, AutoApprove(c, u, k, tier, quiet)
      PROVE  Mirror'
  BY <1>2 DEF AutoApprove, Deliver, Store, Goto
<1>3. ASSUME NEW c \in CoaId, NEW ok \in BOOLEAN, Decide(c, ok)
      PROVE  Mirror'
  BY <1>3 DEF Decide, Withdraw, Store, Goto
<1>4. ASSUME NEW c \in CoaId, NEW u \in Unit, Ack(c, u)
      PROVE  Mirror'
  <2>1. pc = "idle" /\ pc' = "AckInbox" /\ req'.coa = c
    BY <1>4 DEF Ack, Goto
  <2>2. \A d \in CoaId : d # c => inbox'[d] = inbox[d]
    BY <1>4 DEF Ack, MarkAcked, TypeOK
  <2>3. dbAcked' = acked' /\ dbProposals' = proposals' /\ dbInbox' = dbInbox
    BY <1>4, <2>1 DEF Ack, MarkAcked, Store
  <2> QED
    BY <2>1, <2>2, <2>3
<1>5. CASE AckInbox
  <2>1. req \in Request /\ pc' = "Seal" /\ inbox' = inbox
    BY <1>5 DEF AckInbox, Goto, TypeOK, memory
  <2>2. dbInbox' = [dbInbox EXCEPT ![req.coa] = inbox[req.coa]]
    BY <1>5 DEF AckInbox, Store
  <2>3. dbInbox' = inbox
    BY <1>5, <2>1, <2>2 DEF AckInbox, Request, TypeOK
  <2> QED
    BY <1>5, <2>1, <2>3 DEF AckInbox, memory
<1>6. CASE IssueTasking
  BY <1>6 DEF IssueTasking, Deliver, Store, Goto
<1>7. CASE Seal \/ SealDecision
  BY <1>7 DEF Seal, SealDecision, Return, Goto, memory, disk
<1>8. CASE SealTasking
  <2>1. pc' \in {"Issue", "idle"} /\ pc = "SealTasking"
    BY <1>8 DEF SealTasking, Return, Goto
  <2> QED
    BY <1>8, <2>1 DEF SealTasking, disk
<1>9. CASE Reset
  BY <1>9 DEF Reset, Goto
<1>10. CASE ResetInbox
  BY <1>10 DEF ResetInbox, Goto, memory
<1>11. CASE ResetAcked
  BY <1>11 DEF ResetAcked, Store, Return, Goto, memory
<1>12. CASE AuditFail
  BY <1>12 DEF AuditFail, Sealing, Return, Goto, memory, disk
<1>13. CASE Crash
  BY <1>13 DEF Crash, Return, Goto, disk
<1>14. ASSUME NEW c \in CoaId, NEW k \in Key, NEW safe \in BOOLEAN,
              RejectFast(c, k, safe)
       PROVE  Mirror'
  BY <1>14 DEF RejectFast, memory, disk, control
<1>15. CASE UNCHANGED vars
  BY <1>15 DEF vars, memory, disk, control
<1> QED
  BY <1>1, <1>2, <1>3, <1>4, <1>5, <1>6, <1>7, <1>8, <1>9, <1>10, <1>11, <1>12,
     <1>13, <1>14, <1>15, StepCases

\* What an ack holds in its locals is in the inbox.
LEMMA AckHeldStep ==
  ASSUME TypeOK, AckHeld, [Next]_vars
  PROVE  AckHeld'
<1>1. ASSUME NEW c \in CoaId, NEW p, NEW act, QueueNew(c, p, act)
      PROVE  AckHeld'
  BY <1>1 DEF QueueNew, Queue, Goto, AckHeld
<1>2. ASSUME NEW c \in CoaId, NEW u \in Unit, NEW k \in Key, NEW tier \in Tier,
             NEW quiet \in BOOLEAN, AutoApprove(c, u, k, tier, quiet)
      PROVE  AckHeld'
  BY <1>2 DEF AutoApprove, Goto, AckHeld, Ruling
<1>3. ASSUME pc' \notin {"AckInbox", "Seal"} PROVE AckHeld'
  BY <1>3 DEF AckHeld
<1>4. ASSUME NEW c \in CoaId, NEW u \in Unit, Ack(c, u)
      PROVE  AckHeld'
  <2>1. inbox[c] \in Tasking /\ inbox[c].unit = u /\ inbox[c] # None
    BY <1>4 DEF Ack, Addressed, TypeOK
  <2>2. inbox' = [inbox EXCEPT ![c] = [inbox[c] EXCEPT !.status = "ACKED"]]
    BY <1>4 DEF Ack, MarkAcked
  <2>3. inbox'[c] = [inbox[c] EXCEPT !.status = "ACKED"]
    BY <2>2 DEF TypeOK
  <2>4. /\ inbox'[c].serial = inbox[c].serial /\ inbox'[c].tier = inbox[c].tier
        /\ inbox'[c].unit = u /\ inbox'[c] \in Tasking
    BY <2>1, <2>3 DEF Tasking
  <2>5. inbox'[c] # None
    BY <2>4, NoneAssumption
  <2>6. /\ req'.coa = c /\ req'.act = "recipient_ack" /\ req'.pending.navy = None
        /\ req'.pending.serial = inbox[c].serial /\ req'.pending.tier = inbox[c].tier
        /\ req'.pending.unit = u
    BY <1>4 DEF Ack, Goto
  <2> QED
    BY <2>4, <2>5, <2>6 DEF AckHeld, Ruling
<1>5. CASE AckInbox
  BY <1>5 DEF AckInbox, Goto, memory, AckHeld
<1>6. ASSUME \/ UNCHANGED vars
             \/ \E c \in CoaId, k \in Key, safe \in BOOLEAN : RejectFast(c, k, safe)
      PROVE  AckHeld'
  BY <1>6 DEF vars, RejectFast, memory, control, AckHeld
<1>7. ASSUME NEW c \in CoaId, NEW ok \in BOOLEAN, Decide(c, ok)
      PROVE  pc' \notin {"AckInbox", "Seal"}
  BY <1>7 DEF Decide, Goto
<1>8. ASSUME \/ Seal \/ SealDecision \/ IssueTasking \/ SealTasking \/ ResetInbox
             \/ ResetAcked \/ AuditFail \/ Crash
      PROVE  pc' \notin {"AckInbox", "Seal"}
  BY <1>8 DEF Seal, SealDecision, IssueTasking, SealTasking, ResetInbox,
              ResetAcked, AuditFail, Crash, Return, Goto
<1>9. CASE Reset
  BY <1>3, <1>9 DEF Reset, Goto, control
<1> QED
  BY <1>1, <1>2, <1>3, <1>4, <1>5, <1>6, <1>7, <1>8, <1>9, StepCases

-----------------------------------------------------------------------------
(* The numbers of the pending proposals.                                   *)

\* Numbers are natural numbers.
LEMMA Numbers ==
  ASSUME TypeOK
  PROVE  /\ serial \in Nat
         /\ \A c \in CoaId : proposals[c] # None => proposals[c].serial \in Nat
         /\ req # None => req.pending.serial \in Nat
         /\ \A i \in Positions : log[i] \in Record /\ log[i].serial \in Nat
<1>1. \A i \in Positions : log[i] \in Record
  BY DEF TypeOK, Positions
<1>2. \A r \in Record : r.serial \in Nat
  BY DEF Record
<1>3. \A c \in CoaId : proposals[c] # None => proposals[c] \in Pending
  BY DEF TypeOK
<1>4. \A p \in Pending : p.serial \in Nat
  BY DEF Pending
<1>5. req # None => req.pending \in Pending
  BY DEF TypeOK, Request
<1> QED
  BY <1>1, <1>2, <1>3, <1>4, <1>5 DEF TypeOK

\* Pending proposals that stay, or go, keep their numbers to themselves.
LEMMA PendingKept ==
  ASSUME TypeOK, PendingFresh, Quiet, serial' \in Nat, serial' >= serial,
         minted \subseteq minted',
         \A c \in CoaId : proposals'[c] # None => proposals'[c] = proposals[c]
  PROVE  PendingFresh'
<1>1. ASSUME NEW c \in CoaId, proposals'[c] # None
      PROVE  /\ c \in minted' /\ proposals'[c].serial <= serial'
             /\ ~ Has("gate_decision", proposals[c].serial)'
             /\ ~ Has("tasking_issued", proposals[c].serial)'
  <2>1. PICK n \in Nat : n = proposals[c].serial /\ n = proposals'[c].serial
    BY <1>1, Numbers
  <2>2. n <= serial /\ c \in minted
    BY <1>1, <2>1 DEF PendingFresh
  <2>3. ~ Has("gate_decision", n) /\ ~ Has("tasking_issued", n)
    BY <1>1, <2>1 DEF PendingFresh
  <2>4. ~ Has("gate_decision", n)' /\ ~ Has("tasking_issued", n)'
    BY <2>3, QuietHas DEF Ruling
  <2> QED
    BY <2>1, <2>2, <2>4, Numbers DEF Has
<1>2. ASSUME NEW c \in CoaId, NEW d \in CoaId, proposals'[c] # None,
             proposals'[d] # None, proposals'[c].serial = proposals'[d].serial
      PROVE  c = d
  BY <1>2 DEF PendingFresh
<1> QED
  BY <1>1, <1>2 DEF PendingFresh

\* A new proposal has a number that nothing has.
LEMMA PendingQueued ==
  ASSUME TypeOK, PendingFresh, LogNumbered, Quiet,
         NEW c \in CoaId, NEW p, NEW act, QueueNew(c, p, act)
  PROVE  PendingFresh'
<1>1. /\ proposals' = [proposals EXCEPT ![c] = p] /\ minted' = minted \union {c}
      /\ serial' = serial + 1 /\ p.serial = serial + 1
  BY DEF QueueNew, Queue, Submit
<1>2. PICK n \in Nat : n = serial
  BY Numbers
<1>3. ~ Has("gate_decision", n + 1) /\ ~ Has("tasking_issued", n + 1)
  BY <1>2, Numbers DEF Has, LogNumbered
<1>4. ~ Has("gate_decision", n + 1)' /\ ~ Has("tasking_issued", n + 1)'
  BY <1>3, QuietHas DEF Ruling
<1>5. /\ c \in minted' /\ proposals'[c].serial <= serial'
      /\ ~ Has("gate_decision", proposals[c].serial)'
      /\ ~ Has("tasking_issued", proposals[c].serial)'
  <2>1. proposals'[c].serial = n + 1 /\ serial' = n + 1 /\ c \in minted'
    BY <1>1, <1>2 DEF TypeOK
  <2> QED
    BY <1>4, <2>1 DEF Has
<1>6. ASSUME NEW d \in CoaId, d # c, proposals'[d] # None
      PROVE  /\ d \in minted' /\ proposals'[d].serial <= serial'
             /\ proposals'[d].serial # n + 1
             /\ ~ Has("gate_decision", proposals[d].serial)'
             /\ ~ Has("tasking_issued", proposals[d].serial)'
  <2>1. proposals'[d] = proposals[d] /\ proposals[d] # None
    BY <1>1, <1>6 DEF TypeOK
  <2>2. PICK m \in Nat : m = proposals[d].serial
    BY <2>1, Numbers
  <2>3. m <= n /\ d \in minted
    BY <1>2, <2>1, <2>2 DEF PendingFresh
  <2>4. ~ Has("gate_decision", m) /\ ~ Has("tasking_issued", m)
    BY <2>1, <2>2 DEF PendingFresh
  <2>5. ~ Has("gate_decision", m)' /\ ~ Has("tasking_issued", m)'
    BY <2>4, QuietHas DEF Ruling
  <2> QED
    BY <1>1, <1>2, <2>1, <2>2, <2>3, <2>5 DEF Has
<1>7. ASSUME NEW d \in CoaId, NEW e \in CoaId, proposals'[d] # None,
             proposals'[e] # None, proposals'[d].serial = proposals'[e].serial
      PROVE  d = e
  <2>1. proposals'[c].serial = n + 1
    BY <1>1, <1>2 DEF TypeOK
  <2>2. CASE d = c \/ e = c
    BY <1>6, <1>7, <2>1, <2>2
  <2>3. CASE d # c /\ e # c
    <3>1. proposals'[d] = proposals[d] /\ proposals'[e] = proposals[e]
      BY <1>1, <2>3 DEF TypeOK
    <3> QED
      BY <1>7, <3>1 DEF PendingFresh
  <2> QED
    BY <2>2, <2>3
<1> QED
  BY <1>5, <1>6, <1>7 DEF PendingFresh

\* Sealing a decision appends the record of the proposal in hand.
LEMMA DecisionExtends ==
  ASSUME BackedInv, SealDecision
  PROVE  \E r \in Record :
           /\ Extended(r) /\ r.act = "gate_decision"
           /\ r.serial = req.pending.serial /\ r.units = Units(req.pending)
           /\ r.ok = req.ok
<1> DEFINE r == Sealed("gate_decision", Units(req.pending))
<1>1. req \in Request /\ "gate_decision" \in Act /\ log \in Seq(Record)
  BY DEF SealDecision, BackedInv, TypeOK, Act
<1>2. r \in Record
  BY <1>1, UnitsType, SealedType DEF Request
<1>3. /\ r.act = "gate_decision" /\ r.serial = req.pending.serial
      /\ r.units = Units(req.pending) /\ r.ok = req.ok
  BY DEF Sealed
<1>4. log' = Append(log, r)
  BY DEF SealDecision
<1> HIDE DEF r
<1> QED
  BY <1>1, <1>2, <1>3, <1>4, AppendExtends

\* Sealing a tasking appends the issue of the proposal in hand.
LEMMA TaskingExtends ==
  ASSUME BackedInv, SealTasking
  PROVE  \E r \in Record :
           /\ Extended(r) /\ r.act = "tasking_issued"
           /\ r.serial = req.pending.serial /\ r.units = {Addressee}
<1> DEFINE r == Sealed("tasking_issued", {Addressee})
<1>1. req \in Request /\ "tasking_issued" \in Act /\ Addressee \in Unit
      /\ log \in Seq(Record)
  BY DEF SealTasking, BackedInv, TypeOK, InHand, Act
<1>2. r \in Record
  BY <1>1, SealedType
<1>3. /\ r.act = "tasking_issued" /\ r.serial = req.pending.serial
      /\ r.units = {Addressee}
  BY DEF Sealed
<1>4. log' = Append(log, r)
  BY DEF SealTasking
<1> HIDE DEF r
<1> QED
  BY <1>1, <1>2, <1>3, <1>4, AppendExtends

\* A record leaves what the trail knows of the other numbers.
LEMMA ExtendedHas ==
  ASSUME NEW r, Extended(r), NEW act, NEW s, s # r.serial \/ act # r.act
  PROVE  Has(act, s)' <=> Has(act, s)
BY DEF Extended, Has

\* Sealing a record of a number that is not pending leaves the pending ones.
LEMMA PendingSealed ==
  ASSUME TypeOK, PendingFresh, NEW r, Extended(r), proposals' = proposals,
         serial' = serial, minted \subseteq minted',
         \A c \in CoaId : proposals[c] # None => proposals[c].serial # r.serial
  PROVE  PendingFresh'
<1>1. ASSUME NEW c \in CoaId, proposals'[c] # None
      PROVE  /\ c \in minted' /\ proposals'[c].serial <= serial'
             /\ ~ Has("gate_decision", proposals[c].serial)'
             /\ ~ Has("tasking_issued", proposals[c].serial)'
  <2>1. PICK n : n = proposals[c].serial /\ n = proposals'[c].serial
    OBVIOUS
  <2>2. n <= serial /\ c \in minted /\ n # r.serial
    BY <1>1, <2>1 DEF PendingFresh
  <2>3. ~ Has("gate_decision", n) /\ ~ Has("tasking_issued", n)
    BY <1>1, <2>1 DEF PendingFresh
  <2>4. ~ Has("gate_decision", n)' /\ ~ Has("tasking_issued", n)'
    BY <2>2, <2>3, ExtendedHas
  <2> QED
    BY <2>1, <2>2, <2>4 DEF Has
<1>2. ASSUME NEW c \in CoaId, NEW d \in CoaId, proposals'[c] # None,
             proposals'[d] # None, proposals'[c].serial = proposals'[d].serial
      PROVE  c = d
  BY <1>2 DEF PendingFresh
<1> QED
  BY <1>1, <1>2 DEF PendingFresh

\* Every step keeps the numbers of the pending proposals fresh.
LEMMA PendingFreshStep ==
  ASSUME BackedInv, OnceInv, ~ StoreFaults, [Next]_vars
  PROVE  PendingFresh'
<1>1. TypeOK /\ PendingFresh /\ LogNumbered /\ AckHeld /\ serial \in Nat
  BY DEF BackedInv, TypeOK, OnceInv
<1>2. CASE SealDecision
  <2>1. \A c \in CoaId : proposals[c] # None =>
          proposals[c].serial # req.pending.serial
    BY <1>2 DEF SealDecision, OnceInv, InHandFresh, Approving
  <2>2. proposals' = proposals /\ serial' = serial /\ minted' = minted
    BY <1>2 DEF SealDecision, memory, history
  <2>3. PICK r \in Record : Extended(r) /\ r.serial = req.pending.serial
    BY <1>2, DecisionExtends
  <2> QED
    BY <1>1, <2>1, <2>2, <2>3, PendingSealed
<1>3. CASE SealTasking
  <2>1. \A c \in CoaId : proposals[c] # None =>
          proposals[c].serial # req.pending.serial
    BY <1>3 DEF SealTasking, OnceInv, InHandFresh, Approving
  <2>2. proposals' = proposals /\ serial' = serial /\ minted \subseteq minted'
    BY <1>3 DEF SealTasking
  <2>3. PICK r \in Record : Extended(r) /\ r.serial = req.pending.serial
    BY <1>3, TaskingExtends
  <2> QED
    BY <1>1, <2>1, <2>2, <2>3, PendingSealed
<1>4. ASSUME ~ SealDecision, ~ SealTasking PROVE PendingFresh'
  <2>1. Quiet
    BY <1>1, <1>4, QuietStep
  <2>2. ASSUME NEW c \in CoaId, NEW p, NEW act, QueueNew(c, p, act)
        PROVE  PendingFresh'
    BY <1>1, <2>1, <2>2, PendingQueued
  <2>3. ASSUME serial' \in Nat, serial' >= serial, minted \subseteq minted',
               \A c \in CoaId : proposals'[c] # None => proposals'[c] = proposals[c]
        PROVE  PendingFresh'
    BY <1>1, <2>1, <2>3, PendingKept
  <2>4. ASSUME UNCHANGED <<proposals, serial, minted>> PROVE PendingFresh'
    BY <1>1, <2>3, <2>4
  <2>5. ASSUME NEW c \in CoaId, NEW u \in Unit, NEW k \in Key, NEW tier \in Tier,
               NEW quiet \in BOOLEAN, AutoApprove(c, u, k, tier, quiet)
        PROVE  PendingFresh'
    BY <1>1, <2>3, <2>5 DEF AutoApprove, Submit
  <2>6. ASSUME NEW c \in CoaId, NEW k \in Key, NEW safe \in BOOLEAN,
               RejectFast(c, k, safe)
        PROVE  PendingFresh'
    BY <1>1, <2>3, <2>6 DEF RejectFast, Submit, memory
  <2>7. ASSUME NEW c \in CoaId, NEW ok \in BOOLEAN, Decide(c, ok)
        PROVE  PendingFresh'
    <3>1. proposals' = [proposals EXCEPT ![c] = None]
      BY <2>7 DEF Decide, Withdraw
    <3> QED
      BY <1>1, <2>3, <2>7, <3>1 DEF Decide, history, TypeOK
  <2>8. CASE Reset
    BY <1>1, <2>3, <2>8 DEF Reset, history
  <2>9. CASE Crash
    BY <1>1, <2>3, <2>9 DEF Crash, history, OnceInv, Mirror
  <2>10. ASSUME NEW c \in CoaId, NEW u \in Unit, Ack(c, u) PROVE PendingFresh'
    BY <2>4, <2>10 DEF Ack, history
  <2>11. ASSUME \/ Seal \/ IssueTasking \/ AckInbox \/ ResetInbox \/ ResetAcked
                \/ AuditFail \/ UNCHANGED vars
         PROVE  PendingFresh'
    BY <2>4, <2>11 DEF Seal, IssueTasking, AckInbox, ResetInbox, ResetAcked,
                       AuditFail, vars, memory, history
  <2> QED
    BY <1>1, <1>4, <2>2, <2>5, <2>6, <2>7, <2>8, <2>9, <2>10, <2>11, StepCases
<1> QED
  BY <1>2, <1>3, <1>4

-----------------------------------------------------------------------------
(* The proposal in hand.                                                   *)

\* A decision takes a pending proposal in hand, whose number was its own.
LEMMA InHandDecide ==
  ASSUME TypeOK, PendingFresh, NEW c \in CoaId, NEW ok \in BOOLEAN, Decide(c, ok)
  PROVE  InHandFresh'
<1>1. PICK n \in Nat : n = proposals[c].serial /\ proposals[c] # None
  BY Numbers DEF Decide
<1>2. /\ pc' = "SealDecision" /\ req'.root = c /\ req'.pending.serial = n
      /\ proposals' = [proposals EXCEPT ![c] = None] /\ log' = log
      /\ serial' = serial /\ minted' = minted
  BY <1>1 DEF Decide, Goto, Withdraw, history
<1>3. c \in minted /\ n <= serial
      /\ ~ Has("gate_decision", n) /\ ~ Has("tasking_issued", n)
  BY <1>1 DEF PendingFresh
<1>4. \A d \in CoaId : proposals'[d] # None => proposals'[d].serial # n
  BY <1>1, <1>2 DEF PendingFresh, TypeOK
<1> QED
  BY <1>2, <1>3, <1>4 DEF InHandFresh, Approving, Has, Positions

\* An approval is sealed and its taskings are still to be issued.
LEMMA InHandDecided ==
  ASSUME BackedInv, InHandFresh, SealDecision
  PROVE  InHandFresh'
<1>1. CASE ~ req.ok
  BY <1>1 DEF SealDecision, Return, Goto, InHandFresh, Approving
<1>2. CASE req.ok
  <2>1. PICK n : n = req.pending.serial
    OBVIOUS
  <2>2. /\ pc = "SealDecision" /\ pc' = "Issue" /\ req' = req
        /\ proposals' = proposals /\ serial' = serial /\ minted' = minted
    BY <1>2 DEF SealDecision, Goto, memory, history
  <2>3. req.coa = req.root
    BY <2>2 DEF BackedInv, InHand
  <2>4. PICK r \in Record : Extended(r) /\ r.act = "gate_decision"
    BY DecisionExtends
  <2>5. ~ Has("tasking_issued", n)
    BY <2>1, <2>2 DEF InHandFresh
  <2>6. ~ Has("tasking_issued", n)'
    BY <2>4, <2>5, ExtendedHas
  <2>7. ~ Has("tasking_issued", req.pending.serial)'
    BY <2>1, <2>2, <2>6 DEF Has
  <2> QED
    BY <2>2, <2>3, <2>7 DEF InHandFresh, Approving
<1> QED
  BY <1>1, <1>2

\* The first tasking is sealed and the navy unit's is still to be issued.
LEMMA InHandNavy ==
  ASSUME BackedInv, InHandFresh, SealTasking
  PROVE  InHandFresh'
<1>1. CASE ~ NavyNext
  BY <1>1 DEF SealTasking, Return, Goto, InHandFresh, Approving
<1>2. CASE NavyNext
  <2>1. PICK c \in CoaId \ minted :
          minted' = minted \union {c} /\ pc' = "Issue" /\ req' = [req EXCEPT !.coa = c]
    BY <1>2 DEF SealTasking, Goto
  <2>2. req \in Request /\ pc = "SealTasking"
    BY DEF SealTasking, BackedInv, TypeOK
  <2>3. req'.coa = c /\ req'.root = req.root /\ req'.pending = req.pending
    BY <2>1, <2>2 DEF Request
  <2>4. /\ req.coa = req.root /\ req.pending.navy # req.pending.unit
        /\ Addressee = req.pending.unit
    BY <1>2 DEF NavyNext, Addressee
  <2>5. req.root \in minted /\ ~ Has("tasking_issued", req.pending.serial)
    BY <2>2, <2>4 DEF InHandFresh, Approving
  <2>6. PICK r \in Record : Extended(r) /\ r.units = {Addressee}
    BY TaskingExtends
  <2>7. \A j \in Positions' :
          log'[j].act = "tasking_issued" /\ log'[j].serial = req.pending.serial =>
            log'[j].units = {req.pending.unit}
    BY <2>4, <2>5, <2>6 DEF Has, Extended
  <2>8. proposals' = proposals /\ serial' = serial
    BY DEF SealTasking
  <2>9. /\ req'.root \in minted' /\ req'.pending.serial <= serial'
        /\ \A d \in CoaId : proposals'[d] # None =>
             proposals'[d].serial # req'.pending.serial
    BY <2>1, <2>2, <2>3, <2>5, <2>8 DEF InHandFresh, Approving
  <2>10. req'.coa # req'.root
    BY <2>1, <2>3, <2>5
  <2> QED
    BY <2>1, <2>3, <2>4, <2>7, <2>9, <2>10 DEF InHandFresh, Approving
<1> QED
  BY <1>1, <1>2

\* Every step keeps InHandFresh.
LEMMA InHandFreshStep ==
  ASSUME BackedInv, OnceInv, [Next]_vars
  PROVE  InHandFresh'
<1>1. TypeOK /\ PendingFresh /\ InHandFresh
  BY DEF BackedInv, OnceInv
<1>2. ASSUME ~ Approving' PROVE InHandFresh'
  BY <1>2 DEF InHandFresh, Approving
<1>3. ASSUME NEW c \in CoaId, NEW p, NEW act, QueueNew(c, p, act)
      PROVE  ~ Approving'
  BY <1>3 DEF QueueNew, Queue, Goto, Approving
<1>4. ASSUME NEW c \in CoaId, NEW u \in Unit, NEW k \in Key, NEW tier \in Tier,
             NEW quiet \in BOOLEAN, AutoApprove(c, u, k, tier, quiet)
      PROVE  ~ Approving'
  BY <1>4 DEF AutoApprove, Goto, Approving
<1>5. ASSUME NEW c \in CoaId, NEW k \in Key, NEW safe \in BOOLEAN,
             RejectFast(c, k, safe)
      PROVE  ~ Approving'
  BY <1>5 DEF RejectFast, control, Approving
<1>6. ASSUME NEW c \in CoaId, NEW u \in Unit, Ack(c, u) PROVE ~ Approving'
  BY <1>6 DEF Ack, Goto, Approving
<1>7. ASSUME \/ Seal \/ AckInbox \/ Reset \/ ResetInbox \/ ResetAcked
             \/ AuditFail \/ Crash
      PROVE  ~ Approving'
  BY <1>7 DEF Seal, AckInbox, Reset, ResetInbox, ResetAcked, AuditFail, Crash,
              Return, Goto, control, Approving
<1>8. CASE IssueTasking
  <2>1. /\ pc = "Issue" /\ pc' = "SealTasking" /\ req' = req /\ log' = log
        /\ proposals' = proposals /\ serial' = serial /\ minted' = minted
    BY <1>8 DEF IssueTasking, Goto, history
  <2> QED
    BY <1>1, <2>1 DEF InHandFresh, Approving, Has, Positions
<1>9. CASE UNCHANGED vars
  BY <1>1, <1>9 DEF vars, memory, control, history, InHandFresh, Approving, Has,
                    Positions
<1> QED
  BY <1>1, <1>2, <1>3, <1>4, <1>5, <1>6, <1>7, <1>8, <1>9, StepCases,
     InHandDecide, InHandDecided, InHandNavy

-----------------------------------------------------------------------------
(* What the trail says of decisions and issues.                            *)

\* A sealed decision is the first of its number.
LEMMA TrailDecided ==
  ASSUME BackedInv, OnceInv, SealDecision
  PROVE  LogNumbered' /\ DecidedOnce' /\ IssuedOnce' /\ IssueBacked'
<1>1. PICK r \in Record : /\ Extended(r) /\ r.act = "gate_decision"
                          /\ r.serial = req.pending.serial
  BY DecisionExtends
<1>2. serial' = serial /\ pc = "SealDecision"
  BY DEF SealDecision, history
<1>3. req.pending.serial <= serial /\ ~ Has("gate_decision", req.pending.serial)
  BY <1>2 DEF OnceInv, InHandFresh, Approving
<1>4. LogNumbered'
  BY <1>1, <1>2, <1>3 DEF LogNumbered, OnceInv, Extended
<1>5. DecidedOnce'
  BY <1>1, <1>3 DEF DecidedOnce, OnceInv, Extended, Has
<1>6. IssuedOnce'
  BY <1>1 DEF IssuedOnce, OnceInv, Extended
<1>7. IssueBacked'
  <2> SUFFICES ASSUME NEW j \in Positions', log'[j].act = "tasking_issued"
               PROVE  \E i \in 1 .. (j - 1) :
                        /\ log'[i].act = "gate_decision" /\ log'[i].ok
                        /\ log'[i].serial = log'[j].serial
                        /\ log'[j].units \subseteq log'[i].units
    BY DEF IssueBacked, ApprovalAt
  <2>1. j \in Positions /\ log'[j] = log[j]
    BY <1>1 DEF Extended
  <2>2. PICK i \in 1 .. (j - 1) :
          ApprovalAt(i, log[j].serial) /\ log[j].units \subseteq log[i].units
    BY <2>1 DEF IssueBacked, OnceInv
  <2>3. i \in Positions
    BY <2>1, <2>2 DEF Positions, BackedInv, TypeOK
  <2>4. log'[i] = log[i]
    BY <1>1, <2>3 DEF Extended
  <2> QED
    BY <2>1, <2>2, <2>4 DEF ApprovalAt
<1> QED
  BY <1>4, <1>5, <1>6, <1>7

\* A sealed tasking is the first of its number for its unit, and approved.
LEMMA TrailIssued ==
  ASSUME BackedInv, OnceInv, SealTasking
  PROVE  LogNumbered' /\ DecidedOnce' /\ IssuedOnce' /\ IssueBacked'
<1>1. PICK r \in Record : /\ Extended(r) /\ r.act = "tasking_issued"
                          /\ r.serial = req.pending.serial /\ r.units = {Addressee}
  BY TaskingExtends
<1>2. serial' = serial /\ pc = "SealTasking" /\ req \in Request
  BY DEF SealTasking, BackedInv, TypeOK
<1>3. req.pending.serial <= serial
  BY <1>2 DEF OnceInv, InHandFresh, Approving
<1>4. LogNumbered'
  BY <1>1, <1>2, <1>3 DEF LogNumbered, OnceInv, Extended
<1>5. DecidedOnce'
  BY <1>1 DEF DecidedOnce, OnceInv, Extended
<1>6. \A j \in Positions :
        log[j].act = "tasking_issued" /\ log[j].serial = r.serial =>
          log[j].units # r.units
  <2>1. CASE req.coa = req.root
    BY <1>1, <1>2, <2>1 DEF OnceInv, InHandFresh, Has
  <2>2. CASE req.coa # req.root
    BY <1>1, <1>2, <2>2 DEF OnceInv, InHandFresh, Addressee
  <2> QED
    BY <2>1, <2>2
<1>7. IssuedOnce'
  BY <1>1, <1>6 DEF IssuedOnce, OnceInv, Extended
<1>8. IssueBacked'
  <2> SUFFICES ASSUME NEW j \in Positions', log'[j].act = "tasking_issued"
               PROVE  \E i \in 1 .. (j - 1) :
                        /\ log'[i].act = "gate_decision" /\ log'[i].ok
                        /\ log'[i].serial = log'[j].serial
                        /\ log'[j].units \subseteq log'[i].units
    BY DEF IssueBacked, ApprovalAt
  <2>1. CASE j \in Positions
    <3>1. log'[j] = log[j]
      BY <1>1, <2>1 DEF Extended
    <3>2. PICK i \in 1 .. (j - 1) :
            ApprovalAt(i, log[j].serial) /\ log[j].units \subseteq log[i].units
      BY <2>1, <3>1 DEF IssueBacked, OnceInv
    <3>3. i \in Positions
      BY <2>1, <3>2 DEF Positions, BackedInv, TypeOK
    <3>4. log'[i] = log[i]
      BY <1>1, <3>3 DEF Extended
    <3> QED
      BY <3>1, <3>2, <3>4 DEF ApprovalAt
  <2>2. CASE j \notin Positions
    <3>1. PICK n \in Nat : n = Len(log)
      BY DEF BackedInv, TypeOK
    <3>2. j = n + 1 /\ log'[j] = r
      BY <1>1, <2>2, <3>1 DEF Extended
    <3>3. PICK i \in 1 .. n :
            /\ ApprovalAt(i, req.pending.serial)
            /\ Units(req.pending) \subseteq log[i].units
      BY <1>2, <3>1 DEF BackedInv, InHand, Approved
    <3>4. Addressee \in Units(req.pending)
      BY <1>2, ConstantsAssumption
      DEF BackedInv, InHand, Addressee, Units, Request, Pending
    <3>5. i \in Positions /\ log'[i] = log[i]
      BY <1>1, <3>1, <3>3 DEF Positions, Extended
    <3>6. i \in 1 .. (j - 1)
      BY <3>2, <3>3
    <3> QED
      BY <1>1, <3>2, <3>3, <3>4, <3>5, <3>6 DEF ApprovalAt
  <2> QED
    BY <2>1, <2>2
<1> QED
  BY <1>4, <1>5, <1>7, <1>8

-----------------------------------------------------------------------------
\* The invariant holds at the start.
LEMMA OnceInit == Init => OnceInv
<1> SUFFICES ASSUME Init PROVE OnceInv
  OBVIOUS
<1>1. Positions = {}
  BY DEF Init, Positions
<1>2. Mirror /\ InHandFresh /\ AckHeld
  BY DEF Init, Mirror, InHandFresh, Approving, AckHeld
<1>3. PendingFresh
  BY DEF Init, PendingFresh
<1> QED
  BY <1>1, <1>2, <1>3
  DEF OnceInv, LogNumbered, DecidedOnce, IssuedOnce, IssueBacked

\* Numbers only grow.
LEMMA SerialGrows ==
  ASSUME TypeOK, [Next]_vars
  PROVE  serial' >= serial
<1>1. serial \in Nat
  BY DEF TypeOK
<1>2. ASSUME NEW c \in CoaId, NEW p, NEW act, QueueNew(c, p, act)
      PROVE  serial' = serial + 1
  BY <1>2 DEF QueueNew, Queue
<1>3. ASSUME NEW c \in CoaId, NEW u \in Unit, NEW k \in Key, NEW tier \in Tier,
             NEW quiet \in BOOLEAN, AutoApprove(c, u, k, tier, quiet)
      PROVE  serial' = serial + 1
  BY <1>3 DEF AutoApprove
<1>4. ASSUME NEW c \in CoaId, NEW k \in Key, NEW safe \in BOOLEAN,
             RejectFast(c, k, safe)
      PROVE  serial' = serial
  BY <1>4 DEF RejectFast
<1>5. ASSUME NEW c \in CoaId, NEW ok \in BOOLEAN, Decide(c, ok)
      PROVE  serial' = serial
  BY <1>5 DEF Decide, history
<1>6. ASSUME NEW c \in CoaId, NEW u \in Unit, Ack(c, u) PROVE serial' = serial
  BY <1>6 DEF Ack, history
<1>7. ASSUME \/ Seal \/ SealDecision \/ IssueTasking \/ SealTasking \/ AckInbox
             \/ Reset \/ ResetInbox \/ ResetAcked \/ AuditFail \/ Crash
             \/ UNCHANGED vars
      PROVE  serial' = serial
  BY <1>7 DEF Seal, SealDecision, IssueTasking, SealTasking, AckInbox, Reset,
              ResetInbox, ResetAcked, AuditFail, Crash, vars, history
<1> QED
  BY <1>1, <1>2, <1>3, <1>4, <1>5, <1>6, <1>7, StepCases

\* Every step keeps the invariant, as long as SQLite writes what it is given.
LEMMA OnceNext ==
  ASSUME ~ StoreFaults, BackedInv, OnceInv, [Next]_vars
  PROVE  OnceInv'
<1>1. TypeOK /\ TypeOK'
  BY BackedNext DEF BackedInv
<1>2. Mirror' /\ AckHeld'
  BY <1>1, MirrorStep, AckHeldStep DEF OnceInv
<1>3. PendingFresh' /\ InHandFresh'
  BY PendingFreshStep, InHandFreshStep
<1>4. LogNumbered' /\ DecidedOnce' /\ IssuedOnce' /\ IssueBacked'
  <2>1. CASE SealDecision
    BY <2>1, TrailDecided
  <2>2. CASE SealTasking
    BY <2>2, TrailIssued
  <2>3. CASE ~ SealDecision /\ ~ SealTasking
    <3>1. Quiet
      BY <1>1, <2>3, QuietStep DEF OnceInv
    <3> QED
      BY <1>1, <3>1, SerialGrows, QuietTrail DEF OnceInv
  <2> QED
    BY <2>1, <2>2, <2>3
<1> QED
  BY <1>2, <1>3, <1>4 DEF OnceInv

\* The inductive invariant holds throughout, as long as SQLite writes.
THEOREM OnceAlways ==
  ASSUME ~ StoreFaults
  PROVE  Spec => [](BackedInv /\ OnceInv)
<1>1. Init => BackedInv /\ OnceInv
  BY BackedInit, OnceInit
<1>2. BackedInv /\ OnceInv /\ [Next]_vars => (BackedInv /\ OnceInv)'
  BY BackedNext, OnceNext
<1> QED
  BY <1>1, <1>2, PTL DEF Spec

\* WriteThrough: between requests the tables hold what memory holds, through
\* crashes and appends that raise.
THEOREM TablesFollowMemory ==
  ASSUME ~ StoreFaults
  PROVE  Spec => []WriteThrough
<1>1. BackedInv /\ OnceInv => WriteThrough
  BY DEF OnceInv, Mirror, WriteThrough
<1> QED
  BY <1>1, OnceAlways, PTL

\* DecidedOnce: no crash lets an operator decide one proposal twice.
THEOREM DecidedAtMostOnce ==
  ASSUME ~ StoreFaults
  PROVE  Spec => []DecidedOnce
<1>1. BackedInv /\ OnceInv => DecidedOnce
  BY DEF OnceInv
<1> QED
  BY <1>1, OnceAlways, PTL

\* IssuedOncePerApproval: no crash lets one approval task a unit twice, and
\* nothing is issued that was not approved for that unit.
THEOREM IssuedAtMostOnce ==
  ASSUME ~ StoreFaults
  PROVE  Spec => []IssuedOncePerApproval
<1>1. BackedInv /\ OnceInv => IssuedOncePerApproval
  BY DEF OnceInv, IssuedOnce, IssueBacked, IssuedOncePerApproval
<1> QED
  BY <1>1, OnceAlways, PTL

-----------------------------------------------------------------------------
(* The refinement of HumanAuthority.                                       *)

Decision(r) == [serial |-> r.serial, units |-> r.units, ok |-> r.ok]

\* An ack of a tasking above tier 0.
Confirms(r) == r.act = "recipient_ack" /\ r.tier # 0

\* The abstract state, by membership.
LEMMA AbstractMembers ==
  /\ \A d : d \in SealedDecisions <=>
       \E i \in Positions : log[i].act = "gate_decision" /\ d = Decision(log[i])
  /\ \A x : x \in Confirmed <=>
       \E i \in Positions : Confirms(log[i]) /\
         \E u \in log[i].units : x = [serial |-> log[i].serial, unit |-> u]
  /\ \A x : x \in Circulating <=>
       \E c \in CoaId : \E t \in Held(c) :
         t.tier # 0 /\ x = [serial |-> t.serial, unit |-> t.unit]
<1>1. \A d : d \in SealedDecisions <=>
       \E i \in Positions : log[i].act = "gate_decision" /\ d = Decision(log[i])
  BY DEF SealedDecisions, Decision
<1>2. \A x : x \in Confirmed <=>
       \E i \in Positions : Confirms(log[i]) /\
         \E u \in log[i].units : x = [serial |-> log[i].serial, unit |-> u]
  BY DEF Confirmed, Confirms
<1>3. \A x : x \in Circulating <=>
       \E c \in CoaId : \E t \in Held(c) :
         t.tier # 0 /\ x = [serial |-> t.serial, unit |-> t.unit]
  BY DEF Circulating
<1> QED
  BY <1>1, <1>2, <1>3

\* The same after a step.
LEMMA AbstractMembersNext ==
  /\ \A d : d \in SealedDecisions' <=>
       \E i \in Positions' : log'[i].act = "gate_decision" /\ d = Decision(log'[i])
  /\ \A x : x \in Confirmed' <=>
       \E i \in Positions' : Confirms(log'[i]) /\
         \E u \in log'[i].units : x = [serial |-> log'[i].serial, unit |-> u]
  /\ \A x : x \in Circulating' <=>
       \E c \in CoaId : \E t \in Held(c)' :
         t.tier # 0 /\ x = [serial |-> t.serial, unit |-> t.unit]
<1>1. \A d : d \in SealedDecisions' <=>
       \E i \in Positions' : log'[i].act = "gate_decision" /\ d = Decision(log'[i])
  BY DEF SealedDecisions, Decision
<1>2. \A x : x \in Confirmed' <=>
       \E i \in Positions' : Confirms(log'[i]) /\
         \E u \in log'[i].units : x = [serial |-> log'[i].serial, unit |-> u]
  BY DEF Confirmed, Confirms
<1>3. \A x : x \in Circulating' <=>
       \E c \in CoaId : \E t \in Held(c)' :
         t.tier # 0 /\ x = [serial |-> t.serial, unit |-> t.unit]
  BY DEF Circulating
<1> QED
  BY <1>1, <1>2, <1>3

\* What one appended record adds to the abstract state.
LEMMA AbstractExtended ==
  ASSUME NEW r, Extended(r)
  PROVE  /\ r.act = "gate_decision" =>
              SealedDecisions' = SealedDecisions \union {Decision(r)}
         /\ r.act # "gate_decision" => SealedDecisions' = SealedDecisions
         /\ Confirms(r) =>
              Confirmed' = Confirmed \union
                {[serial |-> r.serial, unit |-> u] : u \in r.units}
         /\ ~ Confirms(r) => Confirmed' = Confirmed
<1>1. \A d : d \in SealedDecisions' <=>
        \/ d \in SealedDecisions
        \/ r.act = "gate_decision" /\ d = Decision(r)
  BY AbstractMembers, AbstractMembersNext DEF Extended
<1>2. \A x : x \in Confirmed' <=>
        \/ x \in Confirmed
        \/ Confirms(r) /\ \E u \in r.units : x = [serial |-> r.serial, unit |-> u]
  BY AbstractMembers, AbstractMembersNext DEF Extended
<1>3. r.act = "gate_decision" =>
        SealedDecisions' = SealedDecisions \union {Decision(r)}
  BY <1>1
<1>4. r.act # "gate_decision" => SealedDecisions' = SealedDecisions
  BY <1>1
<1>5. Confirms(r) => Confirmed' = Confirmed \union
        {[serial |-> r.serial, unit |-> u] : u \in r.units}
  BY <1>2
<1>6. ~ Confirms(r) => Confirmed' = Confirmed
  BY <1>2
<1> QED
  BY <1>3, <1>4, <1>5, <1>6

\* Inboxes left alone circulate what they did.
LEMMA CirculatingSame ==
  ASSUME UNCHANGED <<inbox, dbInbox>>
  PROVE  Circulating' = Circulating
BY DEF Circulating, Held

\* The first states are abstract first states.
LEMMA AuthorityInit == Init => Authority!AInit
<1> SUFFICES ASSUME Init PROVE Authority!AInit
  OBVIOUS
<1>1. Positions = {}
  BY DEF Init, Positions
<1>2. \A c \in CoaId : Held(c) = {}
  BY DEF Init, Held
<1>3. /\ \A d : d \notin SealedDecisions
      /\ \A x : x \notin Confirmed
      /\ \A x : x \notin Circulating
  BY <1>1, <1>2, AbstractMembers
<1> QED
  BY <1>3 DEF Authority!AInit

\* Sealing a decision is a decision on an undecided proposal.
LEMMA AuthorityDecides ==
  ASSUME BackedInv, OnceInv, SealDecision
  PROVE  Authority!ADecide
<1>1. PICK r \in Record : /\ Extended(r) /\ r.act = "gate_decision"
                          /\ r.serial = req.pending.serial
  BY DecisionExtends
<1>2. pc = "SealDecision" /\ UNCHANGED <<inbox, dbInbox>>
  BY DEF SealDecision, memory, disk
<1>3. ~ Has("gate_decision", r.serial)
  BY <1>1, <1>2 DEF OnceInv, InHandFresh
<1>4. \A e \in SealedDecisions : e.serial # r.serial
  BY <1>3, AbstractMembers DEF Has, Decision
<1>5. /\ SealedDecisions' = SealedDecisions \union {Decision(r)}
      /\ Confirmed' = Confirmed /\ Circulating' = Circulating
  BY <1>1, <1>2, AbstractExtended, CirculatingSame DEF Confirms
<1>6. Decision(r).serial = r.serial
  BY DEF Decision
<1> QED
  BY <1>4, <1>5, <1>6 DEF Authority!ADecide

\* Sealing any other record confirms a circulating tasking, or shows nothing.
LEMMA AuthorityConfirms ==
  ASSUME BackedInv, OnceInv, Seal
  PROVE  Authority!AConfirm \/ UNCHANGED Authority!avars
<1> DEFINE r == Sealed(req.act, Units(req.pending))
<1>1. /\ req \in Request /\ req.act \in Act /\ req.pending \in Pending
      /\ log \in Seq(Record) /\ req.coa \in CoaId /\ pc = "Seal"
  BY DEF Seal, BackedInv, TypeOK, Request
<1>2. r \in Record
  BY <1>1, UnitsType, SealedType
<1>3. /\ r.act = req.act /\ r.tier = req.pending.tier
      /\ r.serial = req.pending.serial /\ r.units = Units(req.pending)
  BY DEF Sealed
<1>4. log' = Append(log, r) /\ UNCHANGED <<inbox, dbInbox>>
  BY DEF Seal, memory, disk
<1> HIDE DEF r
<1>5. Extended(r)
  BY <1>1, <1>2, <1>4, AppendExtends
<1>6. r.act # "gate_decision"
  BY <1>1, <1>3 DEF OnceInv, AckHeld, Ruling
<1>7. SealedDecisions' = SealedDecisions /\ Circulating' = Circulating
  BY <1>4, <1>5, <1>6, AbstractExtended, CirculatingSame
<1>8. CASE ~ Confirms(r)
  <2>1. Confirmed' = Confirmed
    BY <1>5, <1>8, AbstractExtended
  <2> QED
    BY <1>7, <2>1 DEF Authority!avars
<1>9. CASE Confirms(r)
  <2> DEFINE t == inbox[req.coa]
             x == [serial |-> t.serial, unit |-> t.unit]
  <2>1. /\ t # None /\ t.serial = r.serial /\ t.tier = r.tier /\ t.tier # 0
        /\ t.unit = req.pending.unit /\ req.pending.navy = None
    BY <1>1, <1>3, <1>9 DEF OnceInv, AckHeld, Confirms
  <2>2. r.units = {t.unit}
    BY <1>1, <1>3, <2>1, ConstantsAssumption DEF Units, Pending
  <2>3. t \in Held(req.coa)
    BY <2>1 DEF Held
  <2>4. x \in Circulating
    BY <1>1, <2>1, <2>3, AbstractMembers
  <2>5. Confirmed' = Confirmed \union {[serial |-> r.serial, unit |-> u] : u \in r.units}
    BY <1>5, <1>9, AbstractExtended
  <2>6. Confirmed' = Confirmed \union {x}
    BY <2>1, <2>2, <2>5
  <2> HIDE DEF x
  <2> QED
    BY <1>7, <2>4, <2>6 DEF Authority!AConfirm
<1> QED
  BY <1>8, <1>9

\* A step that seals nothing puts in circulation only what was granted.
LEMMA AuthorityCirculates ==
  ASSUME BackedInv, [Next]_vars, log' = log
  PROVE  Authority!ACirculate
<1>1. SealedDecisions' = SealedDecisions /\ Confirmed' = Confirmed
  BY DEF SealedDecisions, Confirmed, Positions
<1>2. ASSUME NEW x \in Circulating'
      PROVE  \E d \in SealedDecisions :
               d.ok /\ d.serial = x.serial /\ x.unit \in d.units
  <2>0. PICK c \in CoaId : \E t \in Held(c)' :
          t.tier # 0 /\ x = [serial |-> t.serial, unit |-> t.unit]
    BY <1>2, AbstractMembersNext
  <2>1. PICK t \in Held(c)' :
          t.tier # 0 /\ x = [serial |-> t.serial, unit |-> t.unit]
    BY <2>0
  <2>2. Approved(t.serial, t.root, {t.unit}, Len(log))
    BY <2>1, HeldBacked DEF Backed
  <2>3. PICK i \in Positions :
          ApprovalAt(i, t.serial) /\ t.unit \in log[i].units
    BY <2>2 DEF Approved, Positions
  <2>4. Decision(log[i]) \in SealedDecisions
    BY <2>3, AbstractMembers DEF ApprovalAt
  <2>5. /\ Decision(log[i]).ok /\ Decision(log[i]).serial = x.serial
        /\ x.unit \in Decision(log[i]).units
    BY <2>1, <2>3 DEF Decision, ApprovalAt
  <2> QED
    BY <2>4, <2>5
<1> QED
  BY <1>1, <1>2 DEF Authority!ACirculate, Authority!Granted

\* Every step is an abstract step or shows nothing.
LEMMA AuthorityNext ==
  ASSUME BackedInv, OnceInv, [Next]_vars
  PROVE  [Authority!ANext]_(Authority!avars)
<1>1. CASE SealDecision
  BY <1>1, AuthorityDecides DEF Authority!ANext
<1>2. CASE Seal
  BY <1>2, AuthorityConfirms DEF Authority!ANext
<1>3. CASE SealTasking
  <2>1. PICK r \in Record : Extended(r) /\ r.act = "tasking_issued"
    BY <1>3, TaskingExtends
  <2>2. UNCHANGED <<inbox, dbInbox>>
    BY <1>3 DEF SealTasking, disk
  <2> QED
    BY <2>1, <2>2, AbstractExtended, CirculatingSame DEF Confirms, Authority!avars
<1>4. ASSUME NEW c \in CoaId, NEW k \in Key, NEW safe \in BOOLEAN,
             RejectFast(c, k, safe)
      PROVE  UNCHANGED Authority!avars
  <2> DEFINE r == [act |-> "coa_rejected_fast", coa |-> c, root |-> c,
                   units |-> {}, serial |-> 0, tier |-> 1, ok |-> FALSE]
  <2>1. r \in Record /\ r.act = "coa_rejected_fast"
    BY DEF Record, Act, Tier
  <2>2. log' = Append(log, r) /\ UNCHANGED <<inbox, dbInbox>>
    BY <1>4 DEF RejectFast, memory, disk
  <2> HIDE DEF r
  <2>3. Extended(r)
    BY <2>1, <2>2, AppendExtends DEF BackedInv, TypeOK
  <2> QED
    BY <2>1, <2>2, <2>3, AbstractExtended, CirculatingSame
    DEF Confirms, Authority!avars
<1>5. CASE log' = log
  BY <1>5, AuthorityCirculates DEF Authority!ANext
<1>6. ASSUME NEW c \in CoaId, NEW p, NEW act, QueueNew(c, p, act)
      PROVE  log' = log
  BY <1>6 DEF QueueNew, Queue
<1>7. ASSUME NEW c \in CoaId, NEW u \in Unit, NEW k \in Key, NEW tier \in Tier,
             NEW quiet \in BOOLEAN, AutoApprove(c, u, k, tier, quiet)
      PROVE  log' = log
  BY <1>7 DEF AutoApprove
<1>8. ASSUME NEW c \in CoaId, NEW u \in Unit, Ack(c, u) PROVE log' = log
  BY <1>8 DEF Ack
<1>9. ASSUME NEW c \in CoaId, NEW ok \in BOOLEAN, Decide(c, ok) PROVE log' = log
  BY <1>9 DEF Decide
<1>10. ASSUME \/ IssueTasking \/ AckInbox \/ Reset \/ ResetInbox \/ ResetAcked
              \/ AuditFail \/ Crash \/ UNCHANGED vars
       PROVE  log' = log
  BY <1>10 DEF IssueTasking, AckInbox, Reset, ResetInbox, ResetAcked, AuditFail,
               Crash, vars
<1> QED
  BY <1>1, <1>2, <1>3, <1>4, <1>5, <1>6, <1>7, <1>8, <1>9, <1>10, StepCases
  DEF BackedInv

\* ImplementsAuthority: the gate, with its crashes and appends that raise,
\* implements HumanAuthority.
THEOREM GateImplementsAuthority ==
  ASSUME ~ StoreFaults
  PROVE  Spec => ImplementsAuthority
<1>1. BackedInv /\ OnceInv /\ [Next]_vars => [Authority!ANext]_(Authority!avars)
  BY AuthorityNext
<1> QED
  BY <1>1, AuthorityInit, OnceAlways, PTL
  DEF Spec, ImplementsAuthority, Authority!ASpec
=============================================================================
