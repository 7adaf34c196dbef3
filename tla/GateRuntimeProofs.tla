-------------------------- MODULE GateRuntimeProofs --------------------------
(***************************************************************************)
(* Theorems about GateRuntime, for every set of ids, keys and units, with  *)
(* and without failing stores and appends, and without the bounds of the   *)
(* instances (they are arbitrary naturals here).                           *)
(***************************************************************************)
EXTENDS GateRuntime, TLAPS

USE DEF Tier

\* What appending one record does to a trail.
LEMMA Appended ==
  ASSUME NEW s \in Seq(Record), NEW r \in Record
  PROVE  /\ Append(s, r) \in Seq(Record)
         /\ Len(s) \in Nat
         /\ Len(Append(s, r)) = Len(s) + 1
         /\ \A i \in 1 .. Len(s) : Append(s, r)[i] = s[i]
         /\ Append(s, r)[Len(s) + 1] = r
OBVIOUS

\* The record a running handler seals is a record of the trail.
LEMMA SealedType ==
  ASSUME req \in Request, NEW act \in Act, NEW units \in SUBSET Unit
  PROVE  Sealed(act, units) \in Record
BY DEF Sealed, Record, Request, Pending

\* The units a proposal addresses are units.
LEMMA UnitsType ==
  ASSUME NEW p \in Pending
  PROVE  Units(p) \in SUBSET Unit
BY DEF Units, Pending

\* Queueing a proposal keeps the types.
LEMMA QueueType ==
  ASSUME TypeOK, NEW c \in CoaId, NEW p \in Pending, NEW act \in Act,
         Queue(c, p, act)
  PROVE  TypeOK'
<1>1. [root |-> c, coa |-> c, act |-> act, pending |-> p, ok |-> FALSE] \in Request
  BY DEF Request
<1>2. pc' = "Seal" /\ req' \in Request
  BY <1>1 DEF Queue, Goto
<1>3. proposals' \in [CoaId -> Pending \union {None}]
      /\ dbProposals' \in [CoaId -> Pending \union {None}]
  BY DEF Queue, Store, TypeOK
<1> QED
  BY <1>2, <1>3, NoneAssumption DEF Queue, Submit, TypeOK, Label

-----------------------------------------------------------------------------
\* An approval of proposal s, of COA r and of the units us stands among the
\* first n records.
Approved(s, r, us, n) ==
  \E i \in 1 .. n :
    ApprovalAt(i, s) /\ log[i].root = r /\ us \subseteq log[i].units

\* What a handler may rely on between two of its writes: gate_approve issues
\* only what it has sealed, to a unit; recipient_ack seals only what was issued.
InHand ==
  /\ pc = "SealDecision" => req.coa = req.root
  /\ pc \in {"Issue", "SealTasking"} =>
       /\ Addressee \in Unit
       /\ Approved(req.pending.serial, req.root, Units(req.pending), Len(log))
  /\ /\ pc \in {"AckInbox", "Seal"}
     /\ req.act = "recipient_ack" /\ req.pending.tier # 0
     => Approved(req.pending.serial, req.root, Units(req.pending), Len(log))

\* The inductive invariant: TaskingBacked and AckBacked say nothing of what a
\* handler holds in its locals between the seal and the inbox.
BackedInv == TypeOK /\ InHand /\ TaskingBacked /\ AckBacked

\* Every step keeps the types.
LEMMA TypeStep ==
  ASSUME TypeOK, InHand, [Next]_vars
  PROVE  TypeOK'
<1> USE DEF TypeOK
<1>1. ASSUME NEW c \in CoaId, NEW k \in Key, NEW safe \in BOOLEAN,
             RejectFast(c, k, safe)
      PROVE  TypeOK'
  <2> DEFINE r == [act |-> "coa_rejected_fast", coa |-> c, root |-> c,
                   units |-> {}, serial |-> 0, tier |-> 1, ok |-> FALSE]
  <2>1. r \in Record
    BY DEF Record, Act
  <2>2. log' \in Seq(Record)
    BY <1>1, <2>1, Appended DEF RejectFast
  <2> QED
    BY <1>1, <2>2 DEF RejectFast, Submit, memory, disk, control
<1>2. ASSUME NEW c \in CoaId, NEW k \in Key, NEW u \in Unit, NEW tier \in Tier,
             NEW quiet \in BOOLEAN, Propose(c, u, k, tier, quiet)
      PROVE  TypeOK'
  <2>1. ResolveTier(tier, quiet) \in Tier
    BY DEF ResolveTier
  <2>2. NewPending(u, None, ResolveTier(tier, quiet), k) \in Pending
    BY <2>1 DEF NewPending, Pending
  <2> QED
    BY <1>2, <2>2, QueueType DEF Propose, Act
<1>3. ASSUME NEW c \in CoaId, NEW k \in Key, NEW u \in Unit, NEW tier \in Tier,
             NEW quiet \in BOOLEAN, AutoApprove(c, u, k, tier, quiet)
      PROVE  TypeOK'
  <2> DEFINE p == NewPending(u, None, 0, k)
             r == [root |-> c, coa |-> c, act |-> "coa_auto_approved",
                   pending |-> p, ok |-> TRUE]
             t == Tasked(c, u, p)
  <2>1. p \in Pending
    BY DEF NewPending, Pending
  <2>2. r \in Request
    BY <2>1 DEF Request, Act
  <2>3. t \in Tasking
    BY <2>1 DEF Tasked, Tasking, Pending
  <2>4. inbox' \in [CoaId -> Tasking \union {None}]
        /\ dbInbox' \in [CoaId -> Tasking \union {None}]
    <3> HIDE DEF t
    <3> QED  BY <1>3, <2>3 DEF AutoApprove, Deliver, Store, t
  <2>5. pc' = "Seal" /\ req' = r
    BY <1>3 DEF AutoApprove, Goto
  <2>6. active' \subseteq CoaId \union Key
    BY <1>3 DEF AutoApprove, RegisterActive
  <2>7. /\ UNCHANGED <<proposals, acked, dbProposals, dbAcked, log, restarts>>
        /\ serial' \in Nat /\ minted' \subseteq CoaId
    BY <1>3 DEF AutoApprove, Submit
  <2> HIDE DEF r
  <2>8. req' \in Request /\ req' # None /\ pc' \in Label
    BY <2>2, <2>5, NoneAssumption DEF Label
  <2> QED
    BY <2>4, <2>5, <2>6, <2>7, <2>8
<1>4. ASSUME NEW c \in CoaId, NEW k \in Key, NEW u \in Unit, VerifyPropose(c, u, k)
      PROVE  TypeOK'
  <2>1. NewPending(u, None, 1, k) \in Pending
    BY DEF NewPending, Pending
  <2> QED
    BY <1>4, <2>1, QueueType DEF VerifyPropose, Act
<1>5. ASSUME NEW c \in CoaId, NEW k \in Key, NEW u \in Unit, NEW navy \in Unit,
             GuardrailQueue(c, u, navy, k)
      PROVE  TypeOK'
  <2>1. NewPending(u, navy, 1, k) \in Pending
    BY DEF NewPending, Pending
  <2> QED
    BY <1>5, <2>1, QueueType DEF GuardrailQueue, Act
<1>6. CASE Seal
  <2>1. req \in Request
    BY <1>6 DEF Seal
  <2>2. req.act \in Act /\ req.pending \in Pending
    BY <2>1 DEF Request
  <2>3. log' \in Seq(Record)
    BY <1>6, <2>1, <2>2, UnitsType, SealedType, Appended DEF Seal
  <2> QED
    BY <1>6, <2>3 DEF Seal, Return, Goto, Label, memory, disk, history
<1>7. ASSUME NEW c \in CoaId, NEW ok \in BOOLEAN, Decide(c, ok)
      PROVE  TypeOK'
  <2>1. proposals[c] \in Pending
    BY <1>7 DEF Decide
  <2>2. req' \in Request /\ pc' = "SealDecision"
    BY <1>7, <2>1 DEF Decide, Goto, Request, Act
  <2>3. proposals' \in [CoaId -> Pending \union {None}]
        /\ dbProposals' \in [CoaId -> Pending \union {None}]
    BY <1>7 DEF Decide, Withdraw, Store
  <2> QED
    BY <1>7, <2>2, <2>3, NoneAssumption DEF Decide, Label, history
<1>8. CASE SealDecision
  <2>1. req \in Request
    BY <1>8 DEF SealDecision
  <2>2. req.pending \in Pending /\ "gate_decision" \in Act
    BY <2>1 DEF Request, Act
  <2>3. log' \in Seq(Record)
    BY <1>8, <2>1, <2>2, UnitsType, SealedType, Appended DEF SealDecision
  <2>4. \/ pc' = "Issue" /\ req' = req
        \/ pc' = "idle" /\ req' = None
    BY <1>8 DEF SealDecision, Return, Goto
  <2> QED
    BY <1>8, <2>3, <2>4 DEF SealDecision, Label, memory, disk, history
<1>18. CASE IssueTasking
  <2> DEFINE t == Tasked(req.root, Addressee, req.pending)
  <2>1. req \in Request /\ Addressee \in Unit
    BY <1>18 DEF IssueTasking, InHand
  <2>2. t \in Tasking
    BY <2>1 DEF Tasked, Tasking, Request, Pending
  <2>3. inbox' \in [CoaId -> Tasking \union {None}]
        /\ dbInbox' \in [CoaId -> Tasking \union {None}]
    <3> HIDE DEF t
    <3> QED  BY <1>18, <2>1, <2>2 DEF IssueTasking, Deliver, Store, Request, t
  <2> QED
    BY <1>18, <2>3 DEF IssueTasking, Goto, Label, history
<1>9. CASE SealTasking
  <2>1. req \in Request /\ Addressee \in Unit
    BY <1>9 DEF SealTasking, InHand
  <2>2. "tasking_issued" \in Act /\ {Addressee} \in SUBSET Unit
    BY <2>1 DEF Act
  <2>3. log' \in Seq(Record)
    BY <1>9, <2>1, <2>2, SealedType, Appended DEF SealTasking
  <2>4. \/ pc' = "Issue" /\ req' \in Request
        \/ pc' = "idle" /\ req' = None
    BY <1>9, <2>1 DEF SealTasking, Return, Goto, Request
  <2>5. active' \subseteq CoaId \union Key /\ minted' \subseteq CoaId
    BY <1>9, <2>1 DEF SealTasking, RegisterActive, Request, Pending
  <2> QED
    BY <1>9, <2>3, <2>4, <2>5, NoneAssumption DEF SealTasking, Label, disk
<1>10. CASE AckInbox
  <2>1. req \in Request
    BY <1>10 DEF AckInbox
  <2>2. dbInbox' \in [CoaId -> Tasking \union {None}]
    BY <1>10, <2>1 DEF AckInbox, Store, Request
  <2> QED
    BY <1>10, <2>2 DEF AckInbox, Goto, Label, memory, history
<1>11. ASSUME NEW c \in CoaId, NEW u \in Unit, Ack(c, u)
       PROVE  TypeOK'
  <2>1. inbox[c] \in Tasking
    BY <1>11 DEF Ack, Addressed
  <2>2. inbox' \in [CoaId -> Tasking \union {None}]
    <3>1. [inbox[c] EXCEPT !.status = "ACKED"] \in Tasking
      BY <2>1 DEF Tasking
    <3>2. inbox' = [inbox EXCEPT ![c] = [inbox[c] EXCEPT !.status = "ACKED"]]
      BY <1>11 DEF Ack, MarkAcked
    <3> QED  BY <3>1, <3>2
  <2>3. acked' \subseteq CoaId /\ dbAcked' \subseteq CoaId
    BY <1>11 DEF Ack, MarkAcked, Store
  <2>4. req' \in Request /\ pc' = "AckInbox"
    BY <1>11, <2>1 DEF Ack, Goto, Request, Act, Pending, Tasking
  <2> QED
    BY <1>11, <2>2, <2>3, <2>4, NoneAssumption DEF Ack, Label, history
<1>12. CASE Reset
  BY <1>12 DEF Reset, Goto, Label, control, history
<1>13. CASE ResetInbox
  BY <1>13 DEF ResetInbox, Return, Goto, Label, memory, history
<1>14. CASE ResetAcked
  BY <1>14 DEF ResetAcked, Store, Return, Goto, Label, memory, history
<1>15. CASE AuditFail
  BY <1>15 DEF AuditFail, Return, Goto, Label, memory, disk, history
<1>16. CASE Crash
  BY <1>16 DEF Crash, Return, Goto, Label, disk, history
<1>17. CASE UNCHANGED vars
  BY <1>17 DEF vars, memory, disk, control, history
<1> QED
  BY <1>1, <1>2, <1>3, <1>4, <1>5, <1>6, <1>7, <1>8, <1>9, <1>10, <1>11,
     <1>12, <1>13, <1>14, <1>15, <1>16, <1>17, <1>18
  DEF Next, HandlerStep, Arrival

-----------------------------------------------------------------------------
(* The trail and what stands in it.                                        *)

Grows == log' = log \/ \E r \in Record : log' = Append(log, r)

\* A step leaves the trail as it is or appends a record to it.
LEMMA TrailStep ==
  ASSUME TypeOK, InHand, [Next]_vars
  PROVE  Grows
<1> USE DEF TypeOK, Grows
<1>1. ASSUME NEW c \in CoaId, NEW k \in Key, NEW safe \in BOOLEAN,
             RejectFast(c, k, safe)
      PROVE  Grows
  <2>1. [act |-> "coa_rejected_fast", coa |-> c, root |-> c, units |-> {},
         serial |-> 0, tier |-> 1, ok |-> FALSE] \in Record
    BY DEF Record, Act
  <2> QED
    BY <1>1, <2>1 DEF RejectFast
<1>2. CASE Seal
  <2>1. req \in Request /\ req.act \in Act /\ req.pending \in Pending
    BY <1>2 DEF Seal, Request
  <2> QED
    BY <1>2, <2>1, UnitsType, SealedType DEF Seal
<1>3. CASE SealDecision
  <2>1. req \in Request /\ "gate_decision" \in Act /\ req.pending \in Pending
    BY <1>3 DEF SealDecision, Request, Act
  <2> QED
    BY <1>3, <2>1, UnitsType, SealedType DEF SealDecision
<1>4. CASE SealTasking
  <2>1. req \in Request /\ "tasking_issued" \in Act /\ {Addressee} \in SUBSET Unit
    BY <1>4 DEF SealTasking, Act, InHand
  <2> QED
    BY <1>4, <2>1, SealedType DEF SealTasking
<1>5. CASE UNCHANGED log
  BY <1>5
<1>6. ASSUME NEW c, NEW p, NEW act, Queue(c, p, act)
      PROVE  UNCHANGED log
  BY <1>6 DEF Queue
<1>7. ASSUME NEW c \in CoaId, NEW k \in Key, NEW u \in Unit,
             NEW tier \in Tier, NEW quiet \in BOOLEAN,
             AutoApprove(c, u, k, tier, quiet)
      PROVE  UNCHANGED log
  BY <1>7 DEF AutoApprove
<1>8. ASSUME Arrival PROVE Grows
  BY <1>1, <1>5, <1>6, <1>7, <1>8
  DEF Arrival, Propose, VerifyPropose, GuardrailQueue, Decide, Ack, Reset
<1>9. ASSUME HandlerStep PROVE Grows
  BY <1>2, <1>3, <1>4, <1>5, <1>9
  DEF HandlerStep, IssueTasking, AckInbox, ResetInbox, ResetAcked
<1>10. ASSUME AuditFail \/ Crash \/ UNCHANGED vars PROVE Grows
  BY <1>5, <1>10 DEF AuditFail, Crash, vars
<1> QED
  BY <1>8, <1>9, <1>10 DEF Next

\* What stands among the first n records stands there after the step, and
\* among all the records then.
LEMMA ApprovedStays ==
  ASSUME TypeOK, Grows, NEW s, NEW r, NEW us, NEW n \in 0 .. Len(log),
         Approved(s, r, us, n)
  PROVE  /\ \E i \in 1 .. n : /\ ApprovalAt(i, s)' /\ log'[i].root = r
                              /\ us \subseteq log'[i].units
         /\ Approved(s, r, us, Len(log))'
<1>1. PICK i \in 1 .. n :
        ApprovalAt(i, s) /\ log[i].root = r /\ us \subseteq log[i].units
  BY DEF Approved
<1>2. Len(log) \in Nat /\ i \in 1 .. Len(log)
  BY <1>1 DEF TypeOK
<1>3. log'[i] = log[i] /\ i \in 1 .. Len(log')
  <2>1. CASE log' = log
    BY <1>2, <2>1
  <2>2. ASSUME NEW rec \in Record, log' = Append(log, rec)
        PROVE  log'[i] = log[i] /\ i \in 1 .. Len(log')
    <3>1. log \in Seq(Record)
      BY DEF TypeOK
    <3> QED
      BY <1>2, <2>2, <3>1
  <2> QED
    BY <2>1, <2>2 DEF Grows
<1>4. ApprovalAt(i, s)' /\ log'[i].root = r /\ us \subseteq log'[i].units
  BY <1>1, <1>3 DEF ApprovalAt
<1>5. Approved(s, r, us, Len(log))'
  <2> SUFFICES \E j \in 1 .. Len(log') :
                 /\ ApprovalAt(j, s)' /\ log'[j].root = r
                 /\ us \subseteq log'[j].units
    BY DEF Approved, ApprovalAt
  <2> QED
    BY <1>3, <1>4
<1> QED
  BY <1>1, <1>4, <1>5

\* The approval of a tasking above tier 0.
Backed(t) == t.tier # 0 => Approved(t.serial, t.root, {t.unit}, Len(log))

\* What TaskingBacked says of one tasking, in terms of Approved.
LEMMA BackedHeld ==
  TaskingBacked <=> \A c \in CoaId : \A t \in Held(c) : Backed(t)
BY DEF TaskingBacked, Backed, Approved, Positions

-----------------------------------------------------------------------------
(* What a step finds, and leaves, in the handler's locals.                 *)

\* A step that seals the decision leaves an approval that stands.
LEMMA InHandDecision ==
  ASSUME BackedInv, SealDecision
  PROVE  InHand'
<1>1. req \in Request /\ log \in Seq(Record) /\ Len(log) \in Nat
  BY DEF SealDecision, BackedInv, TypeOK
<1>2. CASE ~ req.ok
  BY <1>2 DEF SealDecision, Return, Goto, InHand
<1>3. CASE req.ok
  <2> DEFINE rec == Sealed("gate_decision", Units(req.pending))
  <2>1. rec \in Record
    BY <1>1, UnitsType, SealedType DEF Request, Act
  <2>2. Len(log') = Len(log) + 1 /\ log'[Len(log) + 1] = rec
    <3> HIDE DEF rec
    <3> QED  BY <1>1, <2>1, Appended DEF SealDecision, rec
  <2>3. /\ rec.act = "gate_decision" /\ rec.ok /\ rec.serial = req.pending.serial
        /\ rec.root = req.root /\ rec.units = Units(req.pending)
    BY <1>3 DEF Sealed
  <2>4. pc' = "Issue" /\ req' = req
    BY <1>3 DEF SealDecision, Goto
  <2>5. Approved(req.pending.serial, req.root, Units(req.pending), Len(log))'
    <3> HIDE DEF rec
    <3> SUFFICES \E j \in 1 .. Len(log') :
                   /\ log'[j].act = "gate_decision" /\ log'[j].ok
                   /\ log'[j].serial = req.pending.serial
                   /\ log'[j].root = req.root
                   /\ Units(req.pending) \subseteq log'[j].units
      BY <2>4 DEF Approved, ApprovalAt, Units
    <3> QED
      BY <1>1, <2>2, <2>3
  <2>6. Addressee' = req.pending.unit /\ Addressee' \in Unit
    BY <1>1, <2>4 DEF SealDecision, BackedInv, InHand, Addressee, Request, Pending
  <2> QED
    BY <2>4, <2>5, <2>6 DEF InHand
<1> QED
  BY <1>2, <1>3

\* Every step keeps InHand.
LEMMA InHandStep ==
  ASSUME BackedInv, [Next]_vars
  PROVE  InHand'
<1>1. ASSUME pc' = "idle" \/ pc' = "ResetInbox" \/ pc' = "ResetAcked"
      PROVE  InHand'
  BY <1>1 DEF InHand
<1>2. ASSUME UNCHANGED <<pc, req, log>>
      PROVE  InHand'
  BY <1>2 DEF BackedInv, InHand, Approved, ApprovalAt, Addressee, Units
<1>3. ASSUME NEW c, NEW p, NEW act, act # "recipient_ack", Queue(c, p, act)
      PROVE  InHand'
  BY <1>3 DEF Queue, Goto, InHand
<1>4. ASSUME NEW c, NEW u, NEW k, NEW tier, NEW quiet,
             AutoApprove(c, u, k, tier, quiet)
      PROVE  InHand'
  <2>1. pc' = "Seal" /\ req'.act = "coa_auto_approved"
    BY <1>4 DEF AutoApprove, Goto
  <2> QED
    BY <2>1 DEF InHand
<1>5. ASSUME NEW c, NEW ok, Decide(c, ok)
      PROVE  InHand'
  <2>1. pc' = "SealDecision" /\ req'.coa = req'.root
    BY <1>5 DEF Decide, Goto
  <2> QED
    BY <2>1 DEF InHand
<1>6. CASE IssueTasking
  <2>1. pc = "Issue" /\ pc' = "SealTasking" /\ req' = req /\ log' = log
    BY <1>6 DEF IssueTasking, Goto
  <2> QED
    BY <2>1 DEF BackedInv, InHand, Approved, ApprovalAt, Addressee, Units
<1>7. CASE AckInbox
  <2>1. pc = "AckInbox" /\ pc' = "Seal" /\ req' = req /\ log' = log
    BY <1>7 DEF AckInbox, Goto
  <2> QED
    BY <2>1 DEF BackedInv, InHand, Approved, ApprovalAt, Addressee, Units
<1>8. CASE SealTasking
  <2>1. CASE ~ NavyNext
    BY <1>1, <1>8, <2>1 DEF SealTasking, Return, Goto
  <2>2. CASE NavyNext
    <3>1. PICK s \in CoaId \ minted : pc' = "Issue" /\ req' = [req EXCEPT !.coa = s]
      BY <1>8, <2>2 DEF SealTasking, Goto
    <3>2. req \in Request /\ Len(log) \in 0 .. Len(log)
      BY <1>8 DEF SealTasking, BackedInv, TypeOK
    <3>3. req'.pending = req.pending /\ req'.root = req.root
      BY <3>1, <3>2 DEF Request
    <3>4. Addressee' \in Unit
      BY <2>2, <3>1, <3>2, <3>3, <1>8
      DEF NavyNext, Addressee, Request, Pending, SealTasking
    <3>5. Grows
      BY TrailStep DEF BackedInv
    <3>6. Approved(req.pending.serial, req.root, Units(req.pending), Len(log))
      BY <1>8 DEF SealTasking, BackedInv, InHand
    <3>7. PICK ser, root, units :
            /\ ser = req.pending.serial /\ root = req.root
            /\ units = Units(req.pending)
      OBVIOUS
    <3>8. Approved(ser, root, units, Len(log))'
      BY <3>2, <3>5, <3>6, <3>7, ApprovedStays DEF BackedInv
    <3>9. Approved(req.pending.serial, req.root, Units(req.pending), Len(log))'
      BY <3>3, <3>7, <3>8 DEF Approved, ApprovalAt, Units
    <3> QED
      BY <3>1, <3>4, <3>9 DEF InHand
  <2> QED
    BY <2>1, <2>2
<1>9. ASSUME NEW c \in CoaId, NEW u \in Unit, Ack(c, u)
      PROVE  InHand'
  <2> DEFINE t == inbox[c]
  <2>1. t \in Tasking /\ t \in Held(c) /\ t.unit = u
    BY <1>9 DEF Ack, Addressed, BackedInv, TypeOK, Held
  <2>2. Backed(t)
    BY <2>1, BackedHeld DEF BackedInv
  <2>3. /\ pc' = "AckInbox" /\ log' = log
        /\ req'.root = t.root /\ req'.pending.serial = t.serial
        /\ req'.pending.tier = t.tier
        /\ req'.pending.unit = u /\ req'.pending.navy = None
    BY <1>9 DEF Ack, Goto
  <2>4. Units(req.pending)' = {t.unit}
    BY <2>1, <2>3, ConstantsAssumption DEF Units
  <2> QED
    BY <2>2, <2>3, <2>4 DEF InHand, Backed, Approved, ApprovalAt
<1> QED
  BY <1>1, <1>2, <1>3, <1>4, <1>5, <1>6, <1>7, <1>8, <1>9, InHandDecision
  DEF Next, HandlerStep, Arrival, RejectFast, Propose, VerifyPropose,
      GuardrailQueue, Seal, Reset, ResetInbox, ResetAcked, AuditFail, Crash,
      Return, Goto, control, vars

-----------------------------------------------------------------------------
(* What a step puts in the inboxes is backed by the trail it starts from.  *)

\* The taskings known before the step, but for a status, are backed.
LEMMA HeldBacked ==
  ASSUME BackedInv, [Next]_vars, NEW c \in CoaId, NEW t \in Held(c)'
  PROVE  Backed(t)
<1>1. \A d \in CoaId : \A x \in Held(d) : Backed(x)
  BY BackedHeld DEF BackedInv
<1>2. CASE UNCHANGED <<inbox, dbInbox>>
  BY <1>1, <1>2 DEF Held
<1>3. ASSUME NEW d \in CoaId, NEW u \in Unit, NEW k \in Key, NEW tier \in Tier,
             NEW quiet \in BOOLEAN, AutoApprove(d, u, k, tier, quiet)
      PROVE  Backed(t)
  <2> DEFINE x == Tasked(d, u, NewPending(u, None, 0, k))
  <2>1. Deliver(d, x)
    BY <1>3 DEF AutoApprove
  <2>2. Backed(x)
    BY DEF Tasked, NewPending, Backed
  <2> HIDE DEF x
  <2>3. t = x \/ t \in Held(c)
    BY <2>1 DEF Deliver, Store, Held, BackedInv, TypeOK
  <2> QED
    BY <1>1, <2>2, <2>3
<1>4. CASE IssueTasking
  <2> DEFINE x == Tasked(req.root, Addressee, req.pending)
  <2>1. Deliver(req.coa, x) /\ req \in Request
    BY <1>4 DEF IssueTasking, BackedInv, TypeOK
  <2>2. Addressee \in Units(req.pending)
    BY <1>4, <2>1, ConstantsAssumption
    DEF IssueTasking, BackedInv, InHand, Addressee, Units, Request, Pending
  <2>3. Backed(x)
    <3>1. Approved(req.pending.serial, req.root, Units(req.pending), Len(log))
      BY <1>4 DEF IssueTasking, BackedInv, InHand
    <3>2. Approved(req.pending.serial, req.root, {Addressee}, Len(log))
      BY <2>2, <3>1 DEF Approved
    <3> QED
      BY <3>2 DEF Backed, Tasked
  <2> HIDE DEF x
  <2>4. t = x \/ t \in Held(c)
    BY <2>1 DEF Deliver, Store, Held, BackedInv, TypeOK, Request
  <2> QED
    BY <1>1, <2>3, <2>4
<1>5. ASSUME NEW d \in CoaId, NEW u \in Unit, Ack(d, u)
      PROVE  Backed(t)
  <2>1. inbox[d] \in Tasking /\ inbox[d] \in Held(d)
    BY <1>5 DEF Ack, Addressed, BackedInv, TypeOK, Held
  <2>2. t \in Held(c) \/ t = [inbox[d] EXCEPT !.status = "ACKED"]
    BY <1>5 DEF Ack, MarkAcked, Held, BackedInv, TypeOK
  <2>3. ASSUME t = [inbox[d] EXCEPT !.status = "ACKED"] PROVE Backed(t)
    <3>1. /\ t.tier = inbox[d].tier /\ t.serial = inbox[d].serial
          /\ t.root = inbox[d].root /\ t.unit = inbox[d].unit
      BY <2>1, <2>3 DEF Tasking
    <3> QED
      BY <1>1, <2>1, <3>1 DEF Backed
  <2> QED
    BY <1>1, <2>2, <2>3
<1>6. CASE AckInbox
  <2>1. req.coa \in CoaId
    BY <1>6 DEF AckInbox, BackedInv, TypeOK, Request
  <2>2. t \in Held(c)
    BY <1>6, <2>1 DEF AckInbox, Store, Held, BackedInv, TypeOK, memory
  <2> QED
    BY <1>1, <2>2
<1>7. CASE Reset \/ ResetInbox \/ Crash
  <2>1. t \in Held(c)
    BY <1>7 DEF Reset, ResetInbox, Crash, Held, memory, disk
  <2> QED
    BY <1>1, <2>1
<1>8. ASSUME NEW d, NEW p, NEW act, Queue(d, p, act)
      PROVE  UNCHANGED <<inbox, dbInbox>>
  BY <1>8 DEF Queue
<1> QED
  BY <1>2, <1>3, <1>4, <1>5, <1>6, <1>7, <1>8
  DEF Next, HandlerStep, Arrival, RejectFast, Propose, VerifyPropose,
      GuardrailQueue, Seal, Decide, SealDecision, SealTasking, ResetAcked,
      AuditFail, memory, disk, vars

\* Every step keeps TaskingBacked.
LEMMA TaskingBackedStep ==
  ASSUME BackedInv, [Next]_vars
  PROVE  TaskingBacked'
<1> SUFFICES ASSUME NEW c \in CoaId, NEW t \in Held(c)', t.tier # 0
             PROVE  Approved(t.serial, t.root, {t.unit}, Len(log))'
  BY DEF TaskingBacked, Approved, ApprovalAt, Positions
<1>1. Approved(t.serial, t.root, {t.unit}, Len(log))
  BY HeldBacked DEF Backed
<1>2. Grows /\ TypeOK /\ Len(log) \in 0 .. Len(log)
  BY TrailStep DEF BackedInv, TypeOK
<1> QED
  BY <1>1, <1>2, ApprovedStays

-----------------------------------------------------------------------------
(* Sealed acks.                                                            *)

\* A step that seals no ack keeps AckBacked.
LEMMA AckBackedKept ==
  ASSUME BackedInv, Grows,
         log' # log
           /\ log'[Len(log) + 1].act = "recipient_ack"
           /\ log'[Len(log) + 1].tier # 0
           => Approved(log'[Len(log) + 1].serial, log'[Len(log) + 1].root,
                       log'[Len(log) + 1].units, Len(log))
  PROVE  AckBacked'
<1> SUFFICES ASSUME NEW j \in 1 .. Len(log'),
                    log'[j].act = "recipient_ack", log'[j].tier # 0
             PROVE  \E i \in 1 .. (j - 1) :
                      /\ ApprovalAt(i, log[j].serial)' /\ log'[i].root = log'[j].root
                      /\ log'[j].units \subseteq log'[i].units
  BY DEF AckBacked, Positions, ApprovalAt
<1>1. log \in Seq(Record) /\ Len(log) \in Nat /\ TypeOK
  BY DEF BackedInv, TypeOK
<1>2. \/ j \in 1 .. Len(log) /\ log'[j] = log[j]
      \/ log' # log /\ j = Len(log) + 1
  <2>1. CASE log' = log
    BY <2>1
  <2>2. ASSUME NEW r \in Record, log' = Append(log, r)
        PROVE  \/ j \in 1 .. Len(log) /\ log'[j] = log[j]
               \/ log' # log /\ j = Len(log) + 1
    BY <1>1, <2>2, Appended
  <2> QED
    BY <2>1, <2>2 DEF Grows
<1>3. PICK s, r, us : s = log'[j].serial /\ r = log'[j].root /\ us = log'[j].units
  OBVIOUS
<1>4. j - 1 \in 0 .. Len(log)
  BY <1>1, <1>2
<1>5. Approved(s, r, us, j - 1)
  <2>1. CASE j \in 1 .. Len(log) /\ log'[j] = log[j]
    BY <1>3, <2>1 DEF BackedInv, AckBacked, Positions, Approved
  <2>2. CASE log' # log /\ j = Len(log) + 1
    <3>1. j - 1 = Len(log)
      BY <1>1, <2>2
    <3> QED
      BY <1>3, <2>2, <3>1
  <2> QED
    BY <1>2, <2>1, <2>2
<1>6. \E i \in 1 .. (j - 1) : /\ ApprovalAt(i, s)' /\ log'[i].root = r
                             /\ us \subseteq log'[i].units
  BY <1>1, <1>4, <1>5, ApprovedStays
<1> QED
  BY <1>3, <1>6 DEF ApprovalAt

\* Every step keeps AckBacked: only Seal seals an ack, and it holds one that is
\* approved.
LEMMA AckBackedStep ==
  ASSUME BackedInv, [Next]_vars
  PROVE  AckBacked'
<1>1. log \in Seq(Record) /\ Grows
  BY TrailStep DEF BackedInv, TypeOK
<1>2. ASSUME NEW r \in Record, log' = Append(log, r), r.act # "recipient_ack"
      PROVE  AckBacked'
  BY <1>1, <1>2, Appended, AckBackedKept
<1>3. CASE log' = log
  BY <1>1, <1>3, AckBackedKept
<1>4. ASSUME NEW c \in CoaId, NEW k \in Key, NEW safe \in BOOLEAN,
             RejectFast(c, k, safe)
      PROVE  AckBacked'
  <2>1. [act |-> "coa_rejected_fast", coa |-> c, root |-> c, units |-> {},
         serial |-> 0, tier |-> 1, ok |-> FALSE] \in Record
    BY DEF Record, Act, Tier
  <2> QED
    BY <1>2, <1>4, <2>1 DEF RejectFast
<1>5. CASE SealDecision
  <2>1. req \in Request /\ "gate_decision" \in Act
    BY <1>5 DEF SealDecision, BackedInv, TypeOK, Act
  <2>2. Sealed("gate_decision", Units(req.pending)) \in Record
    BY <2>1, UnitsType, SealedType DEF Request
  <2>3. Sealed("gate_decision", Units(req.pending)).act # "recipient_ack"
    BY DEF Sealed
  <2> QED
    BY <1>2, <1>5, <2>2, <2>3 DEF SealDecision
<1>6. CASE SealTasking
  <2>1. req \in Request /\ "tasking_issued" \in Act /\ Addressee \in Unit
    BY <1>6 DEF SealTasking, BackedInv, TypeOK, InHand, Act
  <2>2. Sealed("tasking_issued", {Addressee}) \in Record
    BY <2>1, SealedType
  <2>3. Sealed("tasking_issued", {Addressee}).act # "recipient_ack"
    BY DEF Sealed
  <2> QED
    BY <1>2, <1>6, <2>2, <2>3 DEF SealTasking
<1>7. CASE Seal
  <2>1. req \in Request
    BY <1>7 DEF Seal, BackedInv, TypeOK
  <2>2. req.act \in Act /\ req.pending \in Pending
    BY <2>1 DEF Request
  <2> DEFINE r == Sealed(req.act, Units(req.pending))
  <2>3. r \in Record
    BY <2>1, <2>2, UnitsType, SealedType
  <2>4. /\ r.act = req.act /\ r.tier = req.pending.tier /\ r.root = req.root
        /\ r.serial = req.pending.serial /\ r.units = Units(req.pending)
    BY DEF Sealed
  <2>5. r.act = "recipient_ack" /\ r.tier # 0
        => Approved(r.serial, r.root, r.units, Len(log))
    <3> HIDE DEF r
    <3> QED  BY <1>7, <2>4 DEF Seal, BackedInv, InHand
  <2>6. log' = Append(log, r)
    BY <1>7 DEF Seal
  <2> HIDE DEF r
  <2>7. log'[Len(log) + 1] = r
    BY <1>1, <2>3, <2>6, Appended
  <2> QED
    BY <1>1, <2>5, <2>7, AckBackedKept
<1>8. ASSUME Arrival PROVE AckBacked'
  <2>1. ASSUME NEW c, NEW p, NEW act, Queue(c, p, act) PROVE log' = log
    BY <2>1 DEF Queue
  <2>2. ASSUME NEW c, NEW u, NEW k, NEW tier, NEW quiet,
               AutoApprove(c, u, k, tier, quiet)
        PROVE  log' = log
    BY <2>2 DEF AutoApprove
  <2> QED
    BY <1>3, <1>4, <1>8, <2>1, <2>2
    DEF Arrival, Propose, VerifyPropose, GuardrailQueue, Decide, Ack, Reset
<1>9. ASSUME HandlerStep PROVE AckBacked'
  BY <1>3, <1>5, <1>6, <1>7, <1>9
  DEF HandlerStep, IssueTasking, AckInbox, ResetInbox, ResetAcked
<1> QED
  BY <1>3, <1>8, <1>9 DEF Next, AuditFail, Crash, vars

-----------------------------------------------------------------------------
\* The invariant holds at the start.
LEMMA BackedInit == Init => BackedInv
<1> SUFFICES ASSUME Init PROVE BackedInv
  OBVIOUS
<1>1. TypeOK
  BY DEF Init, TypeOK, Label
<1>2. log = <<>> /\ Len(log) = 0
  BY DEF Init
<1>3. InHand /\ AckBacked
  BY <1>2 DEF Init, InHand, AckBacked, Positions
<1>4. TaskingBacked
  BY DEF Init, TaskingBacked, Held
<1> QED
  BY <1>1, <1>3, <1>4 DEF BackedInv

\* Every step keeps the invariant.
LEMMA BackedNext == BackedInv /\ [Next]_vars => BackedInv'
BY TypeStep, InHandStep, TaskingBackedStep, AckBackedStep DEF BackedInv

\* The inductive invariant holds throughout.
THEOREM BackedAlways == Spec => []BackedInv
BY BackedInit, BackedNext, PTL DEF Spec

\* TypeOK: the tables, the inbox, the trail and the locals of a handler keep
\* their types through crashes, failed writes and failed appends.
THEOREM TypeCorrect == Spec => []TypeOK
<1>1. BackedInv => TypeOK
  BY DEF BackedInv
<1> QED
  BY <1>1, BackedAlways, PTL

\* TaskingBacked: whatever fails or crashes, a tasking above tier 0 has the
\* sealed approval of its proposal, for its unit, behind it.
THEOREM HumanInTheLoop == Spec => []TaskingBacked
<1>1. BackedInv => TaskingBacked
  BY DEF BackedInv
<1> QED
  BY <1>1, BackedAlways, PTL

\* AckBacked: a sealed ack above tier 0 comes after the approval it answers.
THEOREM AcksAreApproved == Spec => []AckBacked
<1>1. BackedInv => AckBacked
  BY DEF BackedInv
<1> QED
  BY <1>1, BackedAlways, PTL
=============================================================================
