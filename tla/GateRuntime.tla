----------------------------- MODULE GateRuntime -----------------------------
(***************************************************************************)
(* The gate of the C2 core: proposals, operator decisions, recipient       *)
(* inbox and acks, as served by app/c2_server.py and app/verify_ui.py,     *)
(* with the SQLite picture of core/runtime_store.py, the duplicate         *)
(* interlock of core/interlock.py and the tier policy of core/policy.py.   *)
(*                                                                         *)
(* Every endpoint is an "async def" without an await of its own, run by    *)
(* one event loop: a handler is never interleaved with another.  What can  *)
(* happen inside it is a crash between two durable writes, a write that    *)
(* fails, and after a crash a restart from what is on disk.  So a handler  *)
(* is one action per durable write, sequenced by pc; what it does in       *)
(* memory belongs to the write that follows it (a crash in between loses   *)
(* the memory either way).                                                 *)
(*                                                                         *)
(* Durable: dbProposals, dbInbox, dbAcked (one SQLite commit per write)    *)
(* and log (the jsonl audit trail).  Volatile: proposals, inbox, acked     *)
(* and active.  History, not in the code: serial numbers the proposals     *)
(* accepted so far, minted collects the COA ids seen so far (uuid4 never   *)
(* returns one of them), restarts counts crashes.                          *)
(***************************************************************************)
EXTENDS Naturals, Sequences

CONSTANTS
  CoaId,        \* COA identifiers, chosen by clients or by uuid4
  Key,          \* soft-duplicate keys "target:intent:coordinates"
  Unit,         \* recipient units
  None,         \* no proposal, no tasking, no second unit
  Resubmitted,  \* ids a client may send more than once (a retry, a client
                \* that names its COAs itself); every other id is sent once
  StoreFaults,  \* may a SQLite write fail (it is logged and skipped)?
  AuditFaults,  \* may an audit append raise OSError (the handler aborts)?
  MaxLog,       \* bound: audit records
  MaxSerial,    \* bound: proposals accepted
  MaxRestarts   \* bound: crashes

ASSUME ConstantsAssumption ==
  /\ None \notin CoaId \union Key \union Unit
  /\ CoaId \intersect Key = {} /\ Resubmitted \subseteq CoaId
  /\ StoreFaults \in BOOLEAN /\ AuditFaults \in BOOLEAN
  /\ MaxLog \in Nat /\ MaxSerial \in Nat /\ MaxRestarts \in Nat

VARIABLES
  proposals,    \* C2Runtime.proposals: the pending proposals
  inbox,        \* C2Runtime.inbox: the taskings
  acked,        \* C2Runtime.acked
  active,       \* DeterministicInterlock.active_coa_ids, ids and keys
  dbProposals, dbInbox, dbAcked,   \* the SQLite tables
  log,          \* the audit trail
  pc,           \* the durable write the running handler does next
  req,          \* what the running handler has in its local variables
  serial, minted, restarts

memory  == <<proposals, inbox, acked, active>>
disk    == <<dbProposals, dbInbox, dbAcked>>
control == <<pc, req>>
history == <<serial, minted>>
vars == <<memory, disk, log, control, history, restarts>>

-----------------------------------------------------------------------------
Tier == 0 .. 2

\* A pending proposal.
Pending == [unit: Unit, navy: Unit \union {None}, tier: Tier, key: Key,
            serial: Nat]

\* A tasking: root is the COA that was proposed and decided (for the navy
\* line the "paired_coa_id" of its metadata).
Tasking == [unit: Unit, tier: Tier, key: Key, root: CoaId, serial: Nat,
            status: {"PENDING_ACK", "ACKED"}]

Act == {"coa_rejected_fast", "coa_auto_approved", "coa_proposed",
        "guardrail_veto_option_b_queued", "gate_decision", "tasking_issued",
        "recipient_ack"}

\* An audit record.  ok is "the verdict is APPROVED" (an ack has the token of
\* an approved tasking).  units are the addressed units; on a gate_decision,
\* and root and serial everywhere, they are there for the properties.
Record == [act: Act, coa: CoaId, root: CoaId, units: SUBSET Unit, serial: Nat,
           tier: Tier, ok: BOOLEAN]

Label == {"idle", "Seal", "SealDecision", "Issue", "SealTasking", "AckInbox",
          "ResetInbox", "ResetAcked"}

\* The locals of a handler: the COA that was proposed, the COA the request or
\* the tasking in hand is about, the record to seal, what is issued to whom.
Request == [root: CoaId, coa: CoaId, act: Act, pending: Pending, ok: BOOLEAN]

ASSUME NoneAssumption == None \notin Request \union Tasking

Units(p) == {p.unit, p.navy} \ {None}

NewPending(u, navy, tier, k) ==
  [unit |-> u, navy |-> navy, tier |-> tier, key |-> k, serial |-> serial + 1]

\* The record the handler seals, with the units it addresses.
Sealed(act, units) ==
  [act |-> act, coa |-> req.coa, root |-> req.root, units |-> units,
   serial |-> req.pending.serial, tier |-> req.pending.tier, ok |-> req.ok]

Init ==
  /\ proposals = [c \in CoaId |-> None] /\ dbProposals = proposals
  /\ inbox = [c \in CoaId |-> None] /\ dbInbox = inbox
  /\ acked = {} /\ dbAcked = {}
  /\ active = {}
  /\ log = <<>>
  /\ pc = "idle" /\ req = None
  /\ serial = 0 /\ minted = {} /\ restarts = 0

-----------------------------------------------------------------------------
(* Durable writes.                                                         *)

\* RuntimeStore: a write that raises sqlite3.Error is logged and skipped.
Store(written, old, new) == written = new \/ (StoreFaults /\ written = old)

\* A tasking is put in the inbox, in memory and in SQLite.
Tasked(root, u, p) ==
  [unit |-> u, tier |-> p.tier, key |-> p.key, root |-> root,
   serial |-> p.serial, status |-> "PENDING_ACK"]

Deliver(c, t) ==
  /\ inbox' = [inbox EXCEPT ![c] = t]
  /\ Store(dbInbox', dbInbox, [dbInbox EXCEPT ![c] = t])

Room(n) == Len(log) + n <= MaxLog

Goto(label, r) == pc' = label /\ req' = r
Return == Goto("idle", None)

-----------------------------------------------------------------------------
(* POST /api/gate/proposals                                                *)

\* TieredPolicy.resolve_tier; quiet is "confident, corroborated and of an
\* intent that may run unattended".
ResolveTier(tier, quiet) ==
  IF tier = 2 THEN 2 ELSE IF quiet \/ tier = 0 THEN 0 ELSE 1

\* DeterministicInterlock.verify; safe is "no coordinate, speed, geofence or
\* CNI violation".
Verify(c, k, safe) == safe /\ c \notin active /\ k \notin active

\* Mutant: the soft-duplicate key is forgotten.
RegisterActive_IdOnly(c, k) == active' = active \union {c}

\* DeterministicInterlock.register_active.
RegisterActive(c, k) == active' = active \union {c, k}

\* The id of a submitted COA: uuid4 draws one never seen; a client may repeat
\* the ids of Resubmitted.
Submit(c) ==
  /\ c \in Resubmitted \/ c \notin minted
  /\ minted' = minted \union {c}

RejectFast(c, k, safe) ==
  /\ pc = "idle" /\ Room(1)
  /\ ~ Verify(c, k, safe)
  /\ Submit(c)
  /\ log' = Append(log, [act |-> "coa_rejected_fast", coa |-> c, root |-> c,
                         units |-> {}, serial |-> 0, tier |-> 1, ok |-> FALSE])
  /\ UNCHANGED <<memory, disk, control, serial, restarts>>

\* A pending entry is put in memory and in SQLite, then sealed.
Queue(c, p, act) ==
  /\ pc = "idle" /\ Room(1) /\ serial < MaxSerial
  /\ serial' = serial + 1
  /\ Submit(c)
  /\ proposals' = [proposals EXCEPT ![c] = p]
  /\ Store(dbProposals', dbProposals, [dbProposals EXCEPT ![c] = p])
  /\ Goto("Seal", [root |-> c, coa |-> c, act |-> act, pending |-> p, ok |-> FALSE])
  /\ UNCHANGED <<inbox, acked, active, dbInbox, dbAcked, log, restarts>>

Propose(c, u, k, tier, quiet) ==
  /\ Verify(c, k, TRUE)
  /\ ResolveTier(tier, quiet) # 0
  /\ Queue(c, NewPending(u, None, ResolveTier(tier, quiet), k), "coa_proposed")

\* Tier 0: the tasking reaches the inbox before the approval is sealed.
AutoApprove(c, u, k, tier, quiet) ==
  /\ pc = "idle" /\ Room(1) /\ serial < MaxSerial
  /\ Verify(c, k, TRUE)
  /\ ResolveTier(tier, quiet) = 0
  /\ serial' = serial + 1
  /\ Submit(c)
  /\ LET p == NewPending(u, None, 0, k)
     IN  /\ Deliver(c, Tasked(c, u, p))
         /\ Goto("Seal", [root |-> c, coa |-> c, act |-> "coa_auto_approved",
                          pending |-> p, ok |-> TRUE])
  /\ RegisterActive(c, k)
  /\ UNCHANGED <<proposals, acked, dbProposals, dbAcked, log, restarts>>

\* POST /verify/command/propose: a scenario COA (uuid4, tier 1) is queued
\* without the interlock and without a look at its tier.
VerifyPropose(c, u, k) ==
  /\ c \notin minted
  /\ Queue(c, NewPending(u, None, 1, k), "coa_proposed")

\* POST /api/gate/demo-evaluate-with-guardrail: option A is vetoed; option B
\* (uuid4, tier 1) must pass the interlock, and names a second unit.
GuardrailQueue(c, u, navy, k) ==
  /\ c \notin minted
  /\ Verify(c, k, TRUE)
  /\ Queue(c, NewPending(u, navy, 1, k), "guardrail_veto_option_b_queued")

\* The last write of a proposal, of an automatic approval and of an ack.
Seal ==
  /\ pc = "Seal"
  /\ log' = Append(log, Sealed(req.act, Units(req.pending)))
  /\ Return
  /\ UNCHANGED <<memory, disk, history, restarts>>

-----------------------------------------------------------------------------
(* POST /api/gate/approve                                                  *)

\* Mutant: the row stays in SQLite.
Withdraw_MemoryOnly(c) ==
  proposals' = [proposals EXCEPT ![c] = None] /\ UNCHANGED dbProposals

\* The proposal is withdrawn from memory and from SQLite.
Withdraw(c) ==
  /\ proposals' = [proposals EXCEPT ![c] = None]
  /\ Store(dbProposals', dbProposals, [dbProposals EXCEPT ![c] = None])

\* The bound on ids: the navy line, if there is one, will need an id of its own.
Decide(c, ok) ==
  /\ pc = "idle" /\ Room(3)
  /\ proposals[c] # None
  /\ proposals[c].navy # None => minted # CoaId
  /\ Withdraw(c)
  /\ Goto("SealDecision", [root |-> c, coa |-> c, act |-> "gate_decision",
                           pending |-> proposals[c], ok |-> ok])
  /\ UNCHANGED <<inbox, acked, active, dbInbox, dbAcked, log, history, restarts>>

\* Mutant: a denied proposal is issued as well.
SealDecision_IssuesDenied ==
  /\ pc = "SealDecision"
  /\ log' = Append(log, Sealed("gate_decision", Units(req.pending)))
  /\ Goto("Issue", req)
  /\ UNCHANGED <<memory, disk, history, restarts>>

SealDecision ==
  /\ pc = "SealDecision"
  /\ log' = Append(log, Sealed("gate_decision", Units(req.pending)))
  /\ IF req.ok THEN Goto("Issue", req) ELSE Return
  /\ UNCHANGED <<memory, disk, history, restarts>>

\* Mutant: the units change places.
Addressee_Swapped == IF req.coa = req.root THEN req.pending.navy ELSE req.pending.unit

\* The unit of the tasking in hand: the loop's index 0 is the proposal's unit
\* under the proposal's id, index 1 the navy unit under an id of its own.
Addressee == IF req.coa = req.root THEN req.pending.unit ELSE req.pending.navy

\* Mutant: the issue is not sealed.
IssueTasking_Unsealed ==
  /\ pc = "Issue"
  /\ Deliver(req.coa, Tasked(req.root, Addressee, req.pending))
  /\ RegisterActive(req.root, req.pending.key)
  /\ Return
  /\ UNCHANGED <<proposals, acked, dbProposals, dbAcked, log, history, restarts>>

IssueTasking ==
  /\ pc = "Issue"
  /\ Deliver(req.coa, Tasked(req.root, Addressee, req.pending))
  /\ Goto("SealTasking", req)
  /\ UNCHANGED <<proposals, acked, active, dbProposals, dbAcked, log, history, restarts>>

\* Mutant: the loop serves one unit.
NavyNext_Never == FALSE

\* Mutant: the same unit is served twice.
NavyNext_NoDedup == req.coa = req.root /\ req.pending.navy # None

\* navy_unit_id counts only when it is not the first unit again.
NavyNext ==
  req.coa = req.root /\ req.pending.navy \notin {None, req.pending.unit}

\* The tasking is sealed; the loop goes on with a fresh id for the navy unit,
\* or ends and the decided COA (never the sister's id) becomes active.
SealTasking ==
  /\ pc = "SealTasking"
  /\ log' = Append(log, Sealed("tasking_issued", {Addressee}))
  /\ \/ /\ NavyNext
        /\ \E s \in CoaId \ minted :
             minted' = minted \union {s} /\ Goto("Issue", [req EXCEPT !.coa = s])
        /\ UNCHANGED active
     \/ /\ ~ NavyNext
        /\ RegisterActive(req.root, req.pending.key)
        /\ Return
        /\ UNCHANGED minted
  /\ UNCHANGED <<proposals, inbox, acked, disk, serial, restarts>>

-----------------------------------------------------------------------------
(* GET /api/recipient/inbox and POST /api/recipient/ack                    *)

\* What recipient_inbox shows unit u.
Listed(u) ==
  {c \in CoaId \ acked : inbox[c] # None /\ inbox[c].unit = u}

\* Mutant: the unit is not compared.
Addressed_AnyUnit(c, u) == inbox[c] # None

Addressed(c, u) == inbox[c] # None /\ inbox[c].unit = u

\* Mutant: the status is set and the id is not added.
MarkAcked_StatusOnly(c) ==
  inbox' = [inbox EXCEPT ![c].status = "ACKED"] /\ UNCHANGED <<acked, dbAcked>>

MarkAcked(c) ==
  /\ acked' = acked \union {c}
  /\ inbox' = [inbox EXCEPT ![c].status = "ACKED"]
  /\ Store(dbAcked', dbAcked, dbAcked \union {c})

\* Nothing asks whether the tasking is acked already.
Ack(c, u) ==
  /\ pc = "idle" /\ Room(1)
  /\ Addressed(c, u)
  /\ MarkAcked(c)
  /\ Goto("AckInbox",
          [root |-> inbox[c].root, coa |-> c, act |-> "recipient_ack", ok |-> TRUE,
           pending |-> [unit |-> u, navy |-> None, tier |-> inbox[c].tier,
                        key |-> inbox[c].key, serial |-> inbox[c].serial]])
  /\ UNCHANGED <<proposals, active, dbProposals, dbInbox, log, history, restarts>>

\* Mutant: the ack is not sealed.
AckInbox_Unsealed ==
  /\ pc = "AckInbox"
  /\ Store(dbInbox', dbInbox, [dbInbox EXCEPT ![req.coa] = inbox[req.coa]])
  /\ Return
  /\ UNCHANGED <<memory, dbProposals, dbAcked, log, history, restarts>>

AckInbox ==
  /\ pc = "AckInbox"
  /\ Store(dbInbox', dbInbox, [dbInbox EXCEPT ![req.coa] = inbox[req.coa]])
  /\ Goto("Seal", req)
  /\ UNCHANGED <<memory, dbProposals, dbAcked, log, history, restarts>>

-----------------------------------------------------------------------------
(* POST /api/admin/reset: memory first, then one autocommitted DELETE per  *)
(* table; the first DELETE that fails ends the script.                     *)

\* Mutant: SQLite is not cleared.
Reset_MemoryOnly ==
  /\ pc = "idle"
  /\ proposals' = [c \in CoaId |-> None] /\ inbox' = [c \in CoaId |-> None]
  /\ acked' = {} /\ active' = {}
  /\ UNCHANGED <<disk, log, control, history, restarts>>

Reset ==
  /\ pc = "idle"
  /\ proposals' = [c \in CoaId |-> None] /\ inbox' = [c \in CoaId |-> None]
  /\ acked' = {} /\ active' = {}
  /\ \/ dbProposals' = [c \in CoaId |-> None] /\ Goto("ResetInbox", None)
     \/ StoreFaults /\ UNCHANGED <<dbProposals, control>>
  /\ UNCHANGED <<dbInbox, dbAcked, log, history, restarts>>

ResetInbox ==
  /\ pc = "ResetInbox"
  /\ \/ dbInbox' = [c \in CoaId |-> None] /\ Goto("ResetAcked", None)
     \/ StoreFaults /\ UNCHANGED dbInbox /\ Return
  /\ UNCHANGED <<memory, dbProposals, dbAcked, log, history, restarts>>

ResetAcked ==
  /\ pc = "ResetAcked"
  /\ Store(dbAcked', dbAcked, {})
  /\ Return
  /\ UNCHANGED <<memory, dbProposals, dbInbox, log, history, restarts>>

-----------------------------------------------------------------------------
(* Failures.                                                               *)

Sealing == {"Seal", "SealDecision", "SealTasking"}

\* The append raises: the rest of the handler does not run.
AuditFail ==
  /\ AuditFaults /\ pc \in Sealing
  /\ Return
  /\ UNCHANGED <<memory, disk, log, history, restarts>>

\* The process dies anywhere and C2Runtime.__init__ loads what SQLite has; the
\* interlock starts empty.
Crash ==
  /\ restarts < MaxRestarts
  /\ restarts' = restarts + 1
  /\ proposals' = dbProposals /\ inbox' = dbInbox /\ acked' = dbAcked
  /\ active' = {}
  /\ Return
  /\ UNCHANGED <<disk, log, history>>

-----------------------------------------------------------------------------
HandlerStep ==
  \/ Seal \/ SealDecision \/ IssueTasking \/ SealTasking
  \/ AckInbox \/ ResetInbox \/ ResetAcked

Arrival ==
  \/ \E c \in CoaId, k \in Key :
       \/ \E safe \in BOOLEAN : RejectFast(c, k, safe)
       \/ \E u \in Unit, tier \in Tier, quiet \in BOOLEAN :
            Propose(c, u, k, tier, quiet) \/ AutoApprove(c, u, k, tier, quiet)
       \/ \E u \in Unit : VerifyPropose(c, u, k)
       \/ \E u \in Unit, navy \in Unit : GuardrailQueue(c, u, navy, k)
  \/ \E c \in CoaId, ok \in BOOLEAN : Decide(c, ok)
  \/ \E c \in CoaId, u \in Unit : Ack(c, u)
  \/ Reset

Next == HandlerStep \/ Arrival \/ AuditFail \/ Crash

Spec == Init /\ [][Next]_vars

\* A handler that has started runs to its end: it never awaits.
FairSpec == Spec /\ WF_vars(HandlerStep)

-----------------------------------------------------------------------------
(* Properties.                                                             *)

\* The variables have their types, and a handler's locals are there exactly
\* while the handler runs.
TypeOK ==
  /\ proposals \in [CoaId -> Pending \union {None}]
  /\ dbProposals \in [CoaId -> Pending \union {None}]
  /\ inbox \in [CoaId -> Tasking \union {None}]
  /\ dbInbox \in [CoaId -> Tasking \union {None}]
  /\ acked \subseteq CoaId /\ dbAcked \subseteq CoaId
  /\ active \subseteq CoaId \union Key
  /\ log \in Seq(Record)
  /\ pc \in Label
  /\ req \in Request \union {None}
  /\ pc \notin {"idle", "ResetInbox", "ResetAcked"} <=> req # None
  /\ serial \in Nat /\ minted \subseteq CoaId /\ restarts \in Nat

\* The taskings known for id c, in memory or on disk.
Held(c) == {inbox[c], dbInbox[c]} \ {None}

Positions == 1 .. Len(log)

\* log[i] is the operator's approval of the proposal numbered s.
ApprovalAt(i, s) ==
  log[i].act = "gate_decision" /\ log[i].ok /\ log[i].serial = s

\* Human in the loop: whatever crashes or fails, a tasking above tier 0 is in an
\* inbox (memory or SQLite) only if an operator's approval of that very proposal,
\* naming that unit, is in the audit trail.  gate_approve seals the decision
\* before it writes the inbox.
TaskingBacked ==
  \A c \in CoaId : \A t \in Held(c) :
    t.tier # 0 =>
      \E i \in Positions :
        ApprovalAt(i, t.serial) /\ log[i].root = t.root /\ t.unit \in log[i].units

\* An ack sealed for a tasking above tier 0 comes after the sealed approval of
\* its proposal, and from a unit that approval addressed: recipient_ack checks
\* only the inbox, which a restart reloads and a client's reused id overwrites.
AckBacked ==
  \A j \in Positions :
    log[j].act = "recipient_ack" /\ log[j].tier # 0 =>
      \E i \in 1 .. (j - 1) :
        /\ ApprovalAt(i, log[j].serial)
        /\ log[i].root = log[j].root /\ log[j].units \subseteq log[i].units

\* A proposal is decided at most once, also when the process dies in the middle
\* of gate_approve and the operator answers again after the restart: the row is
\* deleted before the decision is sealed.
DecidedOnce ==
  \A i, j \in Positions :
    /\ log[i].act = "gate_decision" /\ log[j].act = "gate_decision"
    /\ log[i].serial = log[j].serial
    => i = j

\* One approval seals at most one tasking_issued per addressed unit, and none
\* without an approval before it.
IssuedOncePerApproval ==
  \A j \in Positions :
    log[j].act = "tasking_issued" =>
      /\ \E i \in 1 .. (j - 1) :
           ApprovalAt(i, log[j].serial) /\ log[j].units \subseteq log[i].units
      /\ \A k \in Positions :
           /\ log[k].act = "tasking_issued"
           /\ log[k].serial = log[j].serial /\ log[k].units = log[j].units
           => k = j

\* Between requests SQLite holds exactly what memory holds, whatever handler
\* ran or was cut short by a crash or by an audit append that raised.
WriteThrough ==
  pc = "idle" =>
    dbProposals = proposals /\ dbInbox = inbox /\ dbAcked = acked

\* Between requests every sealed approval has been followed by a tasking_issued
\* for each unit it addresses: an approval answered with 200 is carried out.
ApprovalCarriedOut ==
  pc = "idle" =>
    \A i \in Positions : \A u \in log[i].units :
      log[i].act = "gate_decision" /\ log[i].ok =>
        \E j \in Positions :
          /\ j > i /\ log[j].act = "tasking_issued"
          /\ log[j].serial = log[i].serial /\ log[j].units = {u}

\* Between requests no tasking stands in the inbox whose issue is not sealed.
TaskingSealed ==
  pc = "idle" =>
    \A c \in CoaId : inbox[c] # None =>
      \E i \in Positions :
        /\ log[i].act \in {"tasking_issued", "coa_auto_approved"}
        /\ log[i].coa = c /\ log[i].serial = inbox[c].serial

\* Between requests the acks that hide taskings from the recipient are sealed.
AckSealed ==
  pc = "idle" =>
    \A c \in acked : \E i \in Positions :
      log[i].act = "recipient_ack" /\ log[i].coa = c

\* recipient_inbox filters on the acked set, not on the status: the two must
\* agree, or a tasking PENDING_ACK is shown to nobody.
PendingIsListed ==
  \A c \in CoaId : inbox[c] # None =>
    (inbox[c].status = "PENDING_ACK" <=> c \in Listed(inbox[c].unit))

\* Between requests the target/intent key of every tasking in the inbox is one
\* the interlock refuses: a task that is out cannot be proposed again.
OutstandingIsActive ==
  pc = "idle" =>
    \A c \in CoaId : inbox[c] # None => inbox[c].key \in active

\* An operator's approval brings the proposal to the inbox of every unit it
\* addresses, the navy line included.
ApprovalReachesInbox ==
  \A c \in CoaId, u \in Unit :
    (pc = "SealDecision" /\ req.ok /\ req.root = c /\ u \in Units(req.pending))
      ~> (\E d \in Listed(u) : inbox[d].root = c)

-----------------------------------------------------------------------------
(* The gate implements HumanAuthority: the decisions are those of the audit *)
(* trail, the taskings in circulation those of either inbox.               *)

SealedDecisions ==
  {[serial |-> log[i].serial, units |-> log[i].units, ok |-> log[i].ok] :
     i \in {i \in Positions : log[i].act = "gate_decision"}}

Circulating ==
  UNION {{[serial |-> t.serial, unit |-> t.unit] : t \in {t \in Held(c) : t.tier # 0}} :
           c \in CoaId}

Confirmed ==
  UNION {{[serial |-> log[i].serial, unit |-> u] : u \in log[i].units} :
     i \in {i \in Positions : log[i].act = "recipient_ack" /\ log[i].tier # 0}}

Authority == INSTANCE HumanAuthority
  WITH decisions <- SealedDecisions, held <- Circulating, confirmed <- Confirmed

\* Every step of the gate, crashes and failed appends included, is a decision on
\* an undecided proposal, a change of the taskings in circulation that adds only
\* granted ones, the confirmation of a circulating one, or invisible.
ImplementsAuthority == Authority!ASpec
=============================================================================
