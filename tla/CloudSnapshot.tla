---------------------------- MODULE CloudSnapshot ----------------------------
(***************************************************************************)
(* The Cloudflare front of the C2 core, deploy/cloudflare/src/index.ts: a  *)
(* Worker that answers preflights and checks the bearer token, and the     *)
(* Durable Object C2Container in front of a container whose disk does not  *)
(* outlive it.  After a request that may have sealed something the object  *)
(* copies the audit trail into its storage, and puts it back into a        *)
(* container it has started.                                               *)
(*                                                                         *)
(* Inside the object tasks interleave at every await: requests and saves   *)
(* (persistAudit).  Only blockConcurrencyWhile, in which a container is    *)
(* started and restored, keeps the others out.  The container may stop at  *)
(* any point, the object may be evicted, answers may overtake each other.  *)
(* The library's containerFetch starts a container that is not running, or *)
(* answers with an error: both are possible here.                          *)
(*                                                                         *)
(* A record is what core/audit.py appends: linked to the one before it.  A *)
(* request seals at most one here.  The records a client puts may be any.  *)
(*                                                                         *)
(* lapsed, tainted, acked and sealed are history: did one of the things    *)
(* happen that can cost records (Lapse in the actions below), what was     *)
(* wrong with the lists clients have put, which records were sealed for an *)
(* answer 2xx the client has, how many were sealed.                        *)
(***************************************************************************)
EXTENDS Naturals, Sequences

CONSTANTS
  Client,        \* requests the Worker handles at a time
  Traffic,       \* the requests the clients send
  Puts,          \* lists of records a client puts, besides earlier trails
  None,          \* no request, no response
  TokenSet,      \* is C2_API_TOKEN set?
  StopFaults,    \* may the container die, and its answers get lost?
  RestoreFaults, \* may a start or a restore fail?
  SaveFaults,    \* may a save fail?
  Reordering,    \* may the answer to a save overtake an earlier one?
  Evictions,     \* may the object lose its memory while the container runs?
  ColdStarts,    \* may containerFetch start a container that does not run?
  MaxRecords,    \* bound: records
  MaxSaves       \* bound: saves under way

ASSUME ConstantsAssumption ==
  /\ {TokenSet, StopFaults, RestoreFaults, SaveFaults, Reordering, Evictions,
      ColdStarts} \subseteq BOOLEAN
  /\ MaxRecords \in Nat /\ MaxSaves \in Nat

VARIABLES
  stage,     \* where a request is
  req,       \* the request
  res,       \* its response: ok, and the record that was sealed for it (or 0)
  hydrated,  \* C2Container.containerHydrated
  stored,    \* storage[AUDIT_STORAGE_KEY], empty when it was never put
  asks,      \* saves that have asked the container for its trail
  answers,   \* the trails the container answered with, not yet put
  up,        \* the container runs
  fresh,     \* it was started and not restored since
  leaving,   \* sleepAfter has passed, the container is about to exit
  due,       \* the library has still to call onStop or onError
  trail,     \* the container's gate.jsonl
  head,      \* AuditLogger._prev in the container
  sealed, acked, lapsed,
  tainted    \* what a list that was put lacked: "chain", "bearer"

requests  == <<stage, req, res>>
saves     == <<asks, answers>>
container == <<up, fresh, leaving, due, trail, head>>
history   == <<sealed, acked, lapsed, tainted>>
vars == <<requests, hydrated, stored, saves, container, history>>

-----------------------------------------------------------------------------
(* Requests and records.                                                   *)

\* The kinds of requests the Worker tells apart.  bearer is "the Authorization
\* header has the configured token".
Route ==
  {<<"OPTIONS", "/api">>, <<"GET", "/health">>, <<"GET", "/api">>,
   <<"POST", "/api">>, <<"POST", "/verify">>, <<"PUT", "/snapshot">>}

Request == [route: Route, bearer: BOOLEAN]
Method(q) == q.route[1]
Path(q) == q.route[2]

Response == [ok: BOOLEAN, id: 0 .. MaxRecords]
ASSUME TrafficAssumption == Traffic \subseteq Request
ASSUME NoneAssumption == None \notin Request \union Response

\* A record names the request it was sealed for.  id is its hash, 0 in a record
\* without one, which only a client can put.
Record == [id: 0 .. MaxRecords, prev: 0 .. MaxRecords, for: Request]
ASSUME PutsAssumption == Puts \subseteq Seq(Record)

\* The digest the next record links to: that of genesis is 0.
LastId(t) == IF t = <<>> THEN 0 ELSE t[Len(t)].id

\* Mutant: the paths below /api are open.
PathRequiresBearer_ExactOnly(q) == Method(q) # "OPTIONS" /\ Path(q) = "/snapshot"

\* /health, preflights and what is not below /api need no token.
PathRequiresBearer(q) == Method(q) # "OPTIONS" /\ Path(q) \in {"/api", "/snapshot"}

\* authorizeRequest finds nothing to object to.
Authorized(q) == PathRequiresBearer(q) /\ TokenSet => q.bearer

\* corsPreflight answers it.
Preflight(q) == Method(q) = "OPTIONS"

\* Mutant: only the gate's own paths are saved.
ShouldPersistAudit_ApiOnly(q, ok) == Method(q) = "POST" /\ Path(q) = "/api" /\ ok

\* Reads, the snapshot itself and requests that failed change nothing to save.
ShouldPersistAudit(q, ok) ==
  Method(q) \notin {"GET", "HEAD", "OPTIONS"} /\ Path(q) \notin {"/snapshot", "/health"} /\ ok

Init ==
  /\ stage = [c \in Client |-> "idle"]
  /\ req = [c \in Client |-> None] /\ res = [c \in Client |-> None]
  /\ hydrated = FALSE /\ stored = <<>> /\ asks = 0 /\ answers = <<>>
  /\ up = FALSE /\ fresh = FALSE /\ leaving = FALSE /\ due = FALSE
  /\ trail = <<>> /\ head = 0
  /\ sealed = 0 /\ acked = {} /\ lapsed = FALSE /\ tainted = {}

\* Nothing is past the object's gate and no save is under way.
Quiet ==
  asks = 0 /\ answers = <<>> /\ \A c \in Client : stage[c] \notin {"forward", "answered"}

\* Something that can cost records has happened.
Lapse(when) == lapsed' = (lapsed \/ when)

-----------------------------------------------------------------------------
(* The Worker.                                                             *)

\* A preflight and a request without the token it needs
\* (authorizeRequest) are answered here and leave no trace; the others go to
\* the object.  Bound on saves: each request, and onStop, may start one.
Arrive(c, q) ==
  /\ stage[c] = "idle" /\ asks + Len(answers) < MaxSaves
  /\ ~ Preflight(q) /\ Authorized(q)
  /\ stage' = [stage EXCEPT ![c] = "gate"]
  /\ req' = [req EXCEPT ![c] = q]
  /\ UNCHANGED <<res, hydrated, stored, saves, container, history>>

\* The client has its answer, or the request died with the object.
Done(c) ==
  /\ stage' = [stage EXCEPT ![c] = "idle"]
  /\ req' = [req EXCEPT ![c] = None] /\ res' = [res EXCEPT ![c] = None]

Goto(c, s) == stage' = [stage EXCEPT ![c] = s] /\ UNCHANGED <<req, res>>

-----------------------------------------------------------------------------
(* C2Container.fetch                                                       *)

\* Mutant: requests queue behind the saves.
Pass_BehindSaves(c) ==
  /\ stage[c] = "gate" /\ hydrated /\ asks = 0 /\ answers = <<>>
  /\ Goto(c, "forward")
  /\ UNCHANGED <<hydrated, stored, saves, container, history>>

Pass(c) ==
  /\ stage[c] = "gate" /\ hydrated
  /\ Goto(c, "forward")
  /\ UNCHANGED <<hydrated, stored, saves, container, history>>

\* Mutant: the digest in memory is not taken from the new file.
ReplaceRecords_NoRewind(t) == trail' = t /\ UNCHANGED head

\* PUT /api/admin/audit/snapshot: the file and the digest in memory.
ReplaceRecords(t) == trail' = t /\ head' = LastId(t)

\* Mutant: a started container is not restored.
RestoreAudit_Skipped ==
  /\ UNCHANGED <<trail, head>>
  /\ UNCHANGED lapsed

\* restoreAudit; a response that is an error is logged and no more.
RestoreAudit ==
  \/ stored = <<>> /\ UNCHANGED <<trail, head, lapsed>>
  \/ /\ stored # <<>> /\ ReplaceRecords(stored)
     /\ Lapse(trail \notin {<<>>, stored})
  \/ /\ RestoreFaults /\ stored # <<>>
     /\ UNCHANGED <<trail, head>> /\ Lapse(TRUE)

\* startAndWaitForPorts (which calls onStart), restoreAudit.
Hydrate(c) ==
  /\ stage[c] = "gate" /\ ~ hydrated
  /\ up' = TRUE /\ fresh' = FALSE
  /\ RestoreAudit
  /\ hydrated' = TRUE
  /\ Goto(c, "forward")
  /\ UNCHANGED <<stored, saves, leaving, due, sealed, acked, tainted>>

\* The object loses its memory: its tasks are gone.
Forget ==
  /\ stage' = [c \in Client |-> "idle"]
  /\ req' = [c \in Client |-> None] /\ res' = [c \in Client |-> None]
  /\ hydrated' = FALSE /\ asks' = 0 /\ answers' = <<>>
  /\ Lapse(~ Quiet)

\* The start or the restore raises, before the container is up, before the trail
\* is put back or after: blockConcurrencyWhile resets the object.
HydrateFails(c) ==
  /\ RestoreFaults /\ stage[c] = "gate" /\ ~ hydrated
  /\ \/ UNCHANGED <<up, fresh, trail, head>>
     \/ ~ up /\ up' = TRUE /\ fresh' = TRUE /\ UNCHANGED <<trail, head>>
     \/ stored # <<>> /\ ReplaceRecords(stored) /\ up' = TRUE /\ fresh' = FALSE
  /\ Forget
  /\ UNCHANGED <<stored, leaving, due, sealed, acked, tainted>>

\* The constructor runs again, with the container as it is.
Evict ==
  /\ Evictions
  /\ Forget
  /\ UNCHANGED <<stored, container, sealed, acked, tainted>>

Answered(c, ok, id) ==
  /\ stage' = [stage EXCEPT ![c] = "answered"]
  /\ res' = [res EXCEPT ![c] = [ok |-> ok, id |-> id]]
  /\ UNCHANGED req

\* External: AuditLogger.append in the container.
AppendRecord(q) ==
  /\ sealed < MaxRecords
  /\ sealed' = sealed + 1
  /\ trail' = Append(trail, [id |-> sealed + 1, prev |-> head, for |-> q])
  /\ head' = sealed + 1
  /\ UNCHANGED tainted

Linked(t) ==
  \A i \in 1 .. Len(t) : t[i].id # 0 /\ t[i].prev = IF i = 1 THEN 0 ELSE t[i - 1].id

\* The record has the token behind it where it needs one.
Cleared(r) == TokenSet /\ Path(r.for) = "/api" => r.for.bearer

\* What is wrong with a list of records.
Flaws(t) ==
  (IF Linked(t) THEN {} ELSE {"chain"}) \union
  (IF \A i \in 1 .. Len(t) : Cleared(t[i]) THEN {} ELSE {"bearer"})

\* admin_audit_snapshot takes any list and looks at none of its records: a copy
\* that was read before, or another one.
PutSnapshot(t) == ReplaceRecords(t) /\ tainted' = tainted \union Flaws(t)

\* What the container does with a request: a POST may seal, also when it fails
\* in the end (an ingest of several events stops at the first bad one); a body
\* that is no list of records is refused.
Handle(c) ==
  LET q == req[c]
  IN  \/ /\ Method(q) = "GET" /\ Answered(c, TRUE, 0)
         /\ UNCHANGED <<sealed, trail, head, tainted>>
      \/ Method(q) = "POST" /\ AppendRecord(q) /\ \E ok \in BOOLEAN : Answered(c, ok, sealed')
      \/ /\ Method(q) \in {"POST", "PUT"} /\ \E ok \in BOOLEAN : Answered(c, ok, 0)
         /\ UNCHANGED <<sealed, trail, head, tainted>>
      \/ /\ Path(q) = "/snapshot"
         /\ \E t \in Puts \union {SubSeq(trail, 1, n) : n \in 0 .. Len(trail)} : PutSnapshot(t)
         /\ Answered(c, TRUE, 0)
         /\ UNCHANGED sealed

\* The file is another one than the object has seen to.
TakesBack(c) == Path(req[c]) = "/snapshot" /\ trail' # trail

\* super.fetch reaches a container that runs.
Forward(c) ==
  /\ stage[c] = "forward" /\ up
  /\ Handle(c)
  /\ Lapse(fresh \/ TakesBack(c))
  /\ UNCHANGED <<hydrated, stored, saves, up, fresh, leaving, due, acked>>

\* External: containerFetch starts the container, which calls onStart; nobody
\* restores it.
StartsCold == up' = TRUE /\ fresh' = TRUE /\ hydrated' = FALSE

\* super.fetch finds no container: it is started, or the response is an
\* error.
ForwardCold(c) ==
  /\ stage[c] = "forward" /\ ~ up
  /\ \/ ColdStarts /\ StartsCold /\ UNCHANGED requests
     \/ Answered(c, FALSE, 0) /\ UNCHANGED <<up, fresh, hydrated>>
  /\ UNCHANGED <<stored, saves, leaving, due, trail, head, history>>

\* The response is there: a save is started beside it.
Return(c) ==
  /\ stage[c] = "answered"
  /\ asks' = IF ShouldPersistAudit(req[c], res[c].ok) THEN asks + 1 ELSE asks
  /\ acked' = IF res[c].ok /\ res[c].id # 0 THEN acked \union {res[c].id} ELSE acked
  /\ Done(c)
  /\ UNCHANGED <<hydrated, stored, answers, container, sealed, lapsed, tainted>>

\* The response is lost with the connection: super.fetch raises.
Drop(c) ==
  /\ StopFaults /\ stage[c] = "answered"
  /\ Done(c)
  /\ UNCHANGED <<hydrated, stored, saves, container, history>>

-----------------------------------------------------------------------------
(* persistAudit                                                            *)

SaveReads ==
  /\ asks > 0 /\ up
  /\ asks' = asks - 1
  /\ answers' = Append(answers, trail)
  /\ Lapse(fresh)
  /\ UNCHANGED <<requests, hydrated, stored, container, sealed, acked, tainted>>

\* The container does not run: it is started, or the error is logged.
SaveCold ==
  /\ asks > 0 /\ ~ up
  /\ \/ ColdStarts /\ StartsCold /\ UNCHANGED asks
     \/ asks' = asks - 1 /\ UNCHANGED <<up, fresh, hydrated>>
  /\ UNCHANGED <<requests, stored, answers, leaving, due, trail, head, history>>

\* Mutant: no list is stored as nothing.
Put_NoDefault(t) == stored' = IF t = <<>> THEN None ELSE t

Put(t) == stored' = t

SavePuts ==
  /\ answers # <<>>
  /\ Put(Head(answers)) /\ answers' = Tail(answers)
  /\ UNCHANGED <<requests, hydrated, asks, container, history>>

\* A later answer is put first.
SaveOvertakes ==
  /\ Reordering
  /\ \E i \in 2 .. Len(answers) :
       /\ Put(answers[i])
       /\ answers' = SubSeq(answers, 1, i - 1) \o SubSeq(answers, i + 1, Len(answers))
  /\ Lapse(TRUE)
  /\ UNCHANGED <<requests, hydrated, asks, container, sealed, acked, tainted>>

\* An error, or a body that cannot be read, is logged.
SaveFails ==
  /\ SaveFaults
  /\ \/ asks > 0 /\ asks' = asks - 1 /\ UNCHANGED answers
     \/ answers # <<>> /\ answers' = Tail(answers) /\ UNCHANGED asks
  /\ Lapse(TRUE)
  /\ UNCHANGED <<requests, hydrated, stored, container, sealed, acked, tainted>>

-----------------------------------------------------------------------------
(* The container stops.                                                    *)

\* sleepAfter has passed without a request.
Expire ==
  /\ up /\ ~ leaving /\ Quiet
  /\ leaving' = TRUE /\ due' = TRUE
  /\ UNCHANGED <<requests, hydrated, stored, saves, up, fresh, trail, head, history>>

\* The process ends, its disk is gone.
Gone(more) ==
  /\ up' = FALSE /\ fresh' = FALSE /\ leaving' = FALSE
  /\ trail' = <<>> /\ head' = 0
  /\ Lapse(more \/ ~ Quiet)
  /\ UNCHANGED <<requests, hydrated, stored, saves, sealed, acked, tainted>>

\* onStop may be over, and a request have restored the container it stops.
Exit == up /\ leaving /\ Gone(hydrated /\ ~ due) /\ UNCHANGED due

Crash == StopFaults /\ up /\ Gone(FALSE) /\ due' = TRUE

\* Mutant: the flag is left.
OnStop_FlagKept ==
  /\ due /\ asks + Len(answers) < MaxSaves
  /\ due' = FALSE /\ asks' = asks + 1
  /\ UNCHANGED <<requests, hydrated, stored, answers, up, fresh, leaving, trail, head, history>>

\* onStop, before the container exits or after.
OnStop ==
  /\ due /\ asks + Len(answers) < MaxSaves
  /\ due' = FALSE /\ hydrated' = FALSE /\ asks' = asks + 1
  /\ UNCHANGED <<requests, stored, answers, up, fresh, leaving, trail, head, history>>

OnError ==
  /\ StopFaults /\ due
  /\ due' = FALSE /\ hydrated' = FALSE
  /\ UNCHANGED <<requests, stored, saves, up, fresh, leaving, trail, head, history>>

-----------------------------------------------------------------------------
Serve(c) ==
  \/ Pass(c) \/ Hydrate(c) \/ HydrateFails(c)
  \/ Forward(c) \/ ForwardCold(c) \/ Return(c) \/ Drop(c)

Save == SaveReads \/ SaveCold \/ SavePuts

Next ==
  \/ \E c \in Client : Serve(c) \/ \E q \in Traffic : Arrive(c, q)
  \/ Save \/ SaveOvertakes \/ SaveFails
  \/ Evict \/ Expire \/ Exit \/ Crash \/ OnStop \/ OnError

Spec == Init /\ [][Next]_vars

\* The runtime runs what is ready, and every call has a time limit.
FairSpec ==
  /\ Spec
  /\ WF_vars(SaveReads \/ SaveCold) /\ WF_vars(SavePuts)
  /\ \A c \in Client : WF_vars(Serve(c))

-----------------------------------------------------------------------------
(* Properties.                                                             *)

Stage == {"idle", "gate", "forward", "answered"}

\* Types; a request is there from its arrival to its answer, a response from
\* the moment the container gave it.
TypeOK ==
  /\ stage \in [Client -> Stage]
  /\ req \in [Client -> Request \union {None}]
  /\ res \in [Client -> Response \union {None}]
  /\ \A c \in Client : stage[c] # "idle" => req[c] \in Request
  /\ \A c \in Client : stage[c] = "answered" => res[c] \in Response
  /\ {hydrated, up, fresh, leaving, due, lapsed} \subseteq BOOLEAN
  /\ stored \in Seq(Record) /\ trail \in Seq(Record)
  /\ asks \in Nat /\ answers \in Seq(Seq(Record))
  /\ head \in 0 .. MaxRecords /\ sealed \in 0 .. MaxRecords
  /\ acked \subseteq 1 .. MaxRecords /\ tainted \subseteq {"chain", "bearer"}

\* Whatever stops, fails, is evicted or overtaken, the container appends to the
\* last record of its file; and unless a client has put a list that is no chain,
\* the file, the snapshot in storage and every copy on its way there are whole
\* chains from the genesis digest (restoreAudit with replace_records,
\* persistAudit).
ChainsLinked ==
  /\ head = LastId(trail)
  /\ "chain" \notin tainted =>
       /\ Linked(trail) /\ Linked(stored)
       /\ \A i \in 1 .. Len(answers) : Linked(answers[i])

Ids(t) == {t[i].id : i \in 1 .. Len(t)}

\* A record sealed for an answer the client has is in the snapshot or in a
\* container that is still to be read, unless one of the named lapses has
\* happened: they are all the ways in which this object loses a record
\* (fetch, persistAudit, restoreAudit, onStop).
NothingLost ==
  ~ lapsed => acked \subseteq Ids(stored) \union (IF up /\ ~ fresh THEN Ids(trail) ELSE {})

Prefix(s, t) == Len(s) <= Len(t) /\ \A i \in 1 .. Len(s) : s[i] = t[i]

\* Without a lapse the snapshot only grows: no put takes back what an earlier
\* one has stored (persistAudit's ctx.storage.put).
SnapshotGrows == [][~ lapsed' => Prefix(stored, stored')]_stored

\* The head comment of C2Container: "snapshotted into this Durable Object's
\* SQLite so the hash chain survives sleep/restart".
ChainSurvives == [][Prefix(stored, stored')]_stored

\* The object takes the container for restored only while it is, or until the
\* library has told it of the stop, unless there was a lapse (containerHydrated
\* in onStart, onStop, onError and fetch).
HydratedHolds == hydrated /\ ~ lapsed => (up /\ ~ fresh) \/ due

\* With a token configured no record below /api, restored ones included, was
\* sealed for a request without it, unless a client that had it has put one
\* (authorizeRequest before the object).
Vouched ==
  "bearer" \notin tainted =>
    \A t \in {trail, stored} : \A i \in 1 .. Len(t) : Cleared(t[i])

\* A record the client knows of reaches the snapshot, unless there was a lapse
\* (waitUntil(persistAudit()), which the answer does not wait for).
SavedAtLast ==
  \A n \in 1 .. MaxRecords :
    n \in acked /\ ~ lapsed ~> n \in Ids(stored) \/ lapsed

\* Every request is answered, through starts, restores that fail, evictions and
\* the container's sleep (fetch: no task waits for another one's save).
AnswersAll ==
  \A c \in Client : stage[c] # "idle" ~> stage[c] = "idle"
=============================================================================
