------------------------------ MODULE AuditTrail ------------------------------
(***************************************************************************)
(* The audit trail of core/audit.py: a jsonl file of hash-linked records   *)
(* and, when the EDS bridge is there, the sidecar chain of                 *)
(* core/audit_eds.py, which every record enters first; with the start-up   *)
(* repair of AuditLogger and the tamper demonstration of app/c2_server.py. *)
(*                                                                         *)
(* A writer is a process with an AuditLogger.  The server and the console  *)
(* of app/main.py open the same file by default, each with the digest of   *)
(* the last record it knows in memory.  An append is two writes, first the *)
(* sidecar, then the file; the tamper demonstration overwrites the file,   *)
(* reads it again and overwrites the sidecar.  A process may die between   *)
(* any two of these and inside each, and each of them may raise.           *)
(*                                                                         *)
(* A digest is the sequence of the bodies hashed into it: SHA-256 and      *)
(* BLAKE3 without collisions.  A body is a number no other record has (the *)
(* time stamps differ) and what the tamper demonstration did to it.        *)
(***************************************************************************)
EXTENDS Naturals, Sequences

CONSTANTS
  Writer,       \* processes that append
  Server,       \* the writer that serves the REST interface
  None,         \* no snapshot
  Eds,          \* is the EDS bridge loadable?
  DemoTamper,   \* C2_DEMO_TAMPER
  SignFaults,   \* may signing a sidecar record fail?
  IoFaults,     \* may a read or a write of a file raise OSError?
  HeadLoss,     \* may the head of the file be cut off from outside?
  MaxEvents,    \* bound: records
  MaxStarts     \* bound: process starts

ASSUME ConstantsAssumption ==
  /\ Server \in Writer
  /\ {Eds, DemoTamper, SignFaults, IoFaults, HeadLoss} \subseteq BOOLEAN
  /\ MaxEvents \in Nat /\ MaxStarts \in Nat

VARIABLES
  file,      \* the records of gate.jsonl
  torn,      \* the file holds a line that is not JSON
  sidecar,   \* the records of eds_chain.json
  cut,       \* the sidecar is not JSON
  prev,      \* AuditLogger._prev, per writer
  edsOn,     \* AuditLogger._eds is not None, per writer
  edsPrev,   \* EdsChainWriter._prev_hash, per writer
  phase,     \* where a writer is
  todo,      \* the records a writer has still to seal or to write
  pre, edsPre,      \* the server's snapshots before a tamper
  doubt,     \* history: files that a failed write left apart from memory
  events, starts    \* counters

disk   == <<file, torn, sidecar, cut>>
chains == <<prev, edsOn, edsPrev>>
tamper == <<pre, edsPre>>
vars == <<disk, chains, phase, todo, tamper, doubt, events, starts>>

-----------------------------------------------------------------------------
(* Records, digests and the walks over a chain.                            *)

Genesis == <<>>

Body == [id: 1 .. MaxEvents, flip: 0 .. 2]

\* SHA-256 of the canonical JSON of body and prev_hash.
Digest(body, p) == Append(p, body)

NewRecord(n, p) ==
  LET body == [id |-> n, flip |-> 0]
  IN  [body |-> body, prev |-> p, hash |-> Digest(body, p)]

LastHash(f) == IF f = <<>> THEN Genesis ELSE f[Len(f)].hash

\* chain_break_index finds nothing.
Linked(f) ==
  \A i \in 1 .. Len(f) : f[i].prev = IF i = 1 THEN Genesis ELSE f[i - 1].hash

\* Mutant: only the links are walked.
Verified_LinksOnly(f) == Linked(f)

\* verify_audit_chain finds nothing: the links, and every digest recomputed.
Verified(f) ==
  Linked(f) /\ \A i \in 1 .. Len(f) : f[i].hash = Digest(f[i].body, f[i].prev)

\* A sidecar record signs a payload, the body of an audit record with its
\* prev_hash; sound is "payload and signature match".
EdsRecord(payload, p) == [payload |-> payload, sound |-> TRUE, prev |-> p]
EdsHash(r) == Append(r.prev, [payload |-> r.payload, sound |-> r.sound])
EdsLast(s) == IF s = <<>> THEN Genesis ELSE EdsHash(s[Len(s)])

\* "eds audit verify-chain" says CHAIN_VALID.
EdsValid(s) ==
  \A i \in 1 .. Len(s) :
    s[i].sound /\ s[i].prev = IF i = 1 THEN Genesis ELSE EdsHash(s[i - 1])

Init ==
  /\ file = <<>> /\ sidecar = <<>> /\ torn = FALSE /\ cut = FALSE
  /\ prev = [w \in Writer |-> Genesis]
  /\ edsPrev = [w \in Writer |-> Genesis]
  /\ edsOn = [w \in Writer |-> FALSE]
  /\ phase = [w \in Writer |-> "down"]
  /\ todo = [w \in Writer |-> <<>>]
  /\ doubt = {}
  /\ pre = None /\ edsPre = None
  /\ events = 0 /\ starts = 0

Ready(w) == phase[w] = "idle"

\* A writer goes on to a step with what is left to do.
Goto(w, step, rest) ==
  /\ phase' = [phase EXCEPT ![w] = step]
  /\ todo' = [todo EXCEPT ![w] = rest]

-----------------------------------------------------------------------------
(* The sidecar's write of one record, EdsChainWriter.append_payload: of the *)
(* record an append is about, and of each record of a trail that was there  *)
(* before the sidecar.                                                      *)

\* Mutant: the sidecar's chain is not continued.
EdsAdvance_Forgotten(w, e) == UNCHANGED edsPrev

\* EdsChainWriter takes a signed record as the last before it is written.
EdsAdvance(w, e) == edsPrev' = [edsPrev EXCEPT ![w] = EdsHash(e)]

\* Signing fails, which is only logged, or there is no sidecar.
SealSkips(w) ==
  /\ ~ edsOn[w] \/ SignFaults
  /\ UNCHANGED <<sidecar, cut, edsPrev, doubt>>

SealWrites(w, e) ==
  /\ edsOn[w] /\ ~ cut
  /\ EdsAdvance(w, e)
  /\ sidecar' = Append(sidecar, e)
  /\ UNCHANGED <<cut, doubt>>

\* The sidecar is opened for writing, which empties it, and not written to its
\* end.  A part of a JSON array is none, unless it is empty.
SidecarCutShort == sidecar' = <<>> /\ cut' \in BOOLEAN

\* The digest has advanced when the sidecar cannot be read, not be opened, or
\* only be emptied and written in part.
SealRaises(w, e) ==
  /\ edsOn[w] /\ (cut \/ IoFaults)
  /\ EdsAdvance(w, e)
  /\ \/ UNCHANGED <<sidecar, cut>>
     \/ ~ cut /\ SidecarCutShort
  /\ doubt' = doubt \union {"sidecar"}

\* A sealed record goes on to the file; one of the trail gives way to the next.
Onward(w) ==
  LET rest == Tail(todo[w])
  IN  IF phase[w] = "Seal" THEN Goto(w, "File", todo[w])
      ELSE Goto(w, IF rest = <<>> THEN "Repair" ELSE "Backfill", rest)

\* An append raises to its caller before the file is written; the constructor
\* logs what stops the backfill and goes on.
Abort(w) == Goto(w, IF phase[w] = "Seal" THEN "idle" ELSE "Repair", <<>>)

Seal(w) ==
  /\ phase[w] \in {"Seal", "Backfill"}
  /\ LET r == Head(todo[w])
         e == EdsRecord(Digest(r.body, r.prev), edsPrev[w])
     IN  \/ (SealSkips(w) \/ SealWrites(w, e)) /\ Onward(w)
         \/ SealRaises(w, e) /\ Abort(w)
  /\ UNCHANGED <<file, torn, prev, edsOn, tamper, events, starts>>

-----------------------------------------------------------------------------
(* AuditLogger.append                                                      *)

Begin(w) ==
  /\ Ready(w) /\ events < MaxEvents
  /\ events' = events + 1
  /\ Goto(w, "Seal", <<NewRecord(events + 1, prev[w])>>)
  /\ UNCHANGED <<disk, chains, tamper, doubt, starts>>

\* Mutant: the file is opened for writing, not for appending.
AppendLine_Truncates(r) == file' = IF torn THEN file ELSE <<r>>

\* A line after a torn one is glued to it and lost.
AppendLine(r) == file' = IF torn THEN file ELSE Append(file, r)

WriteLine(w) ==
  /\ phase[w] = "File"
  /\ AppendLine(Head(todo[w]))
  /\ prev' = [prev EXCEPT ![w] = Head(todo[w]).hash]
  /\ Goto(w, "idle", <<>>)
  /\ UNCHANGED <<torn, sidecar, cut, edsOn, edsPrev, tamper, doubt, events, starts>>

\* Mutant: the digest is taken over before the write is known to succeed.
KeepPrev_Advanced(w) == prev' = [prev EXCEPT ![w] = Head(todo[w]).hash]

KeepPrev(w) == UNCHANGED prev

\* Nothing of the line is written, or a part.
WriteFails(w) ==
  /\ IoFaults /\ phase[w] = "File"
  /\ torn' \in {torn, TRUE}
  /\ KeepPrev(w)
  /\ Goto(w, "idle", <<>>)
  /\ UNCHANGED <<file, sidecar, cut, edsOn, edsPrev, tamper, doubt, events, starts>>

-----------------------------------------------------------------------------
(* The tamper demonstration of the server.                                 *)

\* Mutant: every tamper is a new character.
Flip_Counts(flip) == flip + 1

\* inject_one_char_tamper: the first character, to "X" or back and forth
\* between "X" and "Y"; never what it was.
Flip(flip) == IF flip = 1 THEN 2 ELSE 1

\* A record whose body is changed and whose digests are not.
Altered(r) ==
  [body |-> [id |-> r.body.id, flip |-> Flip(r.body.flip)],
   prev |-> r.prev, hash |-> r.hash]

\* _corrupt_eds_records: one record no longer matches its signature.
Corrupted(s) ==
  IF s = <<>> THEN s
  ELSE [s EXCEPT ![IF Len(s) >= 2 THEN 2 ELSE 1].sound = FALSE]

\* _rewind_from_disk
Rewind(w, f) == prev' = [prev EXCEPT ![w] = LastHash(f)]

\* The snapshots; the second one may raise and leave that of an earlier tamper.
InjectTamper ==
  /\ DemoTamper /\ Ready(Server) /\ ~ torn /\ Len(file) >= 2
  /\ pre' = file
  /\ \/ /\ ~ (edsOn[Server] /\ cut)
        /\ edsPre' = IF edsOn[Server] THEN sidecar ELSE None
        /\ Goto(Server, "Tamper", <<>>)
     \/ /\ edsOn[Server] /\ (cut \/ IoFaults)
        /\ UNCHANGED <<edsPre, phase, todo>>
  /\ UNCHANGED <<disk, chains, doubt, events, starts>>

RestoreTamper ==
  /\ DemoTamper /\ Ready(Server) /\ pre # None
  /\ Goto(Server, "Restore", <<>>)
  /\ UNCHANGED <<disk, chains, tamper, doubt, events, starts>>

\* What the file is overwritten with, and the sidecar.
NewTrail ==
  IF phase[Server] = "Tamper" THEN [pre EXCEPT ![2] = Altered(pre[2])] ELSE pre
NewSidecar ==
  IF phase[Server] = "TamperSidecar" THEN Corrupted(edsPre) ELSE edsPre

\* An empty sidecar is restored, but not corrupted.
SidecarStep ==
  IF \/ edsPre = None \/ ~ edsOn[Server]
     \/ phase[Server] = "Tamper" /\ edsPre = <<>>
  THEN "idle"
  ELSE IF phase[Server] = "Tamper" THEN "TamperSidecar" ELSE "RestoreSidecar"

\* write_audit_records and _rewind_from_disk.  A trail with whole links that is
\* written and read again is beyond doubt.
Overwrite ==
  /\ phase[Server] \in {"Tamper", "Restore"}
  /\ file' = NewTrail /\ torn' = FALSE
  /\ Rewind(Server, NewTrail)
  /\ doubt' = IF Linked(NewTrail) THEN doubt \ {"file"} ELSE doubt
  /\ Goto(Server, SidecarStep, <<>>)
  /\ UNCHANGED <<sidecar, cut, edsOn, edsPrev, tamper, events, starts>>

\* Opening the file for writing empties it: some records are written, and
\* perhaps a part of the next.
FileCutShort ==
  \E n \in 0 .. Len(NewTrail) :
    /\ file' = SubSeq(NewTrail, 1, n)
    /\ torn' \in BOOLEAN /\ (torn' => n < Len(NewTrail))

\* The file cannot be opened, not be written to its end, or not be read again:
\* the request ends, with the digest of the old file in memory.
OverwriteFails ==
  /\ IoFaults /\ phase[Server] \in {"Tamper", "Restore"}
  /\ \/ UNCHANGED <<file, torn, doubt>>
     \/ FileCutShort /\ doubt' = doubt \union {"file"}
  /\ Goto(Server, "idle", <<>>)
  /\ UNCHANGED <<sidecar, cut, chains, tamper, events, starts>>

\* EdsChainWriter.replace_records
ReplaceSidecar ==
  /\ phase[Server] \in {"TamperSidecar", "RestoreSidecar"}
  /\ sidecar' = NewSidecar /\ cut' = FALSE
  /\ edsPrev' = [edsPrev EXCEPT ![Server] = EdsLast(NewSidecar)]
  /\ doubt' = IF EdsValid(NewSidecar) THEN doubt \ {"sidecar"} ELSE doubt
  /\ Goto(Server, "idle", <<>>)
  /\ UNCHANGED <<file, torn, prev, edsOn, tamper, events, starts>>

ReplaceFails ==
  /\ IoFaults /\ phase[Server] \in {"TamperSidecar", "RestoreSidecar"}
  /\ \/ UNCHANGED <<sidecar, cut, doubt>>
     \/ /\ SidecarCutShort \/ (sidecar' = NewSidecar /\ cut' = FALSE)
        /\ doubt' = doubt \union {"sidecar"}
  /\ Goto(Server, "idle", <<>>)
  /\ UNCHANGED <<file, torn, chains, tamper, events, starts>>

\* C2Runtime.reset drops the snapshots.
Reset ==
  /\ Ready(Server) /\ pre # None
  /\ pre' = None /\ edsPre' = None
  /\ UNCHANGED <<disk, chains, phase, todo, doubt, events, starts>>

-----------------------------------------------------------------------------
(* Crashes, starts, and what happens to the file from outside.             *)

\* What a process that dies inside a write leaves of it.
CutShort(w) ==
  \/ /\ phase[w] = "File"
     /\ torn' = TRUE
     /\ UNCHANGED <<file, sidecar, cut, doubt>>
  \/ /\ w = Server /\ phase[w] \in {"Tamper", "Restore"}
     /\ FileCutShort
     /\ UNCHANGED <<sidecar, cut, doubt>>
  \/ /\ phase[w] \in {"Seal", "Backfill", "TamperSidecar", "RestoreSidecar"}
     /\ edsOn[w] /\ (phase[w] \in {"Seal", "Backfill"} => ~ cut)
     /\ SidecarCutShort
     /\ doubt' = doubt \union {"sidecar"}
     /\ UNCHANGED <<file, torn>>

\* The process dies: between two writes, or in the middle of one.
Crash(w) ==
  /\ phase[w] # "down" /\ starts < MaxStarts
  /\ UNCHANGED <<disk, doubt>> \/ CutShort(w)
  /\ Goto(w, "down", <<>>)
  /\ IF w = Server THEN pre' = None /\ edsPre' = None ELSE UNCHANGED tamper
  /\ UNCHANGED <<chains, events, starts>>

\* _quarantine_if_broken: the links are walked, the digests are not.
Quarantined(f) == ~ Linked(f)

\* AuditLogger.__init__, first _init_eds: the sidecar is loaded, and written anew
\* when it is empty and the trail is not.  A sidecar that cannot be read is done
\* without; a trail that cannot be read ends the backfill.
Start(w) ==
  /\ phase[w] = "down" /\ starts < MaxStarts
  /\ starts' = starts + 1
  /\ prev' = [prev EXCEPT ![w] = Genesis]
  /\ \/ /\ Eds /\ ~ cut
        /\ edsOn' = [edsOn EXCEPT ![w] = TRUE]
        /\ edsPrev' = [edsPrev EXCEPT ![w] = EdsLast(sidecar)]
        /\ doubt' = IF EdsValid(sidecar) THEN doubt \ {"sidecar"} ELSE doubt
        /\ \/ sidecar = <<>> /\ ~ torn /\ file # <<>> /\ Goto(w, "Backfill", file)
           \/ /\ sidecar # <<>> \/ torn \/ file = <<>> \/ IoFaults
              /\ Goto(w, "Repair", <<>>)
     \/ /\ ~ Eds \/ cut \/ IoFaults
        /\ edsOn' = [edsOn EXCEPT ![w] = FALSE]
        /\ edsPrev' = [edsPrev EXCEPT ![w] = Genesis]
        /\ Goto(w, "Repair", <<>>)
        /\ UNCHANGED doubt
  /\ UNCHANGED <<disk, tamper, events>>

\* Then _quarantine_if_broken and _rewind_from_disk.
Repair(w) ==
  /\ phase[w] = "Repair" /\ ~ torn
  /\ file' = IF Quarantined(file) THEN <<>> ELSE file
  /\ Rewind(w, file')
  /\ doubt' = doubt \ {"file"}
  /\ Goto(w, IF Quarantined(file) /\ edsOn[w] THEN "Clear" ELSE "idle", <<>>)
  /\ UNCHANGED <<torn, sidecar, cut, edsOn, edsPrev, tamper, events, starts>>

\* The sidecar of a trail that was put aside is deleted.
Clear(w) ==
  /\ phase[w] = "Clear"
  /\ sidecar' = <<>> /\ cut' = FALSE
  /\ edsPrev' = [edsPrev EXCEPT ![w] = Genesis]
  /\ Rewind(w, file)
  /\ doubt' = doubt \ {"sidecar"}
  /\ Goto(w, "idle", <<>>)
  /\ UNCHANGED <<file, torn, edsOn, tamper, events, starts>>

\* A torn trail, or one that cannot be read or put aside, makes the constructor
\* raise: the process does not come up.
StartFails(w) ==
  /\ \/ phase[w] = "Repair" /\ (torn \/ IoFaults)
     \/ phase[w] = "Clear" /\ IoFaults
  /\ Goto(w, "down", <<>>)
  /\ UNCHANGED <<disk, chains, tamper, doubt, events, starts>>

\* External: the head of the append-only file is cut off.
LoseHead ==
  /\ HeadLoss /\ ~ torn /\ Len(file) >= 2
  /\ file' = Tail(file) /\ doubt' = doubt \union {"file"}
  /\ UNCHANGED <<torn, sidecar, cut, chains, phase, todo, tamper, events, starts>>

-----------------------------------------------------------------------------
Next ==
  \/ \E w \in Writer :
       \/ Begin(w) \/ Seal(w) \/ WriteLine(w) \/ WriteFails(w)
       \/ Crash(w) \/ Start(w) \/ Repair(w) \/ Clear(w) \/ StartFails(w)
  \/ InjectTamper \/ RestoreTamper \/ Reset
  \/ Overwrite \/ OverwriteFails \/ ReplaceSidecar \/ ReplaceFails
  \/ LoseHead

Spec == Init /\ [][Next]_vars

-----------------------------------------------------------------------------
(* Properties.                                                             *)

AuditRecord == [body: Body, prev: Seq(Body), hash: Seq(Body)]
SidecarLink == [payload: Seq(Body), sound: BOOLEAN]
SidecarRecord ==
  [payload: Seq(Body), sound: BOOLEAN, prev: Seq(SidecarLink)]

Step ==
  {"down", "Backfill", "Repair", "Clear", "idle", "Seal", "File"}
    \union {"Tamper", "TamperSidecar", "Restore", "RestoreSidecar"}

\* The variables have their types; a writer has records to write exactly in the
\* steps that write them, and the server a snapshot in those that use it.
TypeOK ==
  /\ file \in Seq(AuditRecord) /\ sidecar \in Seq(SidecarRecord)
  /\ torn \in BOOLEAN /\ cut \in BOOLEAN
  /\ prev \in [Writer -> Seq(Body)] /\ edsPrev \in [Writer -> Seq(SidecarLink)]
  /\ edsOn \in [Writer -> BOOLEAN]
  /\ phase \in [Writer -> Step]
  /\ todo \in [Writer -> Seq(AuditRecord)]
  /\ \A w \in Writer : todo[w] # <<>> <=> phase[w] \in {"Seal", "File", "Backfill"}
  /\ pre = None \/ pre \in Seq(AuditRecord)
  /\ edsPre = None \/ edsPre \in Seq(SidecarRecord)
  /\ phase[Server] \in {"Tamper", "Restore"} => pre \in Seq(AuditRecord)
  /\ phase[Server] = "Tamper" => Len(pre) >= 2
  /\ phase[Server] \in {"TamperSidecar", "RestoreSidecar"} => edsPre \in Seq(SidecarRecord)
  /\ doubt \subseteq {"file", "sidecar"}
  /\ events \in Nat /\ starts \in Nat

\* The links never break by themselves: not by a crash at any point, an append
\* that fails, a tamper, a restore or a restart, because the digest in memory is
\* always that of the last record of the file.  An overwrite that failed, and a
\* head that was cut off, leave them in doubt until the file is overwritten with
\* whole links or a start has put a broken trail aside; from then on they hold
\* again, through every later append.
ChainLinked == "file" \notin doubt => Linked(file)

Unaltered(f) == \A i \in 1 .. Len(f) : f[i].body.flip = 0

\* Out of doubt, the walk of verify_audit_chain fails exactly while a record of
\* the trail is altered: also after later appends, after a restart, after a
\* second tamper of the same record or one that a crash cut short, and no longer
\* after an unaltered trail is restored.
TamperEvident == "file" \notin doubt => (Verified(file) <=> Unaltered(file))

\* The digests of g are the first ones of f.
HashPrefix(g, f) ==
  Len(g) <= Len(f) /\ \A i \in 1 .. Len(g) : g[i].hash = f[i].hash

\* Appends that fail, crashes outside the demonstration and starts leave every
\* record of the trail its place and its digest.  Only the overwrite of a tamper or
\* a restore takes records back, to a first part of the snapshot (all of it,
\* unless the overwrite was cut short), only the quarantine of a trail with broken
\* links empties it, and what is cut off from outside is gone.
AppendOnly ==
  [][\/ HashPrefix(file, file')
     \/ phase[Server] \in {"Tamper", "Restore"} /\ HashPrefix(file', pre)
     \/ ~ Linked(file) /\ file' = <<>>
     \/ LoseHead]_file

\* Out of doubt, verify-chain of the sidecar fails exactly while the tamper
\* demonstration has made a record of it unsound.  A read or a write of it that
\* raised, and a crash inside a write, leave it in doubt until a process starts
\* on a sidecar that verifies, deletes it or restores one that verifies.
SidecarEvident ==
  "sidecar" \notin doubt =>
    (EdsValid(sidecar) <=> \A i \in 1 .. Len(sidecar) : sidecar[i].sound)
=============================================================================
