--------------------------- MODULE AuditTrailProofs ---------------------------
(***************************************************************************)
(* Theorems about AuditTrail, for all faults: the types and what may be    *)
(* taken back for any writers, the chain of the trail and of the sidecar   *)
(* for one writer.                                                         *)
(***************************************************************************)
EXTENDS AuditTrail, TLAPS

-----------------------------------------------------------------------------
(* What the operators on chains return.                                    *)

\* A digest taken from a trail, and one taken from a sidecar.
LEMMA LastTypes ==
  /\ \A f \in Seq(AuditRecord) : LastHash(f) \in Seq(Body)
  /\ \A e \in SidecarRecord : EdsHash(e) \in Seq(SidecarLink)
  /\ \A s \in Seq(SidecarRecord) : EdsLast(s) \in Seq(SidecarLink)
<1>1. ASSUME NEW f \in Seq(AuditRecord)
      PROVE  LastHash(f) \in Seq(Body)
  <2>1. CASE f = <<>>
    BY <2>1 DEF LastHash, Genesis
  <2>2. CASE f # <<>>
    <3>1. Len(f) \in 1 .. Len(f)
      BY <2>2
    <3>2. f[Len(f)] \in AuditRecord
      BY <3>1
    <3> QED
      BY <2>2, <3>2 DEF LastHash, AuditRecord
  <2> QED
    BY <2>1, <2>2
<1>2. ASSUME NEW e \in SidecarRecord
      PROVE  EdsHash(e) \in Seq(SidecarLink)
  <2>1. /\ e.prev \in Seq(SidecarLink)
        /\ [payload |-> e.payload, sound |-> e.sound] \in SidecarLink
    BY DEF SidecarRecord, SidecarLink
  <2> QED
    BY <2>1 DEF EdsHash
<1>3. ASSUME NEW s \in Seq(SidecarRecord)
      PROVE  EdsLast(s) \in Seq(SidecarLink)
  <2>1. CASE s = <<>>
    BY <2>1 DEF EdsLast, Genesis
  <2>2. CASE s # <<>>
    <3>1. s[Len(s)] \in SidecarRecord
      BY <2>2
    <3> QED
      BY <2>2, <3>1, <1>2 DEF EdsLast
  <2> QED
    BY <2>1, <2>2
<1> QED
  BY <1>1, <1>2, <1>3

\* A new record of the trail, and the sidecar's record of it.
LEMMA RecordTypes ==
  /\ \A n \in 1 .. MaxEvents, p \in Seq(Body) : NewRecord(n, p) \in AuditRecord
  /\ \A d \in Seq(Body), p \in Seq(SidecarLink) : EdsRecord(d, p) \in SidecarRecord
<1>1. ASSUME NEW n \in 1 .. MaxEvents, NEW p \in Seq(Body)
      PROVE  NewRecord(n, p) \in AuditRecord
  <2>1. [id |-> n, flip |-> 0] \in Body
    BY DEF Body
  <2>2. Append(p, [id |-> n, flip |-> 0]) \in Seq(Body)
    BY <2>1
  <2> QED
    BY <2>1, <2>2 DEF NewRecord, AuditRecord, Digest
<1>2. ASSUME NEW d \in Seq(Body), NEW p \in Seq(SidecarLink)
      PROVE  EdsRecord(d, p) \in SidecarRecord
  BY DEF EdsRecord, SidecarRecord
<1> QED
  BY <1>1, <1>2

\* The trail with its second record altered: what stays and what changes.
LEMMA Tampered ==
  ASSUME NEW f \in Seq(AuditRecord), Len(f) >= 2,
         NEW g, g = [f EXCEPT ![2] = Altered(f[2])]
  PROVE  /\ g \in Seq(AuditRecord)
         /\ Len(g) = Len(f)
         /\ \A i \in 1 .. Len(f) :
              /\ g[i].hash = f[i].hash /\ g[i].prev = f[i].prev
              /\ g[i].body.id = f[i].body.id
         /\ g[2].body.flip # 0
<1>1. f[2] \in AuditRecord
  OBVIOUS
<1>2. Flip(f[2].body.flip) \in 1 .. 2
  BY DEF Flip
<1> DEFINE b == [id |-> f[2].body.id, flip |-> Flip(f[2].body.flip)]
<1>3. b \in Body /\ b.flip # 0 /\ b.id = f[2].body.id
  BY <1>1, <1>2 DEF AuditRecord, Body
<1>4. Altered(f[2]) = [body |-> b, prev |-> f[2].prev, hash |-> f[2].hash]
  BY DEF Altered
<1> HIDE DEF b
<1>5. /\ Altered(f[2]) \in AuditRecord /\ Altered(f[2]).body = b
      /\ Altered(f[2]).hash = f[2].hash /\ Altered(f[2]).prev = f[2].prev
  BY <1>1, <1>3, <1>4 DEF AuditRecord
<1>6. /\ g \in Seq(AuditRecord) /\ Len(g) = Len(f) /\ g[2] = Altered(f[2])
      /\ \A i \in 1 .. Len(f) : i # 2 => g[i] = f[i]
  BY <1>5
<1> QED
  BY <1>3, <1>5, <1>6

\* The sidecar with a record that no longer matches its signature.
LEMMA CorruptedType ==
  ASSUME NEW s \in Seq(SidecarRecord)
  PROVE  /\ Corrupted(s) \in Seq(SidecarRecord)
         /\ Len(Corrupted(s)) = Len(s)
         /\ s # <<>> => \E i \in 1 .. Len(s) : ~ Corrupted(s)[i].sound
<1>1. CASE s = <<>>
  BY <1>1 DEF Corrupted
<1>2. CASE s # <<>>
  <2> DEFINE k == IF Len(s) >= 2 THEN 2 ELSE 1
             r == [s[k] EXCEPT !.sound = FALSE]
  <2>1. k \in 1 .. Len(s)
    BY <1>2
  <2> HIDE DEF k
  <2>2. s[k] \in SidecarRecord
    BY <2>1
  <2>3. r \in SidecarRecord /\ ~ r.sound
    BY <2>2 DEF SidecarRecord
  <2>4. Corrupted(s) = [s EXCEPT ![k] = r]
    BY <1>2 DEF Corrupted, k
  <2> HIDE DEF r
  <2> QED
    BY <2>1, <2>3, <2>4
<1> QED
  BY <1>1, <1>2

-----------------------------------------------------------------------------
(* Types.                                                                  *)

\* TypeOK without the steps of the writers.
DataOK ==
  /\ file \in Seq(AuditRecord) /\ sidecar \in Seq(SidecarRecord)
  /\ torn \in BOOLEAN /\ cut \in BOOLEAN
  /\ prev \in [Writer -> Seq(Body)] /\ edsPrev \in [Writer -> Seq(SidecarLink)]
  /\ edsOn \in [Writer -> BOOLEAN]
  /\ pre = None \/ pre \in Seq(AuditRecord)
  /\ edsPre = None \/ edsPre \in Seq(SidecarRecord)
  /\ doubt \subseteq {"file", "sidecar"}
  /\ events \in Nat /\ starts \in Nat

\* What the server holds in a step.
Holds(step) ==
  /\ step \in {"Tamper", "Restore"} => pre \in Seq(AuditRecord)
  /\ step = "Tamper" => Len(pre) >= 2
  /\ step \in {"TamperSidecar", "RestoreSidecar"} => edsPre \in Seq(SidecarRecord)

\* What a writer has to do in a step.
Fits(step, rest) ==
  /\ step \in Step /\ rest \in Seq(AuditRecord)
  /\ rest # <<>> <=> step \in {"Seal", "File", "Backfill"}

LEMMA TypeParts ==
  TypeOK <=>
    /\ DataOK /\ Holds(phase[Server])
    /\ phase \in [Writer -> Step] /\ todo \in [Writer -> Seq(AuditRecord)]
    /\ \A w \in Writer : Fits(phase[w], todo[w])
<1>1. ASSUME phase \in [Writer -> Step], todo \in [Writer -> Seq(AuditRecord)]
      PROVE  (\A w \in Writer : Fits(phase[w], todo[w])) <=>
               \A w \in Writer : todo[w] # <<>> <=> phase[w] \in {"Seal", "File", "Backfill"}
  BY <1>1 DEF Fits
<1> QED
  BY <1>1 DEF TypeOK, DataOK, Holds

\* A writer goes on: the others stay where they are.
LEMMA GotoType ==
  ASSUME TypeOK, NEW w \in Writer, NEW step, NEW rest, Goto(w, step, rest),
         Fits(step, rest), DataOK',
         IF w = Server THEN Holds(step)' ELSE UNCHANGED tamper
  PROVE  TypeOK'
<1> USE ConstantsAssumption
<1>1. /\ phase \in [Writer -> Step] /\ todo \in [Writer -> Seq(AuditRecord)]
      /\ Holds(phase[Server]) /\ \A v \in Writer : Fits(phase[v], todo[v])
  BY TypeParts
<1>2. step \in Step /\ rest \in Seq(AuditRecord)
  BY DEF Fits
<1>3. /\ phase' \in [Writer -> Step] /\ todo' \in [Writer -> Seq(AuditRecord)]
      /\ phase'[w] = step /\ todo'[w] = rest
      /\ \A v \in Writer : v # w => phase'[v] = phase[v] /\ todo'[v] = todo[v]
  BY <1>1, <1>2 DEF Goto
<1>4. \A v \in Writer : Fits(phase'[v], todo'[v])
  BY <1>1, <1>3
<1>5. Holds(phase[Server])'
  <2>1. CASE w = Server
    BY <2>1, <1>3 DEF Holds
  <2>2. CASE w # Server
    BY <2>2, <1>1, <1>3 DEF Holds, tamper
  <2> QED
    BY <2>1, <2>2
<1>6. /\ todo' \in [Writer -> Seq(AuditRecord)]
      /\ \A v \in Writer : todo'[v] # <<>> <=> phase'[v] \in {"Seal", "File", "Backfill"}
  BY <1>3, <1>4 DEF Fits
<1> QED
  BY <1>3, <1>5, <1>6 DEF TypeOK, DataOK, Holds

\* What the steps that write are about.
LEMMA TodoType ==
  ASSUME TypeOK, NEW w \in Writer, phase[w] \in {"Seal", "File", "Backfill"}
  PROVE  /\ todo[w] \in Seq(AuditRecord) /\ todo[w] # <<>>
         /\ Head(todo[w]) \in AuditRecord /\ Tail(todo[w]) \in Seq(AuditRecord)
<1>1. todo[w] \in Seq(AuditRecord) /\ todo[w] # <<>>
  BY DEF TypeOK
<1> QED
  BY <1>1

\* One record's step through the sidecar.
LEMMA SealType ==
  ASSUME TypeOK, NEW w \in Writer, Seal(w)
  PROVE  TypeOK'
<1> DEFINE r == Head(todo[w])
           e == EdsRecord(Digest(r.body, r.prev), edsPrev[w])
<1>1. /\ phase[w] \in {"Seal", "Backfill"}
      /\ UNCHANGED <<file, torn, prev, edsOn, tamper, events, starts>>
      /\ \/ (SealSkips(w) \/ SealWrites(w, e)) /\ Onward(w)
         \/ SealRaises(w, e) /\ Abort(w)
  BY DEF Seal
<1>2. todo[w] \in Seq(AuditRecord) /\ todo[w] # <<>> /\ r \in AuditRecord /\ Tail(todo[w]) \in Seq(AuditRecord)
  BY <1>1, TodoType
<1>3. Digest(r.body, r.prev) \in Seq(Body) /\ edsPrev[w] \in Seq(SidecarLink)
  BY <1>2 DEF TypeOK, AuditRecord, Digest
<1>4. e \in SidecarRecord
  BY <1>3, RecordTypes
<1>5. EdsHash(e) \in Seq(SidecarLink)
  BY <1>4, LastTypes
<1> HIDE DEF e, r
<1>6. EdsAdvance(w, e) => edsPrev' \in [Writer -> Seq(SidecarLink)]
  BY <1>5 DEF EdsAdvance, TypeOK
<1>7. DataOK'
  <2>1. DataOK
    BY TypeParts
  <2>2. Append(sidecar, e) \in Seq(SidecarRecord) /\ <<>> \in Seq(SidecarRecord)
    BY <1>4, <2>1 DEF DataOK
  <2>3. /\ sidecar' \in Seq(SidecarRecord) /\ cut' \in BOOLEAN
        /\ edsPrev' \in [Writer -> Seq(SidecarLink)] /\ doubt' \subseteq {"file", "sidecar"}
    BY <1>1, <1>6, <2>1, <2>2
       DEF SealSkips, SealWrites, SealRaises, SidecarCutShort, DataOK
  <2> QED
    BY <1>1, <2>1, <2>3 DEF DataOK, tamper
<1>8. ASSUME NEW step, NEW rest, Goto(w, step, rest), Fits(step, rest),
             step \in {"File", "Repair", "Backfill", "idle"}
      PROVE  TypeOK'
  <2>1. IF w = Server THEN Holds(step)' ELSE UNCHANGED tamper
    BY <1>1, <1>8 DEF Holds
  <2> QED
    BY <1>7, <1>8, <2>1, GotoType
<1>9. CASE Onward(w) /\ phase[w] = "Seal"
  <2>1. Goto(w, "File", todo[w]) /\ Fits("File", todo[w])
    BY <1>2, <1>9 DEF Onward, Fits, Step
  <2> QED
    BY <1>8, <2>1
<1>10. CASE Onward(w) /\ phase[w] = "Backfill" /\ Tail(todo[w]) = <<>>
  <2>1. Goto(w, "Repair", Tail(todo[w])) /\ Fits("Repair", Tail(todo[w]))
    BY <1>2, <1>10 DEF Onward, Fits, Step
  <2> QED
    BY <1>8, <2>1
<1>11. CASE Onward(w) /\ phase[w] = "Backfill" /\ Tail(todo[w]) # <<>>
  <2>1. Goto(w, "Backfill", Tail(todo[w])) /\ Fits("Backfill", Tail(todo[w]))
    BY <1>2, <1>11 DEF Onward, Fits, Step
  <2> QED
    BY <1>8, <2>1
<1>12. CASE Abort(w)
  <2>1. Fits("idle", <<>>) /\ Fits("Repair", <<>>)
    BY DEF Fits, Step
  <2>2. Goto(w, "idle", <<>>) \/ Goto(w, "Repair", <<>>)
    BY <1>12 DEF Abort
  <2> QED
    BY <1>8, <2>1, <2>2
<1> QED
  BY <1>1, <1>9, <1>10, <1>11, <1>12

\* What the demonstration overwrites the files with.
LEMMA NewTypes ==
  ASSUME TypeOK
  PROVE  /\ phase[Server] \in {"Tamper", "Restore"} =>
              NewTrail \in Seq(AuditRecord) /\ HashPrefix(NewTrail, pre)
         /\ phase[Server] \in {"TamperSidecar", "RestoreSidecar"} =>
              NewSidecar \in Seq(SidecarRecord)
<1>1. CASE phase[Server] = "Tamper"
  <2>1. pre \in Seq(AuditRecord) /\ Len(pre) >= 2
    BY <1>1 DEF TypeOK
  <2>2. NewTrail = [pre EXCEPT ![2] = Altered(pre[2])]
    BY <1>1 DEF NewTrail
  <2>3. /\ NewTrail \in Seq(AuditRecord) /\ Len(NewTrail) = Len(pre)
        /\ \A i \in 1 .. Len(pre) : NewTrail[i].hash = pre[i].hash
    BY <2>1, <2>2, Tampered
  <2> QED
    BY <1>1, <2>1, <2>3 DEF HashPrefix
<1>2. CASE phase[Server] = "Restore"
  <2>1. pre \in Seq(AuditRecord) /\ NewTrail = pre
    BY <1>2 DEF TypeOK, NewTrail
  <2> QED
    BY <1>2, <2>1 DEF HashPrefix
<1>3. CASE phase[Server] = "TamperSidecar"
  BY <1>3, CorruptedType DEF NewSidecar, TypeOK
<1>4. CASE phase[Server] = "RestoreSidecar"
  BY <1>4 DEF NewSidecar, TypeOK
<1> QED
  BY <1>1, <1>2, <1>3, <1>4

\* What is left of an overwrite of the file.
LEMMA CutType ==
  ASSUME TypeOK, phase[Server] \in {"Tamper", "Restore"}, FileCutShort
  PROVE  /\ file' \in Seq(AuditRecord) /\ torn' \in BOOLEAN
         /\ HashPrefix(file', pre)
         /\ \E n \in 0 .. Len(NewTrail) : file' = SubSeq(NewTrail, 1, n)
<1>1. NewTrail \in Seq(AuditRecord) /\ HashPrefix(NewTrail, pre)
  BY NewTypes
<1>2. PICK n \in 0 .. Len(NewTrail) : file' = SubSeq(NewTrail, 1, n) /\ torn' \in BOOLEAN
  BY DEF FileCutShort
<1>3. /\ file' \in Seq(AuditRecord) /\ Len(file') = n
      /\ \A i \in 1 .. n : file'[i] = NewTrail[i]
  BY <1>1, <1>2
<1>4. n <= Len(pre) /\ \A i \in 1 .. n : NewTrail[i].hash = pre[i].hash
  BY <1>1, <1>2 DEF HashPrefix
<1> QED
  BY <1>2, <1>3, <1>4 DEF HashPrefix

\* The demonstration: snapshots, overwrites and what is left of them.
LEMMA DemoType ==
  ASSUME TypeOK,
         \/ InjectTamper \/ RestoreTamper \/ Reset
         \/ Overwrite \/ OverwriteFails \/ ReplaceSidecar \/ ReplaceFails
  PROVE  TypeOK'
<1> USE ConstantsAssumption
<1>1. /\ DataOK /\ Holds(phase[Server])
      /\ Fits("idle", <<>>) /\ Fits("Tamper", <<>>) /\ Fits("Restore", <<>>)
      /\ Fits("TamperSidecar", <<>>) /\ Fits("RestoreSidecar", <<>>)
  BY TypeParts DEF Fits, Step
<1>2. Holds("idle")'
  BY DEF Holds
<1>3. CASE InjectTamper
  <2>1. /\ file \in Seq(AuditRecord) /\ Len(file) >= 2 /\ pre' = file
        /\ UNCHANGED <<disk, chains, doubt, events, starts>>
    BY <1>3 DEF InjectTamper, TypeOK
  <2>2. CASE UNCHANGED <<edsPre, phase, todo>>
    <3>1. DataOK'
      BY <1>1, <2>1, <2>2 DEF DataOK, disk, chains
    <3>2. phase[Server] = "idle"
      BY <1>3 DEF InjectTamper, Ready
    <3> QED
      BY <2>2, <3>1, <3>2 DEF TypeOK, DataOK
  <2>3. CASE /\ edsPre' = IF edsOn[Server] THEN sidecar ELSE None
             /\ Goto(Server, "Tamper", <<>>)
    <3>1. DataOK'
      BY <1>1, <2>1, <2>3 DEF DataOK, disk, chains
    <3>2. Holds("Tamper")'
      BY <2>1 DEF Holds
    <3> QED
      BY <1>1, <2>3, <3>1, <3>2, GotoType
  <2> QED
    BY <1>3, <2>2, <2>3 DEF InjectTamper
<1>4. CASE RestoreTamper
  <2>1. /\ pre \in Seq(AuditRecord) /\ Goto(Server, "Restore", <<>>)
        /\ UNCHANGED <<disk, chains, tamper, doubt, events, starts>>
    BY <1>4 DEF RestoreTamper, TypeOK
  <2>2. DataOK' /\ Holds("Restore")'
    BY <1>1, <2>1 DEF DataOK, Holds, disk, chains, tamper
  <2> QED
    BY <1>1, <2>1, <2>2, GotoType
<1>5. CASE Reset
  BY <1>5 DEF Reset, Ready, TypeOK, disk, chains
<1>6. CASE Overwrite
  <2>1. /\ phase[Server] \in {"Tamper", "Restore"}
        /\ file' = NewTrail /\ torn' = FALSE
        /\ prev' = [prev EXCEPT ![Server] = LastHash(NewTrail)]
        /\ doubt' \subseteq doubt
        /\ Goto(Server, SidecarStep, <<>>)
        /\ UNCHANGED <<sidecar, cut, edsOn, edsPrev, tamper, events, starts>>
    BY <1>6 DEF Overwrite, Rewind
  <2>2. NewTrail \in Seq(AuditRecord) /\ LastHash(NewTrail) \in Seq(Body)
    BY <2>1, NewTypes, LastTypes
  <2>3. DataOK'
    BY <1>1, <2>1, <2>2 DEF DataOK, tamper
  <2>4. CASE SidecarStep = "idle"
    BY <1>1, <1>2, <2>1, <2>3, <2>4, GotoType
  <2>5. CASE SidecarStep # "idle"
    <3>1. edsPre # None /\ SidecarStep \in {"TamperSidecar", "RestoreSidecar"}
      BY <2>1, <2>5 DEF SidecarStep
    <3>2. edsPre' \in Seq(SidecarRecord)
      BY <1>1, <2>1, <3>1 DEF DataOK, tamper
    <3>3. Holds("TamperSidecar")' /\ Holds("RestoreSidecar")'
      BY <3>2 DEF Holds
    <3>4. Goto(Server, "TamperSidecar", <<>>) \/ Goto(Server, "RestoreSidecar", <<>>)
      BY <2>1, <3>1
    <3> QED
      BY <1>1, <2>3, <3>3, <3>4, GotoType
  <2> QED
    BY <2>4, <2>5
<1>7. CASE OverwriteFails
  <2>1. /\ phase[Server] \in {"Tamper", "Restore"} /\ Goto(Server, "idle", <<>>)
        /\ UNCHANGED <<file, torn>> \/ FileCutShort
        /\ doubt' \subseteq doubt \union {"file"}
        /\ UNCHANGED <<sidecar, cut, chains, tamper, events, starts>>
    BY <1>7 DEF OverwriteFails
  <2>2. file' \in Seq(AuditRecord) /\ torn' \in BOOLEAN
    BY <1>1, <2>1, CutType DEF DataOK
  <2>3. DataOK'
    BY <1>1, <2>1, <2>2 DEF DataOK, chains, tamper
  <2> QED
    BY <1>1, <1>2, <2>1, <2>3, GotoType
<1>8. CASE ReplaceSidecar
  <2>1. /\ phase[Server] \in {"TamperSidecar", "RestoreSidecar"} /\ Goto(Server, "idle", <<>>)
        /\ sidecar' = NewSidecar /\ cut' = FALSE
        /\ edsPrev' = [edsPrev EXCEPT ![Server] = EdsLast(NewSidecar)]
        /\ doubt' \subseteq doubt
        /\ UNCHANGED <<file, torn, prev, edsOn, tamper, events, starts>>
    BY <1>8 DEF ReplaceSidecar
  <2>2. NewSidecar \in Seq(SidecarRecord) /\ EdsLast(NewSidecar) \in Seq(SidecarLink)
    BY <2>1, NewTypes, LastTypes
  <2>3. DataOK'
    BY <1>1, <2>1, <2>2 DEF DataOK, tamper
  <2> QED
    BY <1>1, <1>2, <2>1, <2>3, GotoType
<1>9. CASE ReplaceFails
  <2>1. /\ phase[Server] \in {"TamperSidecar", "RestoreSidecar"} /\ Goto(Server, "idle", <<>>)
        /\ \/ UNCHANGED <<sidecar, cut>>
           \/ SidecarCutShort
           \/ sidecar' = NewSidecar /\ cut' = FALSE
        /\ doubt' \subseteq doubt \union {"sidecar"}
        /\ UNCHANGED <<file, torn, chains, tamper, events, starts>>
    BY <1>9 DEF ReplaceFails
  <2>2. sidecar' \in Seq(SidecarRecord) /\ cut' \in BOOLEAN
    <3>1. NewSidecar \in Seq(SidecarRecord) /\ <<>> \in Seq(SidecarRecord)
      BY <2>1, NewTypes
    <3> QED
      BY <1>1, <2>1, <3>1 DEF SidecarCutShort, DataOK
  <2>3. DataOK'
    BY <1>1, <2>1, <2>2 DEF DataOK, chains, tamper
  <2> QED
    BY <1>1, <1>2, <2>1, <2>3, GotoType
<1> QED
  BY <1>3, <1>4, <1>5, <1>6, <1>7, <1>8, <1>9

\* The end of a process and what it leaves of a write.
LEMMA CrashType ==
  ASSUME TypeOK, NEW w \in Writer, Crash(w)
  PROVE  TypeOK'
<1> USE ConstantsAssumption
<1>1. /\ DataOK /\ Goto(w, "down", <<>>)
      /\ UNCHANGED <<disk, doubt>> \/ CutShort(w)
      /\ IF w = Server THEN pre' = None /\ edsPre' = None ELSE UNCHANGED tamper
      /\ UNCHANGED <<chains, events, starts>>
  BY TypeParts DEF Crash
<1>2. /\ file' \in Seq(AuditRecord) /\ sidecar' \in Seq(SidecarRecord)
      /\ torn' \in BOOLEAN /\ cut' \in BOOLEAN /\ doubt' \subseteq {"file", "sidecar"}
  <2>1. CASE UNCHANGED <<disk, doubt>>
    BY <1>1, <2>1 DEF DataOK, disk
  <2>2. CASE CutShort(w)
    <3>1. CASE w = Server /\ phase[w] \in {"Tamper", "Restore"} /\ FileCutShort
      BY <1>1, <2>2, <3>1, CutType DEF CutShort, DataOK
    <3>2. CASE SidecarCutShort /\ doubt' = doubt \union {"sidecar"} /\ UNCHANGED <<file, torn>>
      <4>1. <<>> \in Seq(SidecarRecord)
        OBVIOUS
      <4> QED
        BY <1>1, <3>2, <4>1 DEF SidecarCutShort, DataOK
    <3>3. CASE torn' = TRUE /\ UNCHANGED <<file, sidecar, cut, doubt>>
      BY <1>1, <3>3 DEF DataOK
    <3> QED
      BY <2>2, <3>1, <3>2, <3>3 DEF CutShort
  <2> QED
    BY <1>1, <2>1, <2>2
<1>3. DataOK'
  BY <1>1, <1>2 DEF DataOK, chains, tamper
<1>4. Fits("down", <<>>) /\ Holds("down")'
  BY DEF Fits, Holds, Step
<1> QED
  BY <1>1, <1>3, <1>4, GotoType

\* The start of a process.
LEMMA StartType ==
  ASSUME TypeOK, NEW w \in Writer, Start(w) \/ Repair(w) \/ Clear(w) \/ StartFails(w)
  PROVE  TypeOK'
<1>1. /\ DataOK /\ Fits("Repair", <<>>) /\ Fits("Clear", <<>>) /\ Fits("idle", <<>>)
      /\ Fits("down", <<>>)
  BY TypeParts DEF Fits, Step
<1>2. \A step \in {"Backfill", "Repair", "Clear", "idle", "down"} : Holds(step)'
  BY DEF Holds
<1>3. CASE Start(w)
  <2>1. /\ starts' = starts + 1 /\ prev' = [prev EXCEPT ![w] = Genesis]
        /\ \E on \in BOOLEAN : edsOn' = [edsOn EXCEPT ![w] = on]
        /\ \E p \in {EdsLast(sidecar), Genesis} : edsPrev' = [edsPrev EXCEPT ![w] = p]
        /\ doubt' \subseteq doubt
        /\ \/ file # <<>> /\ Goto(w, "Backfill", file)
           \/ Goto(w, "Repair", <<>>)
        /\ UNCHANGED <<disk, tamper, events>>
    BY <1>3 DEF Start
  <2>2. /\ prev' \in [Writer -> Seq(Body)] /\ edsOn' \in [Writer -> BOOLEAN]
        /\ edsPrev' \in [Writer -> Seq(SidecarLink)]
    <3>1. /\ Genesis \in Seq(Body) /\ Genesis \in Seq(SidecarLink)
          /\ EdsLast(sidecar) \in Seq(SidecarLink)
      BY <1>1, LastTypes DEF Genesis, DataOK
    <3> QED
      BY <1>1, <2>1, <3>1 DEF DataOK
  <2>3. DataOK'
    BY <1>1, <2>1, <2>2 DEF DataOK, disk, tamper
  <2>4. CASE file # <<>> /\ Goto(w, "Backfill", file)
    <3>1. Fits("Backfill", file)
      BY <1>1, <2>4 DEF Fits, Step, DataOK
    <3> QED
      BY <1>2, <2>1, <2>3, <2>4, <3>1, GotoType
  <2>5. CASE Goto(w, "Repair", <<>>)
    BY <1>1, <1>2, <2>1, <2>3, <2>5, GotoType
  <2> QED
    BY <2>1, <2>4, <2>5
<1>4. CASE Repair(w)
  <2>1. /\ file' = <<>> \/ file' = file
        /\ prev' = [prev EXCEPT ![w] = LastHash(file')]
        /\ doubt' \subseteq doubt
        /\ Goto(w, "Clear", <<>>) \/ Goto(w, "idle", <<>>)
        /\ UNCHANGED <<torn, sidecar, cut, edsOn, edsPrev, tamper, events, starts>>
    BY <1>4 DEF Repair, Rewind
  <2>2. file' \in Seq(AuditRecord) /\ LastHash(file') \in Seq(Body)
    <3>1. file \in Seq(AuditRecord) /\ <<>> \in Seq(AuditRecord)
      BY <1>1 DEF DataOK
    <3> QED
      BY <2>1, <3>1, LastTypes
  <2>3. DataOK'
    BY <1>1, <2>1, <2>2 DEF DataOK, tamper
  <2> QED
    BY <1>1, <1>2, <2>1, <2>3, GotoType
<1>5. CASE Clear(w)
  <2>1. /\ sidecar' = <<>> /\ cut' = FALSE /\ doubt' \subseteq doubt
        /\ edsPrev' = [edsPrev EXCEPT ![w] = Genesis]
        /\ prev' = [prev EXCEPT ![w] = LastHash(file)]
        /\ Goto(w, "idle", <<>>)
        /\ UNCHANGED <<file, torn, edsOn, tamper, events, starts>>
    BY <1>5 DEF Clear, Rewind
  <2>2. /\ LastHash(file) \in Seq(Body) /\ Genesis \in Seq(SidecarLink)
        /\ <<>> \in Seq(SidecarRecord)
    BY <1>1, LastTypes DEF DataOK, Genesis
  <2>3. DataOK'
    BY <1>1, <2>1, <2>2 DEF DataOK, tamper
  <2> QED
    BY <1>1, <1>2, <2>1, <2>3, GotoType
<1>6. CASE StartFails(w)
  <2>1. Goto(w, "down", <<>>) /\ UNCHANGED <<disk, chains, tamper, doubt, events, starts>>
    BY <1>6 DEF StartFails
  <2>2. DataOK'
    BY <1>1, <2>1 DEF DataOK, disk, chains, tamper
  <2> QED
    BY <1>1, <1>2, <2>1, <2>2, GotoType
<1> QED
  BY <1>3, <1>4, <1>5, <1>6

\* Every step keeps the types.
LEMMA TypeStep ==
  ASSUME TypeOK, [Next]_vars
  PROVE  TypeOK'
<1>1. /\ DataOK /\ Fits("idle", <<>>) /\ Holds("idle")' /\ Holds("Seal")'
  BY TypeParts DEF Fits, Holds, Step
<1>2. ASSUME NEW w \in Writer, Begin(w)
      PROVE  TypeOK'
  <2> DEFINE r == NewRecord(events + 1, prev[w])
  <2>1. /\ events + 1 \in 1 .. MaxEvents /\ prev[w] \in Seq(Body)
        /\ events' = events + 1 /\ Goto(w, "Seal", <<r>>)
        /\ UNCHANGED <<disk, chains, tamper, doubt, starts>>
    BY <1>1, <1>2, ConstantsAssumption DEF Begin, DataOK
  <2>2. r \in AuditRecord
    BY <2>1, RecordTypes
  <2> HIDE DEF r
  <2>3. Fits("Seal", <<r>>)
    BY <2>2 DEF Fits, Step
  <2>4. DataOK'
    BY <1>1, <2>1 DEF DataOK, disk, chains, tamper
  <2> QED
    BY <1>1, <2>1, <2>3, <2>4, GotoType
<1>3. ASSUME NEW w \in Writer, WriteLine(w)
      PROVE  TypeOK'
  <2>1. Head(todo[w]) \in AuditRecord
    BY <1>3, TodoType DEF WriteLine
  <2>2. /\ file' \in Seq(AuditRecord) /\ prev' \in [Writer -> Seq(Body)]
        /\ Goto(w, "idle", <<>>)
        /\ UNCHANGED <<torn, sidecar, cut, edsOn, edsPrev, tamper, doubt, events, starts>>
    <3>1. Head(todo[w]).hash \in Seq(Body) /\ Append(file, Head(todo[w])) \in Seq(AuditRecord)
      BY <1>1, <2>1 DEF DataOK, AuditRecord
    <3> QED
      BY <1>1, <1>3, <3>1 DEF WriteLine, AppendLine, DataOK
  <2>3. DataOK'
    BY <1>1, <2>2 DEF DataOK, tamper
  <2> QED
    BY <1>1, <2>2, <2>3, GotoType
<1>4. ASSUME NEW w \in Writer, WriteFails(w)
      PROVE  TypeOK'
  <2>1. /\ torn' \in BOOLEAN /\ Goto(w, "idle", <<>>)
        /\ UNCHANGED <<file, sidecar, cut, prev, edsOn, edsPrev, tamper, doubt, events, starts>>
    BY <1>1, <1>4 DEF WriteFails, KeepPrev, DataOK
  <2>2. DataOK'
    BY <1>1, <2>1 DEF DataOK, tamper
  <2> QED
    BY <1>1, <2>1, <2>2, GotoType
<1>5. CASE LoseHead
  <2>1. Tail(file) \in Seq(AuditRecord)
    BY <1>1, <1>5 DEF LoseHead, DataOK
  <2> QED
    BY <1>5, <2>1 DEF LoseHead, TypeOK, chains, tamper
<1>6. CASE UNCHANGED vars
  BY <1>6 DEF vars, disk, chains, tamper, TypeOK
<1> QED
  BY <1>2, <1>3, <1>4, <1>5, <1>6, SealType, CrashType, StartType, DemoType DEF Next

\* The first process finds nothing.
LEMMA TrailInit ==
  ASSUME Init
  PROVE  TypeOK
<1>1. DataOK
  <2>1. /\ <<>> \in Seq(AuditRecord) /\ <<>> \in Seq(SidecarRecord)
        /\ <<>> \in Seq(Body) /\ <<>> \in Seq(SidecarLink)
    OBVIOUS
  <2> QED
    BY <2>1 DEF Init, Genesis, DataOK
<1>2. /\ phase \in [Writer -> Step] /\ todo \in [Writer -> Seq(AuditRecord)]
      /\ \A w \in Writer : Fits(phase[w], todo[w])
      /\ \A w \in Writer : phase[w] = "down"
  BY DEF Init, Fits, Step
<1>3. Holds(phase[Server])
  BY <1>2, ConstantsAssumption DEF Holds
<1> QED
  BY <1>1, <1>2, <1>3, TypeParts

\* The variables keep their types, whatever fails and however many processes
\* write the file.
THEOREM TrailTypeCorrect == Spec => []TypeOK
<1>1. Init => TypeOK
  BY TrailInit
<1>2. TypeOK /\ [Next]_vars => TypeOK'
  BY TypeStep
<1> QED
  BY <1>1, <1>2, PTL DEF Spec

-----------------------------------------------------------------------------
(* Chains of which at most bodies were altered.                            *)

\* The digest of a record is the one of the body it was sealed with.
Sealed(r) == r.hash = Append(r.prev, [id |-> r.body.id, flip |-> 0])
AllSealed(f) == \A i \in 1 .. Len(f) : Sealed(f[i])

\* A trail that was only appended to and tampered with.
Whole(f) == Linked(f) /\ AllSealed(f)

\* A record sealed after the last one of a whole trail keeps it whole.
LEMMA WholeAppend ==
  ASSUME NEW f \in Seq(AuditRecord), NEW r \in AuditRecord,
         Whole(f), Sealed(r), r.prev = LastHash(f)
  PROVE  Whole(Append(f, r)) /\ LastHash(Append(f, r)) = r.hash
<1> DEFINE g == Append(f, r)
<1>1. /\ Len(f) \in Nat /\ Len(g) = Len(f) + 1 /\ g[Len(g)] = r /\ g # <<>>
      /\ \A i \in 1 .. Len(f) : g[i] = f[i]
  OBVIOUS
<1> HIDE DEF g
<1>2. LastHash(f) = IF Len(f) = 0 THEN Genesis ELSE f[Len(f)].hash
  BY DEF LastHash
<1>3. ASSUME NEW i \in 1 .. Len(g)
      PROVE  g[i].prev = (IF i = 1 THEN Genesis ELSE g[i - 1].hash) /\ Sealed(g[i])
  <2>1. CASE i \in 1 .. Len(f)
    <3>1. i # 1 => i - 1 \in 1 .. Len(f)
      BY <1>1, <2>1
    <3> QED
      BY <1>1, <2>1, <3>1 DEF Whole, AllSealed, Linked
  <2>2. CASE i = Len(f) + 1
    <3>1. g[i] = r
      BY <1>1, <2>2
    <3>2. CASE Len(f) = 0
      BY <1>2, <2>2, <3>1, <3>2
    <3>3. CASE Len(f) # 0
      <4>1. i # 1 /\ i - 1 = Len(f) /\ g[i - 1] = f[Len(f)]
        BY <1>1, <2>2, <3>3
      <4> QED
        BY <1>2, <3>1, <3>3, <4>1
    <3> QED
      BY <3>2, <3>3
  <2> QED
    BY <1>1, <2>1, <2>2
<1>4. Whole(g) /\ LastHash(g) = r.hash
  BY <1>1, <1>3 DEF Whole, AllSealed, Linked, LastHash
<1> QED
  BY <1>4 DEF g

\* What is appended to a trail, and a tamper, leave the records sealed; a tamper
\* leaves the links.
LEMMA SealedStays ==
  ASSUME NEW f \in Seq(AuditRecord)
  PROVE  /\ \A r \in AuditRecord : AllSealed(f) /\ Sealed(r) => AllSealed(Append(f, r))
         /\ \A g : Len(f) >= 2 /\ g = [f EXCEPT ![2] = Altered(f[2])] =>
              (AllSealed(f) => AllSealed(g)) /\ (Linked(f) <=> Linked(g))
<1>1. ASSUME NEW r \in AuditRecord, AllSealed(f), Sealed(r)
      PROVE  AllSealed(Append(f, r))
  <2>1. /\ Len(Append(f, r)) = Len(f) + 1 /\ Append(f, r)[Len(f) + 1] = r
        /\ \A i \in 1 .. Len(f) : Append(f, r)[i] = f[i]
    OBVIOUS
  <2> QED
    BY <1>1, <2>1 DEF AllSealed
<1>2. ASSUME NEW g, Len(f) >= 2, g = [f EXCEPT ![2] = Altered(f[2])]
      PROVE  (AllSealed(f) => AllSealed(g)) /\ (Linked(f) <=> Linked(g))
  <2>1. /\ Len(g) = Len(f)
        /\ \A i \in 1 .. Len(f) :
             /\ g[i].hash = f[i].hash /\ g[i].prev = f[i].prev
             /\ g[i].body.id = f[i].body.id
    BY <1>2, Tampered
  <2>2. AllSealed(f) => AllSealed(g)
    BY <2>1 DEF AllSealed, Sealed
  <2>3. \A i \in 1 .. Len(f) : i # 1 => i - 1 \in 1 .. Len(f)
    OBVIOUS
  <2>4. Linked(f) <=> Linked(g)
    BY <2>1, <2>3 DEF Linked
  <2> QED
    BY <2>2, <2>4
<1> QED
  BY <1>1, <1>2

\* So does what cuts a trail short, at its end or at its head.
LEMMA SealedCut ==
  ASSUME NEW f \in Seq(AuditRecord), AllSealed(f)
  PROVE  /\ \A n \in 0 .. Len(f) :
              /\ AllSealed(SubSeq(f, 1, n))
              /\ Linked(f) => Linked(SubSeq(f, 1, n))
         /\ f # <<>> => AllSealed(Tail(f))
<1>1. ASSUME NEW n \in 0 .. Len(f)
      PROVE  /\ AllSealed(SubSeq(f, 1, n))
             /\ Linked(f) => Linked(SubSeq(f, 1, n))
  <2> DEFINE g == SubSeq(f, 1, n)
  <2>1. Len(g) = n /\ \A i \in 1 .. n : g[i] = f[i]
    OBVIOUS
  <2> HIDE DEF g
  <2>2. \A i \in 1 .. n : i \in 1 .. Len(f) /\ (i # 1 => i - 1 \in 1 .. n)
    OBVIOUS
  <2>3. AllSealed(g) /\ (Linked(f) => Linked(g))
    BY <2>1, <2>2 DEF AllSealed, Linked
  <2> QED
    BY <2>3 DEF g
<1>2. ASSUME f # <<>>
      PROVE  AllSealed(Tail(f))
  <2>1. /\ Len(Tail(f)) = Len(f) - 1
        /\ \A i \in 1 .. Len(f) - 1 : Tail(f)[i] = f[i + 1] /\ i + 1 \in 1 .. Len(f)
    BY <1>2
  <2> QED
    BY <2>1 DEF AllSealed
<1> QED
  BY <1>1, <1>2

\* Recomputing the digests of a whole trail finds exactly the altered bodies.
LEMMA WholeVerified ==
  ASSUME NEW f \in Seq(AuditRecord), Whole(f)
  PROVE  Verified(f) <=> Unaltered(f)
<1>1. ASSUME NEW i \in 1 .. Len(f)
      PROVE  f[i].hash = Digest(f[i].body, f[i].prev) <=> f[i].body.flip = 0
  <2> DEFINE b == [id |-> f[i].body.id, flip |-> 0]
  <2>1. f[i] \in AuditRecord
    OBVIOUS
  <2>2. f[i].body \in Body /\ f[i].prev \in Seq(Body)
    BY <2>1 DEF AuditRecord
  <2>3. f[i].hash = Append(f[i].prev, b)
    BY DEF Whole, AllSealed, Sealed
  <2>4. f[i].body = b <=> f[i].body.flip = 0
    BY <2>2 DEF Body
  <2>5. b \in Body
    BY <2>2 DEF Body
  <2> HIDE DEF b
  <2>6. Append(f[i].prev, b) = Append(f[i].prev, f[i].body) <=> b = f[i].body
    <3>1. /\ Append(f[i].prev, b)[Len(f[i].prev) + 1] = b
          /\ Append(f[i].prev, f[i].body)[Len(f[i].prev) + 1] = f[i].body
      BY <2>2, <2>5
    <3> QED
      BY <3>1
  <2> QED
    BY <2>3, <2>4, <2>6 DEF Digest
<1> QED
  BY <1>1 DEF Verified, Unaltered, Whole

-----------------------------------------------------------------------------
(* The trail of one writer.                                                *)

\* The server alone writes the file.
Alone == Writer = {Server}

\* A process that does not run yet, or not any more.
Starting == phase[Server] \in {"down", "Backfill", "Repair", "Clear"}

\* The server has a snapshot of the trail.
HasTrail == pre # None \/ phase[Server] \in {"Tamper", "Restore"}

\* Every record of the trail, of its snapshot and in hand was sealed; that in hand
\* over the digest in memory.  Out of doubt the links hold, those of the snapshot
\* too, and the digest in memory is that of the last record, unless a torn line
\* hides what follows it.  A process that starts has no snapshot.
ChainInv ==
  /\ AllSealed(file)
  /\ HasTrail => AllSealed(pre)
  /\ Starting => pre = None
  /\ phase[Server] \in {"Seal", "File"} =>
       Sealed(Head(todo[Server])) /\ Head(todo[Server]).prev = prev[Server]
  /\ "file" \notin doubt =>
       /\ Linked(file)
       /\ HasTrail => Linked(pre)
       /\ ~ Starting /\ ~ torn => prev[Server] = LastHash(file)

\* The steps of an append.
LEMMA ChainAppend ==
  ASSUME Alone, TypeOK, ChainInv, Begin(Server) \/ Seal(Server) \/ WriteLine(Server) \/ WriteFails(Server)
  PROVE  ChainInv'
<1> USE ConstantsAssumption
<1>1. phase[Server] \in Step /\ todo[Server] \in Seq(AuditRecord)
  BY DEF TypeOK
<1>2. CASE Begin(Server)
  <2> DEFINE r == NewRecord(events + 1, prev[Server])
  <2>1. Sealed(r) /\ r.prev = prev[Server]
    BY DEF NewRecord, Digest, Sealed
  <2>2. /\ phase[Server] = "idle" /\ phase'[Server] = "Seal" /\ todo'[Server] = <<r>>
        /\ UNCHANGED <<disk, chains, tamper, doubt>>
    BY <1>2 DEF Begin, Ready, Goto, TypeOK
  <2> HIDE DEF r
  <2>3. Head(<<r>>) = r
    OBVIOUS
  <2> QED
    BY <2>1, <2>2, <2>3 DEF ChainInv, Starting, HasTrail, disk, chains, tamper
<1>3. CASE Seal(Server)
  <2>1. /\ phase[Server] \in {"Seal", "Backfill"}
        /\ UNCHANGED <<file, torn, prev, tamper>>
        /\ "file" \notin doubt' => "file" \notin doubt
    BY <1>3 DEF Seal, SealSkips, SealWrites, SealRaises
  <2>2. Onward(Server) \/ Abort(Server)
    BY <1>3 DEF Seal
  <2>3. CASE phase[Server] = "Seal"
    <3>1. \/ phase'[Server] = "File" /\ todo'[Server] = todo[Server]
          \/ phase'[Server] = "idle"
      BY <2>2, <2>3 DEF Onward, Abort, Goto, TypeOK
    <3> QED
      BY <2>1, <2>3, <3>1 DEF ChainInv, Starting, HasTrail, tamper
  <2>4. CASE phase[Server] = "Backfill"
    <3>1. phase'[Server] \in {"Backfill", "Repair"}
      BY <2>2, <2>4 DEF Onward, Abort, Goto, TypeOK
    <3> QED
      BY <2>1, <2>4, <3>1 DEF ChainInv, Starting, HasTrail, tamper
  <2> QED
    BY <2>1, <2>3, <2>4
<1>4. CASE WriteLine(Server)
  <2> DEFINE r == Head(todo[Server])
  <2>1. /\ phase[Server] = "File" /\ phase'[Server] = "idle"
        /\ prev'[Server] = r.hash
        /\ file' = IF torn THEN file ELSE Append(file, r)
        /\ UNCHANGED <<torn, tamper, doubt>>
    BY <1>4 DEF WriteLine, AppendLine, Goto, TypeOK
  <2>2. r \in AuditRecord /\ Sealed(r) /\ r.prev = prev[Server]
    BY <2>1, TodoType DEF ChainInv
  <2> HIDE DEF r
  <2>3. CASE torn
    BY <2>1, <2>3 DEF ChainInv, Starting, HasTrail, tamper
  <2>4. CASE ~ torn
    <3>1. file \in Seq(AuditRecord) /\ AllSealed(file')
      BY <2>1, <2>2, <2>4, SealedStays DEF ChainInv, TypeOK
    <3>2. ASSUME "file" \notin doubt
          PROVE  Linked(file') /\ LastHash(file') = prev'[Server]
      BY <2>1, <2>2, <2>4, <3>1, <3>2, WholeAppend DEF ChainInv, Starting, HasTrail, Whole
    <3> QED
      BY <2>1, <3>1, <3>2 DEF ChainInv, Starting, HasTrail, tamper
  <2> QED
    BY <2>3, <2>4
<1>5. CASE WriteFails(Server)
  <2>1. /\ phase[Server] = "File" /\ phase'[Server] = "idle"
        /\ torn' = torn \/ torn' = TRUE
        /\ UNCHANGED <<file, prev, tamper, doubt>>
    BY <1>5 DEF WriteFails, KeepPrev, Goto, TypeOK
  <2>2. ~ torn' => ~ torn
    BY <2>1
  <2> QED
    BY <2>1, <2>2 DEF ChainInv, Starting, HasTrail, tamper
<1> QED
  BY <1>2, <1>3, <1>4, <1>5

\* What the file is overwritten with, and a first part of it.
LEMMA NewTrailWhole ==
  ASSUME TypeOK, ChainInv, phase[Server] \in {"Tamper", "Restore"}
  PROVE  /\ AllSealed(NewTrail) /\ (Linked(NewTrail) <=> Linked(pre))
         /\ FileCutShort => AllSealed(file') /\ (Linked(NewTrail) => Linked(file'))
<1>1. pre \in Seq(AuditRecord) /\ (phase[Server] = "Tamper" => Len(pre) >= 2)
  BY DEF TypeOK
<1>2. AllSealed(pre)
  BY DEF ChainInv, HasTrail
<1>3. AllSealed(NewTrail) /\ (Linked(NewTrail) <=> Linked(pre))
  BY <1>1, <1>2, SealedStays DEF NewTrail
<1>4. NewTrail \in Seq(AuditRecord)
  BY NewTypes
<1>5. FileCutShort => AllSealed(file') /\ (Linked(NewTrail) => Linked(file'))
  BY <1>3, <1>4, SealedCut DEF FileCutShort
<1> QED
  BY <1>3, <1>5

\* The tamper demonstration.
LEMMA ChainDemo ==
  ASSUME Alone, TypeOK, ChainInv,
         \/ InjectTamper \/ RestoreTamper \/ Reset
         \/ Overwrite \/ OverwriteFails \/ ReplaceSidecar \/ ReplaceFails
  PROVE  ChainInv'
<1> USE ConstantsAssumption DEF ChainInv, Starting, HasTrail
<1>1. phase \in [Writer -> Step]
  BY DEF TypeOK
<1>2. CASE InjectTamper
  <2>1. /\ phase[Server] = "idle" /\ ~ torn /\ pre' = file
        /\ phase'[Server] \in {"idle", "Tamper"}
        /\ UNCHANGED <<disk, chains, doubt>>
    BY <1>1, <1>2 DEF InjectTamper, Ready, Goto
  <2> QED
    BY <2>1 DEF disk, chains
<1>3. CASE RestoreTamper
  <2>1. /\ phase[Server] = "idle" /\ phase'[Server] = "Restore" /\ pre # None
        /\ UNCHANGED <<disk, chains, tamper, doubt>>
    BY <1>1, <1>3 DEF RestoreTamper, Ready, Goto
  <2> QED
    BY <2>1 DEF disk, chains, tamper
<1>4. CASE Reset
  <2>1. pre' = None /\ phase[Server] = "idle" /\ UNCHANGED <<disk, chains, phase, todo, doubt>>
    BY <1>4 DEF Reset, Ready
  <2> QED
    BY <2>1 DEF disk, chains
<1>5. CASE Overwrite
  <2>1. /\ phase[Server] \in {"Tamper", "Restore"} /\ file' = NewTrail
        /\ prev'[Server] = LastHash(NewTrail)
        /\ phase'[Server] \in {"idle", "TamperSidecar", "RestoreSidecar"}
        /\ doubt' = IF Linked(NewTrail) THEN doubt \ {"file"} ELSE doubt
        /\ UNCHANGED tamper
    BY <1>1, <1>5 DEF Overwrite, Rewind, Goto, SidecarStep, TypeOK
  <2>2. AllSealed(NewTrail) /\ (Linked(NewTrail) <=> Linked(pre))
    BY <2>1, NewTrailWhole
  <2>3. "file" \notin doubt' => Linked(NewTrail)
    BY <2>1, <2>2
  <2> QED
    BY <2>1, <2>2, <2>3 DEF tamper
<1>6. CASE OverwriteFails
  <2>1. /\ phase[Server] \in {"Tamper", "Restore"} /\ phase'[Server] = "idle"
        /\ \/ UNCHANGED <<file, torn, doubt>>
           \/ FileCutShort /\ "file" \in doubt'
        /\ UNCHANGED <<chains, tamper>>
    BY <1>1, <1>6 DEF OverwriteFails, Goto
  <2>2. AllSealed(file')
    BY <2>1, NewTrailWhole
  <2> QED
    BY <2>1, <2>2 DEF chains, tamper
<1>7. CASE ReplaceSidecar \/ ReplaceFails
  <2>1. /\ phase[Server] \in {"TamperSidecar", "RestoreSidecar"} /\ phase'[Server] = "idle"
        /\ "file" \notin doubt' => "file" \notin doubt
        /\ UNCHANGED <<file, torn, prev, tamper>>
    BY <1>1, <1>7 DEF ReplaceSidecar, ReplaceFails, Goto, chains
  <2> QED
    BY <2>1 DEF tamper
<1> QED
  BY <1>2, <1>3, <1>4, <1>5, <1>6, <1>7

\* Every step of the one writer keeps the chain.
LEMMA ChainStep ==
  ASSUME Alone, TypeOK, ChainInv, [Next]_vars
  PROVE  ChainInv'
<1> USE ConstantsAssumption
<1>1. phase \in [Writer -> Step]
  BY DEF TypeOK
<1>2. CASE Crash(Server)
  <2>1. /\ phase'[Server] = "down" /\ pre' = None /\ UNCHANGED chains
    BY <1>1, <1>2 DEF Crash, Goto
  <2>2. /\ AllSealed(file')
        /\ "file" \notin doubt' => "file" \notin doubt /\ Linked(file')
    <3>1. CASE file' = file /\ ("file" \notin doubt' => "file" \notin doubt)
      BY <3>1 DEF ChainInv
    <3>2. CASE phase[Server] \in {"Tamper", "Restore"} /\ FileCutShort /\ doubt' = doubt
      BY <3>2, NewTrailWhole DEF ChainInv, HasTrail
    <3> QED
      BY <1>2, <3>1, <3>2 DEF Crash, CutShort, disk
  <2> QED
    BY <2>1, <2>2 DEF ChainInv, Starting, HasTrail
<1>3. CASE Start(Server) \/ StartFails(Server)
  <2>1. /\ Starting /\ phase'[Server] \in {"down", "Backfill", "Repair"}
        /\ "file" \notin doubt' => "file" \notin doubt
        /\ UNCHANGED <<disk, tamper>>
    BY <1>1, <1>3 DEF Start, StartFails, Goto, Starting
  <2> QED
    BY <2>1 DEF ChainInv, Starting, HasTrail, disk, tamper
<1>4. CASE Repair(Server)
  <2>1. /\ Starting /\ phase'[Server] \in {"Clear", "idle"}
        /\ file' = IF Quarantined(file) THEN <<>> ELSE file
        /\ prev'[Server] = LastHash(file')
        /\ UNCHANGED tamper
    BY <1>1, <1>4 DEF Repair, Rewind, Goto, Starting, TypeOK
  <2>2. Linked(file') /\ AllSealed(file')
    BY <2>1 DEF Quarantined, Linked, AllSealed, ChainInv
  <2> QED
    BY <2>1, <2>2 DEF ChainInv, Starting, HasTrail, tamper
<1>5. CASE Clear(Server)
  <2>1. /\ Starting /\ phase'[Server] = "idle"
        /\ prev'[Server] = LastHash(file)
        /\ "file" \notin doubt' => "file" \notin doubt
        /\ UNCHANGED <<file, torn, tamper>>
    BY <1>1, <1>5 DEF Clear, Rewind, Goto, Starting, TypeOK
  <2> QED
    BY <2>1 DEF ChainInv, Starting, HasTrail, tamper
<1>6. CASE LoseHead
  <2>1. /\ file' = Tail(file) /\ "file" \in doubt' /\ file # <<>>
        /\ UNCHANGED <<torn, chains, phase, todo, tamper>>
    BY <1>6 DEF LoseHead
  <2>2. AllSealed(file')
    BY <2>1, SealedCut DEF ChainInv, TypeOK
  <2> QED
    BY <2>1, <2>2 DEF ChainInv, Starting, HasTrail, chains, tamper
<1>7. CASE UNCHANGED vars
  BY <1>7 DEF vars, disk, chains, tamper, ChainInv, Starting, HasTrail
<1> QED
  BY <1>2, <1>3, <1>4, <1>5, <1>6, <1>7, ChainAppend, ChainDemo DEF Next, Alone

\* The first process finds an empty trail.
LEMMA ChainInit ==
  ASSUME Init
  PROVE  ChainInv
<1>1. /\ file = <<>> /\ pre = None /\ phase[Server] = "down"
  BY ConstantsAssumption DEF Init
<1> QED
  BY <1>1 DEF ChainInv, Starting, HasTrail, AllSealed, Linked

\* The invariant the theorems below rest on.
LEMMA ChainHolds ==
  ASSUME Alone
  PROVE  Spec => [](TypeOK /\ ChainInv)
<1>1. Init => TypeOK /\ ChainInv
  BY TrailInit, ChainInit
<1>2. (TypeOK /\ ChainInv) /\ [Next]_vars => (TypeOK /\ ChainInv)'
  BY TypeStep, ChainStep
<1> QED
  BY <1>1, <1>2, PTL DEF Spec

\* For any number of records, tampers, restores, crashes, failing reads and writes
\* and cuts from outside: out of doubt the links of a trail with one writer hold.
THEOREM OneWriterLinked ==
  ASSUME Alone
  PROVE  Spec => []ChainLinked
<1>1. ChainInv => ChainLinked
  BY DEF ChainInv, ChainLinked
<1> QED
  BY <1>1, ChainHolds, PTL

\* The full walk over such a trail, out of doubt, fails exactly while a record is
\* altered, however many records, restarts and tampers came before and after.
THEOREM OneWriterEvident ==
  ASSUME Alone
  PROVE  Spec => []TamperEvident
<1>1. TypeOK /\ ChainInv => TamperEvident
  BY WholeVerified DEF TypeOK, ChainInv, Whole, TamperEvident
<1> QED
  BY <1>1, ChainHolds, PTL

-----------------------------------------------------------------------------
(* What a step may not do to the trail, with any writers.                  *)

\* Records keep their place and digest through everything but the overwrite of a
\* tamper or a restore, which leaves a first part of the snapshot, the quarantine of
\* a trail with broken links, and a cut from outside.
THEOREM RecordsStay == Spec => AppendOnly
<1> USE ConstantsAssumption
<1> DEFINE Taken == phase[Server] \in {"Tamper", "Restore"} /\ HashPrefix(file', pre)
           Allowed == HashPrefix(file, file') \/ Taken \/ (~ Linked(file) /\ file' = <<>>)
                        \/ LoseHead
<1>1. ASSUME TypeOK, [Next]_vars
      PROVE  [Allowed]_file
  <2>1. file' = file => HashPrefix(file, file')
    BY <1>1 DEF TypeOK, HashPrefix
  <2>2. ASSUME NEW w \in Writer, WriteLine(w)
        PROVE  HashPrefix(file, file')
    <3>1. file' = file \/ file' = Append(file, Head(todo[w]))
      BY <2>2 DEF WriteLine, AppendLine
    <3>2. file \in Seq(AuditRecord) /\ Head(todo[w]) \in AuditRecord
      BY <1>1, <2>2, TodoType DEF WriteLine, TypeOK
    <3>3. CASE file' = Append(file, Head(todo[w]))
      <4>1. /\ Len(file') = Len(file) + 1 /\ Len(file) \in Nat
            /\ \A i \in 1 .. Len(file) : file'[i] = file[i]
        BY <3>2, <3>3
      <4> QED
        BY <4>1 DEF HashPrefix
    <3> QED
      BY <2>1, <3>1, <3>3
  <2>3. ASSUME NEW w \in Writer, Crash(w)
        PROVE  file' = file \/ Taken
    <3>1. CASE w = Server /\ phase[w] \in {"Tamper", "Restore"} /\ FileCutShort
      BY <1>1, <3>1, CutType
    <3> QED
      BY <2>3, <3>1 DEF Crash, CutShort, disk
  <2>4. ASSUME NEW w \in Writer, Repair(w)
        PROVE  file' = file \/ (~ Linked(file) /\ file' = <<>>)
    BY <2>4 DEF Repair, Quarantined
  <2>5. CASE Overwrite
    BY <1>1, <2>5, NewTypes DEF Overwrite
  <2>6. CASE OverwriteFails
    <3>1. CASE FileCutShort
      BY <1>1, <2>6, <3>1, CutType DEF OverwriteFails
    <3> QED
      BY <2>1, <2>6, <3>1 DEF OverwriteFails
  <2>7. ASSUME \/ \E w \in Writer : Begin(w) \/ Seal(w) \/ WriteFails(w) \/ Start(w) \/ Clear(w) \/ StartFails(w)
               \/ InjectTamper \/ RestoreTamper \/ Reset \/ ReplaceSidecar \/ ReplaceFails
               \/ UNCHANGED vars
        PROVE  file' = file
    BY <2>7 DEF Begin, Seal, WriteFails, Start, Clear, StartFails, InjectTamper, RestoreTamper,
                Reset, ReplaceSidecar, ReplaceFails, vars, disk
  <2> HIDE DEF Taken
  <2> QED
    BY <1>1, <2>1, <2>2, <2>3, <2>4, <2>5, <2>6, <2>7 DEF Next, Taken
<1> QED
  BY <1>1, TrailTypeCorrect, PTL DEF Spec, AppendOnly

-----------------------------------------------------------------------------
(* The sidecar of one writer.                                              *)

\* A sidecar that is whole unless a record of it is unsound.
Evident(s) == (\A i \in 1 .. Len(s) : s[i].sound) => EdsValid(s)

\* The server has a snapshot of the sidecar.
HasSidecar == edsPre # None \/ phase[Server] \in {"TamperSidecar", "RestoreSidecar"}

\* Out of doubt the sidecar can be read, neither it nor its snapshot is broken
\* otherwise, and the digest in memory is that of the last record.
SidecarInv ==
  /\ Starting => edsPre = None
  /\ "sidecar" \notin doubt =>
       /\ ~ cut
       /\ Evident(sidecar)
       /\ HasSidecar => Evident(edsPre)
       /\ phase[Server] # "down" /\ edsOn[Server] => edsPrev[Server] = EdsLast(sidecar)

\* A record signed over the last one keeps the sidecar evident.
LEMMA EvidentAppend ==
  ASSUME NEW s \in Seq(SidecarRecord), NEW e \in SidecarRecord,
         Evident(s), e.prev = EdsLast(s)
  PROVE  Evident(Append(s, e)) /\ EdsLast(Append(s, e)) = EdsHash(e)
<1> DEFINE g == Append(s, e)
<1>1. /\ Len(s) \in Nat /\ Len(g) = Len(s) + 1 /\ g[Len(g)] = e /\ g # <<>>
      /\ \A i \in 1 .. Len(s) : g[i] = s[i]
  OBVIOUS
<1> HIDE DEF g
<1>2. EdsLast(s) = IF Len(s) = 0 THEN Genesis ELSE EdsHash(s[Len(s)])
  BY DEF EdsLast
<1>3. EdsLast(g) = EdsHash(e)
  BY <1>1 DEF EdsLast
<1>4. ASSUME \A i \in 1 .. Len(g) : g[i].sound
      PROVE  EdsValid(g)
  <2>1. EdsValid(s)
    BY <1>1, <1>4 DEF Evident
  <2>2. ASSUME NEW i \in 1 .. Len(g)
        PROVE  g[i].prev = IF i = 1 THEN Genesis ELSE EdsHash(g[i - 1])
    <3>1. CASE i \in 1 .. Len(s)
      <4>1. i # 1 => i - 1 \in 1 .. Len(s)
        BY <1>1, <3>1
      <4> QED
        BY <1>1, <2>1, <3>1, <4>1 DEF EdsValid
    <3>2. CASE i = Len(s) + 1 /\ Len(s) = 0
      BY <1>1, <1>2, <3>2
    <3>3. CASE i = Len(s) + 1 /\ Len(s) # 0
      <4>1. i # 1 /\ i - 1 = Len(s) /\ g[i - 1] = s[Len(s)]
        BY <1>1, <3>3
      <4> QED
        BY <1>1, <1>2, <3>3, <4>1
    <3> QED
      BY <1>1, <3>1, <3>2, <3>3
  <2> QED
    BY <1>4, <2>2 DEF EdsValid
<1>5. Evident(g)
  BY <1>4 DEF Evident
<1> QED
  BY <1>3, <1>5 DEF g

\* A record's way through the sidecar.
LEMMA SidecarSeal ==
  ASSUME TypeOK, SidecarInv, Seal(Server)
  PROVE  SidecarInv'
<1> USE ConstantsAssumption
<1> DEFINE r == Head(todo[Server])
           e == EdsRecord(Digest(r.body, r.prev), edsPrev[Server])
<1>1. /\ phase[Server] \in {"Seal", "Backfill"}
      /\ phase'[Server] \in {"File", "idle", "Backfill", "Repair"}
      /\ phase[Server] = "Seal" => phase'[Server] \in {"File", "idle"}
      /\ UNCHANGED <<edsOn, tamper>>
      /\ \/ UNCHANGED <<sidecar, cut, edsPrev, doubt>>
         \/ SealWrites(Server, e)
         \/ "sidecar" \in doubt'
  BY DEF Seal, Onward, Abort, Goto, SealSkips, SealRaises, TypeOK
<1>2. e \in SidecarRecord /\ e.prev = edsPrev[Server]
  <2>1. r \in AuditRecord
    BY <1>1, TodoType
  <2>2. Digest(r.body, r.prev) \in Seq(Body)
    BY <2>1 DEF AuditRecord, Digest
  <2> QED
    BY <2>2, RecordTypes DEF TypeOK, EdsRecord
<1> HIDE DEF e
<1>3. CASE SealWrites(Server, e) /\ "sidecar" \notin doubt
  <2>1. /\ edsOn[Server] /\ sidecar' = Append(sidecar, e)
        /\ edsPrev'[Server] = EdsHash(e) /\ UNCHANGED <<cut, doubt>>
    BY <1>3 DEF SealWrites, EdsAdvance, TypeOK
  <2>2. e.prev = EdsLast(sidecar)
    BY <1>1, <1>2, <1>3, <2>1 DEF SidecarInv
  <2>3. Evident(sidecar') /\ EdsLast(sidecar') = EdsHash(e)
    BY <1>2, <1>3, <2>1, <2>2, EvidentAppend DEF SidecarInv, TypeOK
  <2> QED
    BY <1>1, <1>3, <2>1, <2>3 DEF SidecarInv, Starting, HasSidecar, tamper
<1>4. CASE SealWrites(Server, e) /\ "sidecar" \in doubt
  BY <1>1, <1>4 DEF SealWrites, SidecarInv, Starting, tamper
<1>5. CASE UNCHANGED <<sidecar, cut, edsPrev, doubt>>
  BY <1>1, <1>5 DEF SidecarInv, Starting, HasSidecar, tamper
<1>6. CASE "sidecar" \in doubt'
  BY <1>1, <1>6 DEF SidecarInv, Starting, tamper
<1> QED
  BY <1>1, <1>3, <1>4, <1>5, <1>6

\* The tamper demonstration: a record becomes unsound, or the snapshot returns.
LEMMA SidecarDemo ==
  ASSUME TypeOK, SidecarInv,
         \/ InjectTamper \/ RestoreTamper \/ Reset
         \/ Overwrite \/ OverwriteFails \/ ReplaceSidecar \/ ReplaceFails
  PROVE  SidecarInv'
<1> USE ConstantsAssumption DEF Starting, HasSidecar
<1>1. phase \in [Writer -> Step]
  BY DEF TypeOK
<1>2. CASE InjectTamper
  <2>1. /\ phase[Server] = "idle" /\ phase'[Server] \in {"idle", "Tamper"}
        /\ edsPre' \in {sidecar, None, edsPre}
        /\ UNCHANGED <<disk, chains, doubt>>
    BY <1>1, <1>2 DEF InjectTamper, Ready, Goto
  <2> QED
    BY <2>1 DEF SidecarInv, disk, chains
<1>3. CASE RestoreTamper
  <2>1. /\ phase[Server] = "idle" /\ phase'[Server] = "Restore"
        /\ UNCHANGED <<disk, chains, tamper, doubt>>
    BY <1>1, <1>3 DEF RestoreTamper, Ready, Goto
  <2> QED
    BY <2>1 DEF SidecarInv, disk, chains, tamper
<1>4. CASE Reset
  <2>1. edsPre' = None /\ phase[Server] = "idle" /\ UNCHANGED <<disk, chains, phase, doubt>>
    BY <1>4 DEF Reset, Ready
  <2> QED
    BY <2>1 DEF SidecarInv, disk, chains
<1>5. CASE Overwrite
  <2>1. /\ phase[Server] \in {"Tamper", "Restore"}
        /\ phase'[Server] = SidecarStep
        /\ SidecarStep \in {"idle", "TamperSidecar", "RestoreSidecar"}
        /\ SidecarStep # "idle" => edsPre # None
        /\ "sidecar" \notin doubt' => "sidecar" \notin doubt
        /\ UNCHANGED <<sidecar, cut, edsOn, edsPrev, tamper>>
    BY <1>1, <1>5 DEF Overwrite, Goto, SidecarStep
  <2> QED
    BY <2>1 DEF SidecarInv, tamper
<1>6. CASE OverwriteFails
  <2>1. /\ phase[Server] \in {"Tamper", "Restore"} /\ phase'[Server] = "idle"
        /\ "sidecar" \notin doubt' => "sidecar" \notin doubt
        /\ UNCHANGED <<sidecar, cut, chains, tamper>>
    BY <1>1, <1>6 DEF OverwriteFails, Goto
  <2> QED
    BY <2>1 DEF SidecarInv, chains, tamper
<1>7. CASE ReplaceSidecar
  <2>1. /\ phase[Server] \in {"TamperSidecar", "RestoreSidecar"} /\ phase'[Server] = "idle"
        /\ sidecar' = NewSidecar /\ cut' = FALSE
        /\ edsPrev'[Server] = EdsLast(NewSidecar)
        /\ doubt' = IF EdsValid(NewSidecar) THEN doubt \ {"sidecar"} ELSE doubt
        /\ UNCHANGED <<edsOn, tamper>>
    BY <1>1, <1>7 DEF ReplaceSidecar, Goto, TypeOK
  <2>2. edsPre \in Seq(SidecarRecord)
    BY <2>1 DEF TypeOK
  <2>3. /\ Evident(edsPre) => Evident(NewSidecar)
        /\ EdsValid(NewSidecar) => Evident(edsPre)
    <3>1. CASE phase[Server] = "RestoreSidecar"
      BY <3>1 DEF NewSidecar, Evident
    <3>2. CASE phase[Server] = "TamperSidecar" /\ edsPre # <<>>
      <4>1. NewSidecar = Corrupted(edsPre)
        BY <3>2 DEF NewSidecar
      <4>2. \E i \in 1 .. Len(NewSidecar) : ~ NewSidecar[i].sound
        BY <2>2, <3>2, <4>1, CorruptedType
      <4> QED
        BY <4>2 DEF Evident, EdsValid
    <3>3. CASE phase[Server] = "TamperSidecar" /\ edsPre = <<>>
      BY <3>3 DEF NewSidecar, Corrupted, Evident
    <3> QED
      BY <2>1, <3>1, <3>2, <3>3
  <2>4. "sidecar" \notin doubt' => Evident(edsPre)
    BY <2>1, <2>3 DEF SidecarInv
  <2> QED
    BY <2>1, <2>3, <2>4 DEF SidecarInv, tamper
<1>8. CASE ReplaceFails
  <2>1. /\ phase[Server] \in {"TamperSidecar", "RestoreSidecar"} /\ phase'[Server] = "idle"
        /\ UNCHANGED <<sidecar, cut, doubt>> \/ "sidecar" \in doubt'
        /\ UNCHANGED <<chains, tamper>>
    BY <1>1, <1>8 DEF ReplaceFails, Goto
  <2> QED
    BY <2>1 DEF SidecarInv, chains, tamper
<1> QED
  BY <1>2, <1>3, <1>4, <1>5, <1>6, <1>7, <1>8

\* Every step of the one writer keeps the sidecar.
LEMMA SidecarKept ==
  ASSUME Alone, TypeOK, SidecarInv, [Next]_vars
  PROVE  SidecarInv'
<1> USE ConstantsAssumption
<1>1. phase \in [Writer -> Step]
  BY DEF TypeOK
<1>2. CASE Begin(Server) \/ WriteLine(Server) \/ WriteFails(Server)
  <2>1. /\ phase[Server] \in {"idle", "File"} /\ phase'[Server] \in {"Seal", "idle"}
        /\ UNCHANGED <<sidecar, cut, edsOn, edsPrev, edsPre, doubt>>
    BY <1>1, <1>2 DEF Begin, WriteLine, WriteFails, Ready, Goto, disk, chains, tamper
  <2> QED
    BY <2>1 DEF SidecarInv, Starting, HasSidecar
<1>3. CASE Crash(Server)
  <2>1. /\ phase'[Server] = "down" /\ edsPre' = None
        /\ \/ UNCHANGED <<sidecar, cut, doubt>>
           \/ "sidecar" \in doubt'
    BY <1>1, <1>3 DEF Crash, CutShort, Goto, disk
  <2> QED
    BY <2>1 DEF SidecarInv, Starting, HasSidecar
<1>4. CASE Start(Server)
  <2>1. /\ Starting /\ phase'[Server] \in {"Backfill", "Repair"}
        /\ UNCHANGED <<disk, tamper>>
    BY <1>1, <1>4 DEF Start, Goto, Starting
  <2>2. CASE edsOn'[Server]
    <3>1. /\ ~ cut /\ edsPrev'[Server] = EdsLast(sidecar)
          /\ doubt' = IF EdsValid(sidecar) THEN doubt \ {"sidecar"} ELSE doubt
      BY <1>4, <2>2 DEF Start, TypeOK
    <3>2. "sidecar" \notin doubt' => Evident(sidecar)
      BY <3>1 DEF SidecarInv, Evident
    <3> QED
      BY <2>1, <3>1, <3>2 DEF SidecarInv, Starting, HasSidecar, disk, tamper
  <2>3. CASE ~ edsOn'[Server]
    <3>1. doubt' = doubt
      BY <1>4, <2>3 DEF Start, TypeOK
    <3> QED
      BY <2>1, <2>3, <3>1 DEF SidecarInv, Starting, HasSidecar, disk, tamper
  <2> QED
    BY <2>2, <2>3
<1>5. CASE Repair(Server) \/ StartFails(Server)
  <2>1. /\ phase[Server] \in {"Repair", "Clear"} /\ phase'[Server] \in {"Clear", "idle", "down"}
        /\ "sidecar" \notin doubt' => "sidecar" \notin doubt
        /\ UNCHANGED <<sidecar, cut, edsOn, edsPrev, tamper>>
    BY <1>1, <1>5 DEF Repair, StartFails, Goto, disk, chains
  <2> QED
    BY <2>1 DEF SidecarInv, Starting, HasSidecar, tamper
<1>6. CASE Clear(Server)
  <2>1. /\ Starting /\ phase'[Server] = "idle"
        /\ sidecar' = <<>> /\ cut' = FALSE /\ edsPrev'[Server] = Genesis
        /\ UNCHANGED tamper
    BY <1>1, <1>6 DEF Clear, Goto, Starting, TypeOK
  <2> QED
    BY <2>1 DEF SidecarInv, Starting, HasSidecar, Evident, EdsValid, EdsLast, tamper
<1>7. CASE LoseHead
  <2>1. /\ "sidecar" \notin doubt' => "sidecar" \notin doubt
        /\ UNCHANGED <<sidecar, cut, chains, phase, tamper>>
    BY <1>7 DEF LoseHead
  <2> QED
    BY <2>1 DEF SidecarInv, Starting, HasSidecar, chains, tamper
<1>8. CASE UNCHANGED vars
  BY <1>8 DEF vars, disk, chains, tamper, SidecarInv, Starting, HasSidecar
<1> QED
  BY <1>2, <1>3, <1>4, <1>5, <1>6, <1>7, <1>8, SidecarSeal, SidecarDemo DEF Next, Alone

\* For any number of records and tampers and all faults: out of doubt, the walk over
\* one writer's sidecar fails exactly while a record of it is unsound.
THEOREM OneWriterSidecar ==
  ASSUME Alone
  PROVE  Spec => []SidecarEvident
<1>1. ASSUME Init
      PROVE  SidecarInv
  <2>1. /\ sidecar = <<>> /\ ~ cut /\ edsPre = None /\ phase[Server] = "down"
    BY <1>1, ConstantsAssumption DEF Init
  <2> QED
    BY <2>1 DEF SidecarInv, Starting, HasSidecar, Evident, EdsValid
<1>2. TypeOK /\ SidecarInv /\ [Next]_vars => (TypeOK /\ SidecarInv)'
  BY TypeStep, SidecarKept
<1>3. SidecarInv => SidecarEvident
  BY DEF SidecarInv, Evident, SidecarEvident, EdsValid
<1>4. Init => TypeOK
  BY TrailInit
<1> QED
  BY <1>1, <1>2, <1>3, <1>4, PTL DEF Spec
=============================================================================
