------------------------- MODULE CloudSnapshotProofs -------------------------
(***************************************************************************)
(* Proofs about CloudSnapshot, for every number of clients, any traffic,   *)
(* any combination of the faults and any bounds.                           *)
(***************************************************************************)
EXTENDS CloudSnapshot, SequenceTheorems, TLAPS

-----------------------------------------------------------------------------
(* Trails.                                                                 *)

\* Every record has the token behind it that it needs.
AllCleared(t) == \A i \in 1 .. Len(t) : Cleared(t[i])

\* What is true of every trail, wherever it is kept, when the lists that were
\* put had these flaws.
TrailOK(t, flaws) ==
  /\ t \in Seq(Record)
  /\ "chain" \notin flaws => Linked(t)
  /\ "bearer" \notin flaws => AllCleared(t)

\* The trail a container starts with when there is nothing to restore.
LEMMA EmptyTrail == ASSUME NEW flaws PROVE TrailOK(<<>>, flaws) /\ LastId(<<>>) = 0
  BY DEF TrailOK, AllCleared, Linked, LastId

\* Another flaw promises less.
LEMMA MoreFlaws ==
  ASSUME NEW t, NEW flaws, NEW more, TrailOK(t, flaws), flaws \subseteq more
  PROVE  TrailOK(t, more)
  BY DEF TrailOK

\* A list that is put has its own flaws.
LEMMA PutTrail ==
  ASSUME NEW t \in Seq(Record), NEW flaws PROVE TrailOK(t, flaws \union Flaws(t))
<1>1. "chain" \notin Flaws(t) => Linked(t)
  BY DEF Flaws
<1>2. "bearer" \notin Flaws(t) => AllCleared(t)
  BY DEF Flaws, AllCleared
<1>3. QED BY <1>1, <1>2 DEF TrailOK

\* The digest a container appends to is that of a record, or genesis.
LEMMA LastIdType == ASSUME NEW t \in Seq(Record) PROVE LastId(t) \in 0 .. MaxRecords
<1>1. CASE t = <<>>
  BY <1>1, ConstantsAssumption DEF LastId
<1>2. CASE t # <<>>
  <2>1. t[Len(t)] \in Record
    BY <1>2, EmptySeq, ElementOfSeq
  <2>2. t[Len(t)].id \in 0 .. MaxRecords
    BY <2>1 DEF Record
  <2>3. QED BY <1>2, <2>2, ConstantsAssumption DEF LastId
<1>3. QED BY <1>1, <1>2

\* A record that names the last one before it keeps a trail whole.
LEMMA AppendTrail ==
  ASSUME NEW t, NEW flaws, TrailOK(t, flaws),
         NEW r \in Record, r.id # 0, r.prev = LastId(t), Cleared(r)
  PROVE  TrailOK(Append(t, r), flaws) /\ LastId(Append(t, r)) = r.id
<1> DEFINE u == Append(t, r)
<1>1. u \in Seq(Record) /\ Len(u) = Len(t) + 1 /\ Len(t) \in Nat /\ t \in Seq(Record)
  BY DEF TrailOK
<1>2. (\A i \in 1 .. Len(t) : u[i] = t[i]) /\ u[Len(t) + 1] = r
  BY DEF TrailOK
<1> HIDE DEF u
<1>3. ASSUME AllCleared(t) PROVE AllCleared(u)
  BY <1>1, <1>2, <1>3 DEF AllCleared
<1>4. ASSUME Linked(t), NEW i \in 1 .. Len(u)
      PROVE  u[i].id # 0 /\ u[i].prev = IF i = 1 THEN 0 ELSE u[i - 1].id
  <2>1. CASE i \in 1 .. Len(t)
    <3>1. u[i] = t[i] /\ (i # 1 => u[i - 1] = t[i - 1])
      BY <1>1, <1>2, <2>1
    <3>2. QED BY <1>4, <2>1, <3>1 DEF Linked
  <2>2. CASE i = Len(t) + 1
    <3>1. CASE t = <<>>
      BY <1>1, <1>2, <2>2, <3>1 DEF LastId
    <3>2. CASE t # <<>>
      <4>1. Len(t) \in 1 .. Len(t) /\ i # 1 /\ i - 1 = Len(t)
        BY <1>1, <2>2, <3>2
      <4>2. QED BY <1>2, <2>2, <3>2, <4>1 DEF LastId
    <3>3. QED BY <3>1, <3>2
  <2>3. QED BY <1>1, <2>1, <2>2
<1>5. u # <<>> /\ u[Len(u)] = r
  BY <1>1, <1>2
<1>6. LastId(u) = r.id
  BY <1>5 DEF LastId
<1>7. Linked(t) => Linked(u)
  BY <1>4 DEF Linked
<1>8. QED BY <1>1, <1>3, <1>6, <1>7 DEF TrailOK, u

\* What is left when an answer is taken out are answers.
LEMMA TakeOut ==
  ASSUME NEW S, NEW s \in Seq(S), NEW i \in 1 .. Len(s)
  PROVE  LET t == SubSeq(s, 1, i - 1) \o SubSeq(s, i + 1, Len(s))
         IN  /\ t \in Seq(S)
             /\ \A k \in 1 .. Len(t) : \E j \in 1 .. Len(s) : t[k] = s[j]
<1> DEFINE a == SubSeq(s, 1, i - 1)
           b == SubSeq(s, i + 1, Len(s))
<1>1. a \in Seq(S) /\ Len(a) = i - 1 /\ \A k \in 1 .. (i - 1) : a[k] = s[k]
  <2>1. \A k \in 1 .. (i - 1) : s[k] \in S
    OBVIOUS
  <2>2. i - 1 \in Int /\ 1 \in Int
    OBVIOUS
  <2>3. QED BY <2>1, <2>2, SubSeqProperties
<1>2. b \in Seq(S) /\ Len(b) = Len(s) - i /\ \A k \in 1 .. (Len(s) - i) : b[k] = s[k + i]
  <2>1. \A k \in (i + 1) .. Len(s) : s[k] \in S
    OBVIOUS
  <2>2. i + 1 \in Int /\ Len(s) \in Int /\ i <= Len(s)
    OBVIOUS
  <2>3. /\ b \in Seq(S)
        /\ Len(b) = IF i + 1 <= Len(s) THEN Len(s) - (i + 1) + 1 ELSE 0
        /\ \A k \in 1 .. (Len(s) - (i + 1) + 1) : b[k] = s[(i + 1) + k - 1]
    BY <2>1, <2>2, SubSeqProperties
  <2>4. QED BY <2>2, <2>3
<1> HIDE DEF a, b
<1>4. /\ a \o b \in Seq(S)
      /\ Len(a \o b) = Len(a) + Len(b)
      /\ \A k \in 1 .. (Len(a) + Len(b)) :
           (a \o b)[k] = IF k <= Len(a) THEN a[k] ELSE b[k - Len(a)]
  BY <1>1, <1>2, ConcatProperties, Zenon
<1>5. PICK t \in Seq(S) :
        /\ t = a \o b
        /\ Len(t) = Len(a) + Len(b)
        /\ \A k \in 1 .. (Len(a) + Len(b)) : t[k] = IF k <= Len(a) THEN a[k] ELSE b[k - Len(a)]
  BY <1>4, Zenon
<1>6. PICK n \in Nat : n = Len(s)
  OBVIOUS
<1>7. /\ i \in Int /\ 1 <= i /\ i <= n /\ Len(t) = n - 1
      /\ Len(a) = i - 1 /\ Len(b) = n - i
  BY <1>1, <1>2, <1>5, <1>6
<1>8. ASSUME NEW k \in 1 .. Len(t) PROVE \E j \in 1 .. Len(s) : t[k] = s[j]
  <2>1. k \in Int /\ 1 <= k /\ k <= n - 1 /\ k \in 1 .. (Len(a) + Len(b))
    BY <1>5, <1>7
  <2>2. CASE k < i
    BY <1>1, <1>5, <1>6, <1>7, <2>1, <2>2
  <2>3. CASE ~ (k < i)
    <3>1. k - (i - 1) \in 1 .. (n - i) /\ (k - (i - 1)) + i = k + 1 /\ k + 1 \in 1 .. n
      BY <1>7, <2>1, <2>3
    <3>2. t[k] = b[k - (i - 1)]
      BY <1>5, <1>7, <2>1, <2>3
    <3>3. b[k - (i - 1)] = s[k + 1]
      BY <1>2, <1>6, <3>1
    <3>4. QED BY <1>6, <3>1, <3>2, <3>3
  <2>4. QED BY <2>2, <2>3
<1>9. QED BY <1>5, <1>8 DEF a, b

\* What is left when the first answer is put.
LEMMA TakeFirst ==
  ASSUME NEW S, NEW s \in Seq(S), s # <<>>
  PROVE  /\ Head(s) = s[1] /\ 1 \in 1 .. Len(s)
         /\ Tail(s) \in Seq(S) /\ Len(Tail(s)) = Len(s) - 1
         /\ \A k \in 1 .. Len(Tail(s)) : Tail(s)[k] = s[k + 1] /\ k + 1 \in 1 .. Len(s)
  OBVIOUS

-----------------------------------------------------------------------------
(* Types and trails, whatever fails.                                       *)

\* A request behind the Worker passed its checks; only a POST seals.
RequestsOK ==
  /\ stage \in [Client -> Stage]
  /\ req \in [Client -> Request \union {None}]
  /\ res \in [Client -> Response \union {None}]
  /\ \A c \in Client : stage[c] # "idle" =>
       req[c] \in Request /\ ~ Preflight(req[c]) /\ Authorized(req[c])
  /\ \A c \in Client : stage[c] = "answered" =>
       res[c] \in Response /\ (res[c].id # 0 => Method(req[c]) = "POST")

\* The trail of the container, the snapshot, and the copies on their way.
TrailsOK ==
  /\ TrailOK(trail, tainted) /\ head = LastId(trail)
  /\ TrailOK(stored, tainted)
  /\ answers \in Seq(Seq(Record))
  /\ \A i \in 1 .. Len(answers) : TrailOK(answers[i], tainted)

FlagsOK == {hydrated, up, fresh, leaving, due, lapsed} \subseteq BOOLEAN

CountsOK ==
  /\ asks \in Nat /\ sealed \in 0 .. MaxRecords /\ acked \subseteq 1 .. MaxRecords
  /\ tainted \subseteq {"chain", "bearer"}

Base == RequestsOK /\ TrailsOK /\ FlagsOK /\ CountsOK

\* Base holds at the start.
LEMMA BaseInit == Init => Base
<1> SUFFICES ASSUME Init PROVE Base
  OBVIOUS
<1>1. RequestsOK
  BY DEF Init, RequestsOK, Stage
<1>2. TrailsOK
  BY EmptyTrail DEF Init, TrailsOK
<1>3. FlagsOK
  BY DEF Init, FlagsOK
<1>4. CountsOK
  BY ConstantsAssumption DEF Init, CountsOK
<1>5. QED BY <1>1, <1>2, <1>3, <1>4 DEF Base

\* The shapes in which an action changes the requests.
LEMMA DoneRequests ==
  ASSUME RequestsOK, NEW c \in Client, Done(c) PROVE RequestsOK'
  BY DEF RequestsOK, Done, Stage

\* A request passes the gate.
LEMMA ForwardRequests ==
  ASSUME RequestsOK, NEW c \in Client, stage[c] = "gate", Goto(c, "forward") PROVE RequestsOK'
  BY DEF RequestsOK, Goto, Stage

\* The object loses its memory.
LEMMA ForgetRequests == ASSUME Forget PROVE RequestsOK'
  BY DEF RequestsOK, Forget, Stage

\* The container's response is there.
LEMMA AnsweredRequests ==
  ASSUME RequestsOK, NEW c \in Client, stage[c] = "forward",
         NEW ok \in BOOLEAN, NEW id \in 0 .. MaxRecords, id = 0 \/ Method(req[c]) = "POST",
         Answered(c, ok, id)
  PROVE  RequestsOK'
<1>1. stage' \in [Client -> Stage] /\ res' \in [Client -> Response \union {None}]
  BY DEF RequestsOK, Answered, Stage, Response
<1>2. res'[c] = [ok |-> ok, id |-> id] /\ res'[c] \in Response
  BY DEF RequestsOK, Answered, Response
<1>3. \A d \in Client : d # c => stage'[d] = stage[d] /\ res'[d] = res[d]
  BY DEF RequestsOK, Answered
<1>4. stage'[c] = "answered" /\ req' = req
  BY DEF RequestsOK, Answered
<1>5. QED BY <1>1, <1>2, <1>3, <1>4 DEF RequestsOK

\* The Worker lets a request through.
LEMMA ArriveRequests ==
  ASSUME RequestsOK, NEW c \in Client, NEW q \in Traffic, Arrive(c, q) PROVE RequestsOK'
<1>1. q \in Request
  BY TrafficAssumption
<1>2. QED BY <1>1 DEF RequestsOK, Arrive, Stage

\* Sealing a record for an accepted request keeps the container's trail whole.
LEMMA AppendTrails ==
  ASSUME TrailOK(trail, tainted), head = LastId(trail), sealed \in 0 .. MaxRecords,
         NEW q \in Request, Method(q) = "POST", Authorized(q), AppendRecord(q)
  PROVE  /\ TrailOK(trail', tainted') /\ head' = LastId(trail') /\ tainted' = tainted
         /\ sealed' \in 1 .. MaxRecords
<1> DEFINE r == [id |-> sealed + 1, prev |-> head, for |-> q]
<1>1. sealed + 1 \in 1 .. MaxRecords /\ head \in 0 .. MaxRecords
  BY LastIdType, ConstantsAssumption DEF AppendRecord, TrailOK
<1>2. r \in Record /\ r.prev = LastId(trail) /\ r.id = sealed + 1 /\ r.id # 0
  BY <1>1 DEF Record
<1>3. Cleared(r)
  BY DEF Cleared, Authorized, PathRequiresBearer
<1>4. /\ trail' = Append(trail, r) /\ head' = sealed + 1 /\ sealed' = sealed + 1
      /\ tainted' = tainted
  BY DEF AppendRecord
<1> HIDE DEF r
<1>5. QED BY <1>1, <1>2, <1>3, <1>4, AppendTrail

\* A client puts a list.
LEMMA PutTrails ==
  ASSUME Base, NEW t \in Puts \union {SubSeq(trail, 1, n) : n \in 0 .. Len(trail)},
         PutSnapshot(t)
  PROVE  /\ TrailOK(trail', tainted') /\ head' = LastId(trail')
         /\ tainted \subseteq tainted' /\ tainted' \subseteq {"chain", "bearer"}
<1>1. trail \in Seq(Record) /\ tainted \subseteq {"chain", "bearer"}
  BY DEF Base, TrailsOK, TrailOK, CountsOK
<1>2. t \in Seq(Record)
  <2>1. \A n \in 0 .. Len(trail) : SubSeq(trail, 1, n) \in Seq(Record)
    BY <1>1
  <2>2. QED BY <2>1, PutsAssumption
<1>3. trail' = t /\ head' = LastId(t) /\ tainted' = tainted \union Flaws(t)
  BY DEF PutSnapshot, ReplaceRecords
<1>4. Flaws(t) \subseteq {"chain", "bearer"}
  BY DEF Flaws
<1>5. TrailOK(t, tainted')
  BY <1>2, <1>3, PutTrail
<1>6. QED BY <1>1, <1>3, <1>4, <1>5

\* What the container does with a request.
LEMMA HandleBase ==
  ASSUME Base, NEW c \in Client, stage[c] = "forward", Handle(c)
  PROVE  /\ RequestsOK' /\ TrailOK(trail', tainted') /\ head' = LastId(trail')
         /\ sealed' \in 0 .. MaxRecords
         /\ tainted \subseteq tainted' /\ tainted' \subseteq {"chain", "bearer"}
<1> DEFINE q == req[c]
<1>1. /\ RequestsOK /\ TrailOK(trail, tainted) /\ head = LastId(trail)
      /\ sealed \in 0 .. MaxRecords /\ tainted \subseteq {"chain", "bearer"}
  BY DEF Base, TrailsOK, CountsOK
<1>2. q \in Request /\ Authorized(q) /\ 0 \in 0 .. MaxRecords
  BY <1>1, ConstantsAssumption DEF RequestsOK
<1>3. CASE /\ \E ok \in BOOLEAN : Answered(c, ok, 0)
           /\ UNCHANGED <<sealed, trail, head, tainted>>
  <2>1. RequestsOK'
    BY <1>1, <1>2, <1>3, AnsweredRequests
  <2>2. trail' = trail /\ head' = head /\ sealed' = sealed /\ tainted' = tainted
    BY <1>3
  <2>3. QED BY <1>1, <2>1, <2>2
<1>4. CASE /\ Method(q) = "POST" /\ AppendRecord(q)
           /\ \E ok \in BOOLEAN : Answered(c, ok, sealed')
  <2>1. /\ TrailOK(trail', tainted') /\ head' = LastId(trail') /\ tainted' = tainted
        /\ sealed' \in 1 .. MaxRecords
    BY <1>1, <1>2, <1>4, AppendTrails
  <2>2. sealed' \in 0 .. MaxRecords
    BY <2>1
  <2>3. PICK ok \in BOOLEAN : Answered(c, ok, sealed')
    BY <1>4
  <2>4. RequestsOK'
    BY <1>1, <1>4, <2>2, <2>3, AnsweredRequests
  <2>5. QED BY <1>1, <2>1, <2>2, <2>4
<1>6. CASE /\ \E t \in Puts \union {SubSeq(trail, 1, n) : n \in 0 .. Len(trail)} : PutSnapshot(t)
           /\ Answered(c, TRUE, 0)
           /\ UNCHANGED sealed
  <2>1. PICK t \in Puts \union {SubSeq(trail, 1, n) : n \in 0 .. Len(trail)} : PutSnapshot(t)
    BY <1>6
  <2>2. /\ TrailOK(trail', tainted') /\ head' = LastId(trail')
        /\ tainted \subseteq tainted' /\ tainted' \subseteq {"chain", "bearer"}
    BY <2>1, PutTrails
  <2>3. RequestsOK'
    BY <1>1, <1>2, <1>6, AnsweredRequests
  <2>4. QED BY <1>1, <1>6, <2>2, <2>3
<1>7. QED BY <1>3, <1>4, <1>6 DEF Handle

\* The copies under way after one was added, put or dropped.
LEMMA SaveReadsTrails == ASSUME TrailsOK, SaveReads PROVE TrailsOK'
<1> DEFINE a == Append(answers, trail)
<1>1. trail \in Seq(Record) /\ answers \in Seq(Seq(Record))
  BY DEF TrailsOK, TrailOK
<1>2. /\ a \in Seq(Seq(Record)) /\ Len(a) = Len(answers) + 1 /\ a[Len(answers) + 1] = trail
      /\ \A i \in 1 .. Len(answers) : a[i] = answers[i]
  BY <1>1
<1>3. answers' = a /\ trail' = trail /\ head' = head /\ stored' = stored /\ tainted' = tainted
  BY DEF SaveReads, container
<1> HIDE DEF a
<1>4. ASSUME NEW i \in 1 .. Len(a) PROVE TrailOK(a[i], tainted)
  <2>1. i \in 1 .. Len(answers) \/ i = Len(answers) + 1
    BY <1>1, <1>2
  <2>2. QED BY <1>2, <2>1 DEF TrailsOK
<1>5. QED BY <1>2, <1>3, <1>4 DEF TrailsOK

\* The first copy becomes the snapshot.
LEMMA SavePutsTrails == ASSUME TrailsOK, SavePuts PROVE TrailsOK'
<1>1. answers \in Seq(Seq(Record)) /\ answers # <<>>
  BY DEF TrailsOK, SavePuts
<1>2. /\ 1 \in 1 .. Len(answers) /\ stored' = answers[1]
      /\ answers' = Tail(answers) /\ trail' = trail /\ head' = head /\ tainted' = tainted
  BY <1>1, TakeFirst DEF SavePuts, Put, container, history
<1>3. answers' \in Seq(Seq(Record))
  BY <1>1, <1>2, TakeFirst
<1>4. \A i \in 1 .. Len(answers') : TrailOK(answers'[i], tainted')
  BY <1>1, <1>2, TakeFirst DEF TrailsOK
<1>5. TrailOK(stored', tainted')
  BY <1>2 DEF TrailsOK
<1>6. QED BY <1>2, <1>3, <1>4, <1>5 DEF TrailsOK

\* A later copy becomes the snapshot.
LEMMA SaveOvertakesTrails == ASSUME TrailsOK, SaveOvertakes PROVE TrailsOK'
<1>1. PICK i \in 2 .. Len(answers) :
        /\ Put(answers[i])
        /\ answers' = SubSeq(answers, 1, i - 1) \o SubSeq(answers, i + 1, Len(answers))
  BY DEF SaveOvertakes
<1>2. i \in 1 .. Len(answers) /\ answers \in Seq(Seq(Record))
  BY DEF TrailsOK
<1>3. /\ answers' \in Seq(Seq(Record))
      /\ \A k \in 1 .. Len(answers') : \E j \in 1 .. Len(answers) : answers'[k] = answers[j]
  BY <1>1, <1>2, TakeOut
<1>4. trail' = trail /\ head' = head /\ tainted' = tainted
  BY DEF SaveOvertakes, container
<1>5. \A k \in 1 .. Len(answers') : TrailOK(answers'[k], tainted')
  BY <1>3, <1>4 DEF TrailsOK
<1>6. TrailOK(stored', tainted')
  BY <1>1, <1>2, <1>4 DEF TrailsOK, Put
<1>7. QED BY <1>3, <1>4, <1>5, <1>6 DEF TrailsOK

\* A save ends in an error.
LEMMA SaveFailsTrails == ASSUME TrailsOK, SaveFails PROVE TrailsOK'
<1>1. trail' = trail /\ head' = head /\ stored' = stored /\ tainted' = tainted
  BY DEF SaveFails, container
<1>2. CASE answers' = answers
  BY <1>1, <1>2 DEF TrailsOK
<1>3. CASE answers # <<>> /\ answers' = Tail(answers)
  <2>1. answers \in Seq(Seq(Record))
    BY DEF TrailsOK
  <2>2. answers' \in Seq(Seq(Record)) /\ \A i \in 1 .. Len(answers') : TrailOK(answers'[i], tainted')
    BY <1>1, <1>3, <2>1, TakeFirst DEF TrailsOK
  <2>3. QED BY <1>1, <2>2 DEF TrailsOK
<1>4. QED BY <1>2, <1>3 DEF SaveFails

\* Only trail, head, stored and answers are read.
LEMMA SameTrails ==
  ASSUME TrailsOK, UNCHANGED <<trail, head, stored, answers, tainted>> PROVE TrailsOK'
  BY DEF TrailsOK

\* A new trail of the container, or none, and the copies kept or dropped.
LEMMA NewTrail ==
  ASSUME TrailsOK, UNCHANGED stored, tainted \subseteq tainted',
         TrailOK(trail', tainted'), head' = LastId(trail'), answers' \in {answers, <<>>}
  PROVE  TrailsOK'
<1>1. TrailOK(stored', tainted') /\ \A i \in 1 .. Len(answers) : TrailOK(answers[i], tainted')
  BY MoreFlaws DEF TrailsOK
<1>2. CASE answers' = answers
  BY <1>1, <1>2 DEF TrailsOK
<1>3. CASE answers' = <<>>
  BY <1>1, <1>3 DEF TrailsOK
<1>4. QED BY <1>2, <1>3

\* Nothing about the requests changed.
LEMMA SameRequests == ASSUME RequestsOK, UNCHANGED requests PROVE RequestsOK'
  BY DEF RequestsOK, requests

\* Every step keeps Base.
LEMMA BaseNext == Base /\ [Next]_vars => Base'
<1> SUFFICES ASSUME Base, [Next]_vars PROVE Base'
  OBVIOUS
<1>0. RequestsOK /\ TrailsOK /\ FlagsOK /\ CountsOK /\ TrailOK(trail, tainted) /\ TrailOK(stored, tainted)
  BY DEF Base, TrailsOK
<1>1. ASSUME NEW c \in Client, Pass(c) PROVE Base'
  BY <1>0, <1>1, ForwardRequests, SameTrails
  DEF Base, Pass, container, saves, history, FlagsOK, CountsOK
<1>2. ASSUME NEW c \in Client, Hydrate(c) PROVE Base'
  <2>1. RequestsOK'
    BY <1>0, <1>2, ForwardRequests DEF Hydrate
  <2>2. TrailOK(trail', tainted') /\ head' = LastId(trail')
    BY <1>0, <1>2 DEF Hydrate, RestoreAudit, ReplaceRecords, TrailsOK
  <2>3. TrailsOK'
    BY <1>0, <1>2, <2>2, NewTrail DEF Hydrate, saves
  <2>4. FlagsOK'
    BY <1>0, <1>2 DEF Hydrate, RestoreAudit, Lapse, FlagsOK
  <2>5. CountsOK'
    BY <1>0, <1>2 DEF Hydrate, saves, CountsOK
  <2>6. QED BY <2>1, <2>3, <2>4, <2>5 DEF Base
<1>3. ASSUME NEW c \in Client, HydrateFails(c) PROVE Base'
  <2>1. RequestsOK'
    BY <1>3, ForgetRequests DEF HydrateFails
  <2>2. TrailOK(trail', tainted') /\ head' = LastId(trail')
    BY <1>0, <1>3 DEF HydrateFails, ReplaceRecords, TrailsOK
  <2>3. TrailsOK'
    BY <1>0, <1>3, <2>2, NewTrail DEF HydrateFails, Forget
  <2>4. FlagsOK'
    BY <1>0, <1>3 DEF HydrateFails, Forget, Lapse, FlagsOK
  <2>5. CountsOK'
    BY <1>0, <1>3 DEF HydrateFails, Forget, CountsOK
  <2>6. QED BY <2>1, <2>3, <2>4, <2>5 DEF Base
<1>4. ASSUME NEW c \in Client, Forward(c) PROVE Base'
  <2>1. /\ RequestsOK' /\ TrailOK(trail', tainted') /\ head' = LastId(trail')
        /\ sealed' \in 0 .. MaxRecords
        /\ tainted \subseteq tainted' /\ tainted' \subseteq {"chain", "bearer"}
    BY <1>4, HandleBase DEF Forward
  <2>2. TrailsOK'
    BY <1>0, <1>4, <2>1, NewTrail DEF Forward, saves
  <2>3. FlagsOK'
    BY <1>0, <1>4 DEF Forward, Lapse, FlagsOK
  <2>4. CountsOK'
    BY <1>0, <1>4, <2>1 DEF Forward, saves, CountsOK
  <2>5. QED BY <2>1, <2>2, <2>3, <2>4 DEF Base
<1>5. ASSUME NEW c \in Client, ForwardCold(c) PROVE Base'
  <2>0. 0 \in 0 .. MaxRecords
    BY ConstantsAssumption
  <2>1. RequestsOK'
    <3>1. CASE UNCHANGED requests
      BY <1>0, <3>1, SameRequests
    <3>2. CASE Answered(c, FALSE, 0)
      BY <1>0, <1>5, <2>0, <3>2, AnsweredRequests DEF ForwardCold
    <3>3. QED BY <1>5, <3>1, <3>2 DEF ForwardCold
  <2>2. TrailsOK'
    BY <1>0, <1>5, SameTrails DEF ForwardCold, saves, history
  <2>3. FlagsOK'
    BY <1>0, <1>5 DEF ForwardCold, StartsCold, history, FlagsOK
  <2>4. CountsOK'
    BY <1>0, <1>5 DEF ForwardCold, saves, history, CountsOK
  <2>5. QED BY <2>1, <2>2, <2>3, <2>4 DEF Base
<1>6. ASSUME NEW c \in Client, Return(c) PROVE Base'
  <2>1. RequestsOK'
    BY <1>0, <1>6, DoneRequests DEF Return
  <2>2. TrailsOK'
    BY <1>0, <1>6, SameTrails DEF Return, container
  <2>3. FlagsOK'
    BY <1>0, <1>6 DEF Return, container, FlagsOK
  <2>4. acked' \subseteq 1 .. MaxRecords
    <3>1. res[c].id \in 0 .. MaxRecords
      BY <1>0, <1>6 DEF Return, RequestsOK, Response
    <3>2. res[c].id # 0 => res[c].id \in 1 .. MaxRecords
      BY <3>1, ConstantsAssumption
    <3>3. acked' = acked \/ (res[c].id # 0 /\ acked' = acked \union {res[c].id})
      BY <1>6 DEF Return
    <3>4. QED BY <1>0, <3>2, <3>3 DEF CountsOK
  <2>5. CountsOK'
    BY <1>0, <1>6, <2>4 DEF Return, CountsOK
  <2>6. QED BY <2>1, <2>2, <2>3, <2>5 DEF Base
<1>7. ASSUME NEW c \in Client, Drop(c) PROVE Base'
  BY <1>0, <1>7, DoneRequests, SameTrails
  DEF Base, Drop, container, saves, history, FlagsOK, CountsOK
<1>8. ASSUME NEW c \in Client, NEW q \in Traffic, Arrive(c, q) PROVE Base'
  BY <1>0, <1>8, ArriveRequests, SameTrails
  DEF Base, Arrive, container, saves, history, FlagsOK, CountsOK
<1>9. ASSUME SaveReads PROVE Base'
  <2>1. FlagsOK' /\ CountsOK'
    BY <1>0, <1>9 DEF SaveReads, Lapse, container, FlagsOK, CountsOK
  <2>2. QED BY <1>0, <1>9, <2>1, SameRequests, SaveReadsTrails DEF Base, SaveReads
<1>10. ASSUME SaveCold PROVE Base'
  <2>1. FlagsOK'
    BY <1>0, <1>10 DEF SaveCold, StartsCold, history, FlagsOK
  <2>2. CountsOK'
    BY <1>0, <1>10 DEF SaveCold, history, CountsOK
  <2>3. QED BY <1>0, <1>10, <2>1, <2>2, SameRequests, SameTrails DEF Base, SaveCold, history
<1>11. ASSUME SavePuts PROVE Base'
  BY <1>0, <1>11, SameRequests, SavePutsTrails
  DEF Base, SavePuts, container, history, FlagsOK, CountsOK
<1>12. ASSUME SaveOvertakes PROVE Base'
  <2>1. FlagsOK' /\ CountsOK'
    BY <1>0, <1>12 DEF SaveOvertakes, Lapse, container, FlagsOK, CountsOK
  <2>2. QED BY <1>0, <1>12, <2>1, SameRequests, SaveOvertakesTrails DEF Base, SaveOvertakes
<1>13. ASSUME SaveFails PROVE Base'
  <2>1. FlagsOK' /\ CountsOK'
    BY <1>0, <1>13 DEF SaveFails, Lapse, container, FlagsOK, CountsOK
  <2>2. QED BY <1>0, <1>13, <2>1, SameRequests, SaveFailsTrails DEF Base, SaveFails
<1>14. ASSUME Evict PROVE Base'
  <2>1. TrailsOK'
    BY <1>0, <1>14, NewTrail DEF Evict, Forget, container, TrailsOK
  <2>2. FlagsOK' /\ CountsOK'
    BY <1>0, <1>14 DEF Evict, Forget, Lapse, container, FlagsOK, CountsOK
  <2>3. QED BY <1>14, <2>1, <2>2, ForgetRequests DEF Base, Evict
<1>15. ASSUME Expire PROVE Base'
  BY <1>0, <1>15, SameRequests, SameTrails DEF Base, Expire, saves, history, FlagsOK, CountsOK
<1>16. ASSUME NEW more, Gone(more), due' \in {due, TRUE} PROVE Base'
  <2>1. TrailsOK'
    BY <1>0, <1>16, EmptyTrail, NewTrail DEF Gone, saves
  <2>2. FlagsOK' /\ CountsOK'
    BY <1>0, <1>16 DEF Gone, Lapse, saves, FlagsOK, CountsOK
  <2>3. QED BY <1>0, <1>16, <2>1, <2>2, SameRequests DEF Base, Gone
<1>17. ASSUME OnStop PROVE Base'
  <2>1. FlagsOK'
    BY <1>0, <1>17, Zenon DEF OnStop, history, FlagsOK
  <2>2. asks' = asks + 1 /\ UNCHANGED <<sealed, acked, tainted>>
    BY <1>17 DEF OnStop, history
  <2>3. CountsOK'
    BY <1>0, <2>2 DEF CountsOK
  <2>4. QED BY <1>0, <1>17, <2>1, <2>3, SameRequests, SameTrails DEF Base, OnStop, history
<1>18. ASSUME OnError PROVE Base'
  BY <1>0, <1>18, SameRequests, SameTrails DEF Base, OnError, saves, history, FlagsOK, CountsOK
<1>19. CASE UNCHANGED vars
  BY <1>0, <1>19, SameRequests, SameTrails
  DEF Base, vars, requests, saves, container, history, FlagsOK, CountsOK
<1>20. Exit => Base'
  BY <1>16 DEF Exit
<1>21. Crash => Base'
  BY <1>16 DEF Crash
<1>22. QED
  BY <1>1, <1>2, <1>3, <1>4, <1>5, <1>6, <1>7, <1>8, <1>9, <1>10, <1>11, <1>12, <1>13,
     <1>14, <1>15, <1>17, <1>18, <1>19, <1>20, <1>21
  DEF Next, Serve, Save

\* Base holds in every reachable state.
LEMMA BaseAlways == Spec => []Base
  BY BaseInit, BaseNext, PTL DEF Spec

\* Every variable keeps its type, and a request and its response are there as
\* long as the object works on them.
THEOREM TypesHold == Spec => []TypeOK
<1>1. Base => TypeOK
  <2> SUFFICES ASSUME Base PROVE TypeOK
    OBVIOUS
  <2>1. head \in 0 .. MaxRecords
    BY LastIdType DEF Base, TrailsOK, TrailOK
  <2>2. QED BY <2>1 DEF Base, RequestsOK, TrailsOK, TrailOK, FlagsOK, CountsOK, TypeOK
<1>2. QED BY <1>1, BaseAlways, PTL

\* Whatever fails and whatever is put, the container appends to the end of its
\* file; file, snapshot and every copy under way are whole chains until a client
\* puts a list that is none.
THEOREM ChainsHold == Spec => []ChainsLinked
<1>1. Base => ChainsLinked
  BY DEF Base, TrailsOK, TrailOK, ChainsLinked
<1>2. QED BY <1>1, BaseAlways, PTL

\* Whatever fails, no record below /api is kept that was sealed for a request
\* without the configured token, until a client that has it puts one.
THEOREM VouchedHolds == Spec => []Vouched
<1>1. Base => Vouched
  BY DEF Base, TrailsOK, TrailOK, AllCleared, Vouched
<1>2. QED BY <1>1, BaseAlways, PTL

-----------------------------------------------------------------------------
(* Prefixes.                                                               *)

\* A longer trail has the records of the shorter one.
LEMMA PrefixIds ==
  ASSUME NEW s \in Seq(Record), NEW t \in Seq(Record), Prefix(s, t)
  PROVE  Ids(s) \subseteq Ids(t)
<1>1. Len(s) \in Nat /\ Len(t) \in Nat
  OBVIOUS
<1>2. QED BY <1>1 DEF Prefix, Ids

\* Appending keeps what a trail extends.
LEMMA PrefixAppend ==
  ASSUME NEW s \in Seq(Record), NEW t \in Seq(Record), NEW r, Prefix(s, t)
  PROVE  Prefix(s, Append(t, r))
  BY DEF Prefix

\* Two copies of one trail: the longer extends the shorter.
LEMMA PrefixBoth ==
  ASSUME NEW s \in Seq(Record), NEW t \in Seq(Record), NEW u \in Seq(Record),
         Prefix(s, u), Prefix(t, u), Len(s) <= Len(t)
  PROVE  Prefix(s, t)
  BY DEF Prefix

\* A trail extends itself and the empty one.
LEMMA PrefixSelf == ASSUME NEW s \in Seq(Record) PROVE Prefix(s, s) /\ Prefix(<<>>, s)
  BY DEF Prefix

\* A restore that does not take the container back changes nothing in it.
LEMMA PrefixSame ==
  ASSUME NEW s \in Seq(Record), s # <<>>, NEW t \in {<<>>, s}, Prefix(s, t)
  PROVE  t = s
<1>1. Len(s) \in Nat /\ Len(s) # 0
  BY EmptySeq
<1>2. QED BY <1>1 DEF Prefix

-----------------------------------------------------------------------------
(* What holds until the first lapse.                                       *)

Restored == up /\ ~ fresh

\* The newest copy the object has.
Latest == IF answers = <<>> THEN stored ELSE answers[Len(answers)]

\* A container that was not restored has nothing, and nothing was read from it.
NothingThere == ~ Restored => trail = <<>> /\ answers = <<>>

\* Snapshot, copies in the order they were read, trail: each extends the one
\* before it.
Ordered ==
  /\ Restored => Prefix(stored, trail)
  /\ \A i \in 1 .. Len(answers) : Prefix(answers[i], trail) /\ Len(stored) <= Len(answers[i])
  /\ \A i, j \in 1 .. Len(answers) : i <= j => Len(answers[i]) <= Len(answers[j])

\* What was sealed for a response on its way is in the container.
SealedThere ==
  \A c \in Client : stage[c] = "answered" /\ res[c].id # 0 => res[c].id \in Ids(trail)

\* What clients know of is in the newest copy, or a save is still to read it.
Covered == acked \subseteq Ids(Latest) \union (IF asks > 0 THEN Ids(trail) ELSE {})

FlagHolds == hydrated => Restored \/ due

Careful == NothingThere /\ Ordered /\ SealedThere /\ Covered /\ FlagHolds

UntilLapse == ~ lapsed => Careful

\* UntilLapse holds at the start.
LEMMA CarefulInit == Init => UntilLapse
<1> SUFFICES ASSUME Init PROVE Careful
  BY DEF UntilLapse
<1>1. SealedThere
  BY DEF Init, SealedThere
<1>2. NothingThere /\ Ordered /\ Covered /\ FlagHolds
  BY DEF Init, NothingThere, Ordered, Covered, FlagHolds, Restored
<1>3. QED BY <1>1, <1>2 DEF Careful

\* Steps that leave trail, copies and snapshot alone and end no save.
LEMMA CalmStep ==
  ASSUME Careful, asks \in Nat, asks' \in Nat, asks <= asks',
         UNCHANGED <<trail, stored, answers, up, fresh, acked>>,
         \A c \in Client : stage'[c] = "answered" /\ res'[c].id # 0 =>
                             stage[c] = "answered" /\ res'[c] = res[c],
         hydrated' => Restored \/ due'
  PROVE  Careful'
<1>1. (Restored <=> Restored') /\ Latest' = Latest
  BY DEF Restored, Latest
<1>2. NothingThere' /\ FlagHolds'
  BY <1>1 DEF Careful, NothingThere, FlagHolds, Restored
<1>3. Ordered'
  BY <1>1 DEF Careful, Ordered, Prefix
<1>4. SealedThere'
  BY DEF Careful, SealedThere, Ids
<1>5. Covered'
  <2>1. Ids(Latest)' = Ids(Latest) /\ Ids(trail)' = Ids(trail)
    BY <1>1 DEF Ids
  <2>2. asks > 0 => asks' > 0
    OBVIOUS
  <2>3. QED BY <2>1, <2>2 DEF Careful, Covered
<1>6. QED BY <1>2, <1>3, <1>4, <1>5 DEF Careful

\* Nothing under way: everything clients know of is in the snapshot.
LEMMA QuietIsSaved ==
  ASSUME Careful, asks = 0, answers = <<>> PROVE acked \subseteq Ids(stored)
  BY DEF Careful, Covered, Latest

\* Nothing under way: the container's trail may be lost or replaced by the
\* snapshot.
LEMMA QuietStep ==
  ASSUME Careful, asks = 0, answers = <<>>, asks' \in Nat, answers' = <<>>,
         UNCHANGED <<stored, acked>>, stored \in Seq(Record),
         trail' = IF Restored' THEN IF Restored /\ trail' = trail THEN trail ELSE stored ELSE <<>>,
         \A c \in Client : stage'[c] # "answered",
         hydrated' => Restored' \/ due'
  PROVE  Careful'
<1>1. acked' \subseteq Ids(stored')
  BY QuietIsSaved DEF Ids
<1>2. Covered'
  BY <1>1 DEF Covered, Latest
<1>3. NothingThere' /\ FlagHolds' /\ SealedThere'
  BY DEF NothingThere, FlagHolds, SealedThere, Restored
<1>4. Restored' => Prefix(stored', trail')
  BY PrefixSelf DEF Careful, Ordered, Prefix
<1>5. Ordered'
  BY <1>4 DEF Ordered
<1>6. QED BY <1>2, <1>3, <1>5 DEF Careful

\* The object starts and restores the container.
LEMMA CarefulHydrate ==
  ASSUME Base, Careful, NEW c \in Client, Hydrate(c), ~ lapsed' PROVE Careful'
<1>1. /\ stored \in Seq(Record) /\ trail \in Seq(Record) /\ asks \in Nat
      /\ stage \in [Client -> Stage]
  BY DEF Base, TrailsOK, TrailOK, CountsOK, RequestsOK
<1>2. Restored' /\ UNCHANGED <<stored, asks, answers, acked, res>> /\ hydrated'
  BY DEF Hydrate, Goto, saves, Restored
<1>3. trail' = trail \/ (trail = <<>> /\ trail' = stored)
  BY DEF Hydrate, RestoreAudit, ReplaceRecords, Lapse
<1>4. \A d \in Client : stage'[d] = "answered" => stage[d] = "answered"
  BY <1>1 DEF Hydrate, Goto
<1>5. trail' = stored \/ (Restored /\ trail' = trail)
  <2>1. CASE Restored
    <3>1. CASE trail' = trail
      BY <2>1, <3>1
    <3>2. CASE trail' = stored
      BY <3>2
    <3>3. QED BY <1>3, <3>1, <3>2
  <2>2. CASE ~ Restored
    <3>1. trail = <<>>
      BY <2>2 DEF Careful, NothingThere
    <3>2. CASE stored = <<>>
      BY <1>3, <3>1, <3>2
    <3>3. CASE stored # <<>>
      BY <3>1, <3>3 DEF Hydrate, RestoreAudit, ReplaceRecords, Lapse
    <3>4. QED BY <3>2, <3>3
  <2>3. QED BY <2>1, <2>2
<1>6. NothingThere' /\ FlagHolds'
  BY <1>2 DEF NothingThere, FlagHolds, Restored
<1>7. CASE trail' = trail /\ Restored
  <2>1. UNCHANGED <<up, fresh>>
    BY <1>7, Zenon DEF Base, FlagsOK, Hydrate, Restored
  <2>2. \A d \in Client : stage'[d] = "answered" /\ res'[d].id # 0 =>
                            stage[d] = "answered" /\ res'[d] = res[d]
    BY <1>2, <1>4
  <2>3. asks' \in Nat /\ asks <= asks'
    BY <1>1, <1>2
  <2>4. QED BY <1>1, <1>2, <1>7, <2>1, <2>2, <2>3, CalmStep
<1>8. CASE trail' = stored /\ trail = <<>>
  <2>1. CASE stored = <<>> /\ Restored
    BY <1>7, <1>8, <2>1
  <2>2. CASE stored # <<>> /\ Restored
    <3>1. Len(stored) <= Len(trail)
      BY <2>2 DEF Careful, Ordered, Prefix
    <3>2. QED BY <1>1, <1>8, <2>2, <3>1, EmptySeq
  <2>3. CASE ~ Restored
    <3>1. answers = <<>>
      BY <2>3 DEF Careful, NothingThere
    <3>2. Ordered'
      BY <1>1, <1>2, <1>8, <3>1, PrefixSelf DEF Ordered
    <3>3. Ids(trail) = {}
      BY <1>8 DEF Ids
    <3>4. SealedThere'
      BY <1>2, <1>4, <3>3 DEF Careful, SealedThere
    <3>5. acked \subseteq Ids(stored)
      BY <3>1, <3>3 DEF Careful, Covered, Latest
    <3>6. Covered'
      BY <1>2, <3>1, <3>5 DEF Covered, Latest, Ids
    <3>7. QED BY <1>6, <3>2, <3>4, <3>6 DEF Careful
  <2>4. QED BY <2>1, <2>2, <2>3
<1>9. QED
  <2>1. CASE Restored /\ trail' = trail
    BY <1>7, <2>1
  <2>2. CASE ~ Restored
    BY <1>5, <1>8, <2>2 DEF Careful, NothingThere
  <2>3. CASE Restored /\ trail' # trail
    BY <1>3, <1>8, <2>3
  <2>4. QED BY <2>1, <2>2, <2>3

\* The object is evicted, or reset by a start that failed.
LEMMA CarefulForget ==
  ASSUME Base, Careful, Forget, ~ lapsed', UNCHANGED <<stored, acked>>,
         \/ UNCHANGED <<up, fresh, trail>>
         \/ ~ up /\ fresh' /\ UNCHANGED trail
         \/ trail' = stored /\ up' /\ ~ fresh'
  PROVE  Careful'
<1>1. asks = 0 /\ answers = <<>> /\ asks' = 0 /\ answers' = <<>> /\ ~ hydrated'
  BY DEF Forget, Lapse, Quiet
<1>2. \A c \in Client : stage'[c] # "answered"
  BY DEF Forget
<1>3. stored \in Seq(Record)
  BY DEF Base, TrailsOK, TrailOK
<1>4. ~ Restored => trail = <<>>
  BY DEF Careful, NothingThere
<1>5. trail' = IF Restored' THEN IF Restored /\ trail' = trail THEN trail ELSE stored ELSE <<>>
  BY <1>4 DEF Restored
<1>6. asks' \in Nat
  BY <1>1
<1>7. QED BY <1>1, <1>2, <1>3, <1>5, <1>6, QuietStep

\* The container ends with nothing under way.
LEMMA CarefulGone ==
  ASSUME Base, Careful, NEW more, Gone(more), ~ lapsed', hydrated => due' PROVE Careful'
<1>1. asks = 0 /\ answers = <<>> /\ asks' = 0 /\ answers' = <<>> /\ hydrated' = hydrated
  BY DEF Gone, Lapse, Quiet, saves
<1>2. \A c \in Client : stage'[c] # "answered"
  BY DEF Gone, Lapse, Quiet, requests
<1>3. stored \in Seq(Record)
  BY DEF Base, TrailsOK, TrailOK
<1>4. ~ Restored' /\ trail' = <<>> /\ UNCHANGED <<stored, acked>>
  BY DEF Gone, Restored
<1>5. asks' \in Nat
  BY <1>1
<1>6. QED BY <1>1, <1>2, <1>3, <1>4, <1>5, QuietStep

\* A container started without a restore: nothing was there before, either.
LEMMA CarefulCold ==
  ASSUME Base, Careful, ~ up, StartsCold,
         UNCHANGED <<requests, stored, asks, answers, trail, acked>>
  PROVE  Careful'
<1>1. ~ Restored /\ ~ Restored' /\ ~ hydrated'
  BY DEF Restored, StartsCold
<1>2. NothingThere' /\ FlagHolds'
  BY <1>1 DEF Careful, NothingThere, FlagHolds
<1>3. Ordered'
  BY <1>1, <1>2 DEF NothingThere, Ordered
<1>4. SealedThere' /\ Covered'
  BY DEF Careful, SealedThere, Covered, Latest, Ids, requests
<1>5. QED BY <1>2, <1>3, <1>4 DEF Careful

\* A save finds no container.
LEMMA CarefulSaveCold == ASSUME Base, Careful, SaveCold PROVE Careful'
<1>1. CASE StartsCold /\ UNCHANGED asks
  BY <1>1, CarefulCold DEF SaveCold, history
<1>2. CASE asks' = asks - 1 /\ UNCHANGED <<up, fresh, hydrated>>
  <2>1. /\ ~ Restored /\ ~ Restored'
        /\ UNCHANGED <<requests, stored, answers, due, trail, acked>>
    BY <1>2 DEF SaveCold, Restored, history
  <2>2. trail = <<>> /\ answers = <<>>
    BY <2>1 DEF Careful, NothingThere
  <2>3. NothingThere' /\ Ordered'
    BY <2>1, <2>2 DEF NothingThere, Ordered
  <2>4. FlagHolds'
    BY <1>2, <2>1 DEF Careful, FlagHolds
  <2>5. SealedThere'
    BY <2>1 DEF Careful, SealedThere, Ids, requests
  <2>6. acked \subseteq Ids(stored)
    BY <2>2 DEF Careful, Covered, Latest, Ids
  <2>7. Covered'
    BY <2>1, <2>2, <2>6 DEF Covered, Latest, Ids
  <2>8. QED BY <2>3, <2>4, <2>5, <2>7 DEF Careful
<1>3. QED BY <1>1, <1>2 DEF SaveCold

\* A request finds no container.
LEMMA CarefulForwardCold ==
  ASSUME Base, Careful, NEW c \in Client, ForwardCold(c) PROVE Careful'
<1>1. CASE StartsCold /\ UNCHANGED requests
  BY <1>1, CarefulCold DEF ForwardCold, saves, history
<1>2. CASE Answered(c, FALSE, 0) /\ UNCHANGED <<up, fresh, hydrated>>
  <2>1. \A d \in Client : stage'[d] = "answered" /\ res'[d].id # 0 =>
                            stage[d] = "answered" /\ res'[d] = res[d]
    BY <1>2 DEF Answered, Base, RequestsOK
  <2>2. asks \in Nat /\ asks' \in Nat /\ asks <= asks'
    BY DEF ForwardCold, saves, Base, CountsOK
  <2>3. hydrated' => Restored \/ due'
    BY <1>2 DEF ForwardCold, Careful, FlagHolds
  <2>4. UNCHANGED <<trail, stored, answers, up, fresh, acked>>
    BY <1>2 DEF ForwardCold, saves, history
  <2>5. QED BY <2>1, <2>2, <2>3, <2>4, CalmStep
<1>3. QED BY <1>1, <1>2 DEF ForwardCold

\* A save reads the trail of a restored container.
LEMMA CarefulSaveReads == ASSUME Base, Careful, SaveReads, ~ lapsed' PROVE Careful'
<1> DEFINE a == Append(answers, trail)
<1>1. /\ trail \in Seq(Record) /\ stored \in Seq(Record) /\ answers \in Seq(Seq(Record))
      /\ asks \in Nat
  BY DEF Base, TrailsOK, TrailOK, CountsOK
<1>2. Restored /\ Restored'
  BY DEF SaveReads, Lapse, Restored, container
<1>3. PICK n \in Nat : n = Len(answers)
  BY <1>1
<1>4. /\ Len(a) = n + 1 /\ a[n + 1] = trail /\ a # <<>>
      /\ \A i \in 1 .. n : a[i] = answers[i]
  BY <1>1, <1>3
<1>5. answers' = a /\ UNCHANGED <<requests, hydrated, stored, due, trail, acked>>
  BY DEF SaveReads, container
<1> HIDE DEF a
<1>6. ASSUME NEW i \in 1 .. (n + 1)
      PROVE  Prefix(a[i], trail) /\ Len(stored) <= Len(a[i]) /\ Len(a[i]) <= Len(trail)
  <2>1. CASE i \in 1 .. n
    BY <1>3, <1>4, <2>1 DEF Careful, Ordered, Prefix
  <2>2. CASE i = n + 1
    BY <1>1, <1>2, <1>4, <2>2, PrefixSelf DEF Careful, Ordered, Prefix
  <2>3. QED BY <2>1, <2>2
<1>7. ASSUME NEW i \in 1 .. (n + 1), NEW j \in 1 .. (n + 1), i <= j
      PROVE  Len(a[i]) <= Len(a[j])
  <2>1. CASE j \in 1 .. n
    BY <1>3, <1>4, <1>7, <2>1 DEF Careful, Ordered
  <2>2. CASE j = n + 1
    BY <1>4, <1>6, <2>2
  <2>3. QED BY <2>1, <2>2
<1>8. Prefix(stored, trail)'
  BY <1>2, <1>5 DEF Careful, Ordered, Prefix
<1>9. Ordered'
  <2>1. \A i \in 1 .. Len(answers') : Prefix(answers'[i], trail') /\ Len(stored') <= Len(answers'[i])
    BY <1>4, <1>5, <1>6
  <2>2. \A i, j \in 1 .. Len(answers') : i <= j => Len(answers'[i]) <= Len(answers'[j])
    BY <1>4, <1>5, <1>7
  <2>3. QED BY <1>8, <2>1, <2>2 DEF Ordered
<1>10. SealedThere'
  BY <1>5 DEF Careful, SealedThere, Ids, requests
<1>11. Ids(Latest) \subseteq Ids(trail)
  <2>1. CASE answers = <<>>
    BY <1>1, <1>2, <2>1, PrefixIds DEF Latest, Careful, Ordered
  <2>2. CASE answers # <<>>
    <3>1. n \in 1 .. n /\ answers[n] \in Seq(Record) /\ Latest = answers[n]
      BY <1>1, <1>3, <2>2 DEF Latest
    <3>2. QED BY <1>1, <1>3, <3>1, PrefixIds DEF Careful, Ordered
  <2>3. QED BY <2>1, <2>2
<1>12. acked \subseteq Ids(trail)
  BY <1>11 DEF Careful, Covered
<1>13. Covered'
  <2>1. Latest' = trail
    BY <1>4, <1>5 DEF Latest
  <2>2. Ids(Latest)' = Ids(trail)
    BY <2>1 DEF Ids
  <2>3. QED BY <1>5, <1>12, <2>2 DEF Covered
<1>14. NothingThere' /\ FlagHolds'
  BY <1>2 DEF NothingThere, FlagHolds
<1>15. QED BY <1>9, <1>10, <1>13, <1>14 DEF Careful

\* The copy that is put extends the snapshot, and the copies after it extend it.
LEMMA CarefulSavePuts ==
  ASSUME Base, Careful, SavePuts PROVE Careful' /\ Prefix(stored, stored')
<1>1. /\ trail \in Seq(Record) /\ stored \in Seq(Record) /\ answers \in Seq(Seq(Record))
      /\ answers # <<>>
  BY DEF Base, TrailsOK, TrailOK, SavePuts
<1>2. /\ stored' = answers[1] /\ 1 \in 1 .. Len(answers) /\ answers' = Tail(answers)
      /\ UNCHANGED <<requests, hydrated, asks, up, fresh, due, trail, acked>>
  BY <1>1, TakeFirst DEF SavePuts, Put, container, history
<1>3. Restored /\ Restored'
  BY <1>1, <1>2 DEF Careful, NothingThere, Restored
<1>4. PICK n \in Nat : n = Len(answers) /\ n # 0
  BY <1>1, EmptySeq
<1>5. /\ Len(answers') = n - 1
      /\ \A k \in 1 .. (n - 1) : answers'[k] = answers[k + 1] /\ k + 1 \in 1 .. n /\ 1 <= k + 1
  BY <1>1, <1>2, <1>4, TakeFirst
<1>6. Prefix(stored', trail') /\ stored' \in Seq(Record)
  BY <1>1, <1>2 DEF Careful, Ordered
<1>7. Prefix(stored, stored')
  BY <1>1, <1>2, <1>3, <1>6, PrefixBoth DEF Careful, Ordered
<1>8. Ordered'
  <2>1. ASSUME NEW k \in 1 .. (n - 1)
        PROVE  Prefix(answers'[k], trail') /\ Len(stored') <= Len(answers'[k])
    <3>1. answers'[k] = answers[k + 1] /\ k + 1 \in 1 .. Len(answers) /\ 1 <= k + 1
      BY <1>4, <1>5
    <3>2. QED BY <1>2, <3>1 DEF Careful, Ordered
  <2>2. ASSUME NEW i \in 1 .. (n - 1), NEW j \in 1 .. (n - 1), i <= j
        PROVE  Len(answers'[i]) <= Len(answers'[j])
    <3>1. i + 1 \in 1 .. Len(answers) /\ j + 1 \in 1 .. Len(answers) /\ i + 1 <= j + 1
      BY <1>4, <2>2
    <3>2. answers'[i] = answers[i + 1] /\ answers'[j] = answers[j + 1]
      BY <1>5
    <3>3. QED BY <3>1, <3>2 DEF Careful, Ordered
  <2>3. QED BY <1>5, <1>6, <2>1, <2>2 DEF Ordered
<1>9. Latest' = Latest
  <2>1. CASE n = 1
    <3>1. answers' = <<>>
      <4>1. answers' \in Seq(Seq(Record))
        BY <1>1, <1>2, TakeFirst
      <4>2. Len(answers') = 0
        BY <1>5, <2>1
      <4>3. QED BY <4>1, <4>2, EmptySeq
    <3>2. QED BY <1>1, <1>2, <1>4, <2>1, <3>1 DEF Latest
  <2>2. CASE n # 1
    <3>1. n - 1 \in 1 .. (n - 1) /\ (n - 1) + 1 = n
      BY <1>4, <2>2
    <3>2. answers'[n - 1] = answers[n]
      BY <1>5, <3>1
    <3>3. answers' # <<>>
      BY <1>5, <3>1
    <3>4. QED BY <1>1, <1>4, <1>5, <3>2, <3>3 DEF Latest
  <2>3. QED BY <2>1, <2>2
<1>10. Covered'
  BY <1>2, <1>9 DEF Careful, Covered, Ids
<1>11. SealedThere'
  BY <1>2 DEF Careful, SealedThere, Ids, requests
<1>12. NothingThere' /\ FlagHolds'
  BY <1>3 DEF NothingThere, FlagHolds
<1>13. QED BY <1>7, <1>8, <1>10, <1>11, <1>12 DEF Careful

\* A 2xx answer with a record behind it starts a save.
LEMMA CarefulReturn ==
  ASSUME Base, Careful, NEW c \in Client, Return(c) PROVE Careful'
<1>1. /\ asks \in Nat /\ stage[c] = "answered" /\ req[c] \in Request /\ res[c] \in Response
      /\ res[c].id # 0 => Method(req[c]) = "POST"
  BY DEF Base, CountsOK, RequestsOK, Return
<1>2. \A d \in Client : stage'[d] = "answered" =>
                          stage[d] = "answered" /\ res'[d] = res[d]
  BY DEF Return, Done, Base, RequestsOK
<1>3. UNCHANGED <<stored, answers, hydrated, trail, up, fresh, due>>
  BY DEF Return, container
<1>4. (Restored <=> Restored') /\ Latest' = Latest /\ Ids(Latest)' = Ids(Latest) /\ Ids(trail)' = Ids(trail)
  BY <1>3 DEF Restored, Latest, Ids
<1>5. NothingThere' /\ FlagHolds'
  BY <1>3, <1>4 DEF Careful, NothingThere, FlagHolds
<1>6. Ordered'
  BY <1>3, <1>4 DEF Careful, Ordered, Prefix
<1>7. SealedThere'
  BY <1>2, <1>4 DEF Careful, SealedThere
<1>8. CASE res[c].ok /\ res[c].id # 0
  <2>1. ShouldPersistAudit(req[c], res[c].ok)
    BY <1>1, <1>8 DEF ShouldPersistAudit, Request, Route, Method, Path
  <2>2. asks' > 0 /\ acked' = acked \union {res[c].id}
    BY <1>1, <1>8, <2>1 DEF Return
  <2>3. res[c].id \in Ids(trail)
    BY <1>1, <1>8 DEF Careful, SealedThere
  <2>4. Covered'
    BY <1>4, <2>2, <2>3 DEF Careful, Covered
  <2>5. QED BY <1>5, <1>6, <1>7, <2>4 DEF Careful
<1>9. CASE ~ (res[c].ok /\ res[c].id # 0)
  <2>1. acked' = acked
    BY <1>9 DEF Return
  <2>2. asks > 0 => asks' > 0
    BY <1>1 DEF Return
  <2>3. Covered'
    BY <1>4, <2>1, <2>2 DEF Careful, Covered
  <2>4. QED BY <1>5, <1>6, <1>7, <2>3 DEF Careful
<1>10. QED BY <1>8, <1>9

\* A restored container seals at the end of its trail, or changes nothing.
LEMMA CarefulForward ==
  ASSUME Base, Careful, NEW c \in Client, Forward(c), ~ lapsed' PROVE Careful'
<1>1. /\ trail \in Seq(Record) /\ stored \in Seq(Record) /\ answers \in Seq(Seq(Record))
      /\ asks \in Nat /\ req[c] \in Request
  BY DEF Base, TrailsOK, TrailOK, CountsOK, RequestsOK, Forward
<1>2. UNCHANGED <<hydrated, stored, asks, answers, up, fresh, due, acked>>
  BY DEF Forward, saves
<1>3. Restored /\ Restored'
  BY DEF Forward, Lapse, Restored
<1>4. CASE UNCHANGED trail /\ \E ok \in BOOLEAN : Answered(c, ok, 0)
  <2>1. \A d \in Client : stage'[d] = "answered" /\ res'[d].id # 0 =>
                            stage[d] = "answered" /\ res'[d] = res[d]
    BY <1>4 DEF Answered, Base, RequestsOK
  <2>2. asks' \in Nat /\ asks <= asks'
    BY <1>1, <1>2
  <2>3. QED BY <1>1, <1>2, <1>3, <1>4, <2>1, <2>2, CalmStep
<1>5. CASE AppendRecord(req[c]) /\ \E ok \in BOOLEAN : Answered(c, ok, sealed')
  <2>1. PICK r : trail' = Append(trail, r) /\ r.id = sealed'
    BY <1>5 DEF AppendRecord
  <2>2. PICK ok \in BOOLEAN : Answered(c, ok, sealed')
    BY <1>5
  <2>3. /\ Len(trail') = Len(trail) + 1 /\ Len(trail) \in Nat /\ trail'[Len(trail) + 1] = r
        /\ \A i \in 1 .. Len(trail) : trail'[i] = trail[i]
    BY <1>1, <2>1
  <2>4. sealed' \in Ids(trail') /\ Ids(trail) \subseteq Ids(trail')
    BY <2>1, <2>3 DEF Ids
  <2>5. Ordered'
    <3>1. Prefix(stored', trail')
      BY <1>1, <1>2, <1>3, <2>1, PrefixAppend DEF Careful, Ordered
    <3>2. ASSUME NEW i \in 1 .. Len(answers)
          PROVE  Prefix(answers[i], trail') /\ Len(stored) <= Len(answers[i])
      <4>1. answers[i] \in Seq(Record)
        BY <1>1
      <4>2. QED BY <1>1, <2>1, <4>1, PrefixAppend DEF Careful, Ordered
    <3>3. QED BY <1>2, <3>1, <3>2 DEF Careful, Ordered
  <2>6. SealedThere'
    <3>1. stage'[c] = "answered" /\ res'[c].id = sealed'
      BY <2>2 DEF Answered, Base, RequestsOK
    <3>2. \A d \in Client : d # c => stage'[d] = stage[d] /\ res'[d] = res[d]
      BY <2>2 DEF Answered, Base, RequestsOK
    <3>3. QED BY <2>4, <3>1, <3>2 DEF Careful, SealedThere
  <2>7. Covered'
    <3>1. Ids(Latest)' = Ids(Latest)
      BY <1>2 DEF Latest, Ids
    <3>2. QED BY <1>2, <2>4, <3>1 DEF Careful, Covered
  <2>8. NothingThere' /\ FlagHolds'
    BY <1>3 DEF NothingThere, FlagHolds
  <2>9. QED BY <2>5, <2>6, <2>7, <2>8 DEF Careful
<1>6. CASE Path(req[c]) = "/snapshot" /\ Answered(c, TRUE, 0)
  <2>1. UNCHANGED trail
    BY <1>6 DEF Forward, Lapse, TakesBack
  <2>2. QED BY <1>4, <1>6, <2>1
<1>7. QED BY <1>4, <1>5, <1>6 DEF Forward, Handle

\* Every step keeps UntilLapse.
LEMMA CarefulNext == Base /\ UntilLapse /\ [Next]_vars => UntilLapse'
<1> SUFFICES ASSUME Base, UntilLapse, [Next]_vars, ~ lapsed' PROVE Careful'
  BY DEF UntilLapse
<1>0. ~ lapsed
  BY DEF Next, Serve, Save, Pass, Hydrate, RestoreAudit, HydrateFails, Forget, Forward,
         ForwardCold, Return, Drop, Arrive, SaveReads, SaveCold, SavePuts, SaveOvertakes,
         SaveFails, Evict, Expire, Exit, Crash, Gone, OnStop, OnError, Lapse, history, vars
<1>1. Careful /\ asks \in Nat
  BY <1>0 DEF UntilLapse, Base, CountsOK
<1>2. FlagHolds
  BY <1>1 DEF Careful
<1>3. ASSUME NEW c \in Client, Pass(c) \/ Drop(c) PROVE Careful'
  <2>1. \A d \in Client : stage'[d] = "answered" => stage[d] = "answered" /\ res'[d] = res[d]
    BY <1>3 DEF Pass, Goto, Drop, Done, Base, RequestsOK
  <2>2. UNCHANGED <<trail, stored, asks, answers, up, fresh, acked, hydrated, due>>
    BY <1>3 DEF Pass, Drop, container, saves, history
  <2>3. asks' \in Nat /\ asks <= asks'
    BY <1>1, <2>2
  <2>4. hydrated' => Restored \/ due'
    BY <1>2, <2>2 DEF FlagHolds
  <2>5. QED BY <1>1, <2>1, <2>2, <2>3, <2>4, CalmStep
<1>4. ASSUME NEW c \in Client, NEW q \in Traffic, Arrive(c, q) PROVE Careful'
  <2>1. \A d \in Client : stage'[d] = "answered" => stage[d] = "answered" /\ res'[d] = res[d]
    BY <1>4 DEF Arrive, Base, RequestsOK
  <2>2. UNCHANGED <<trail, stored, asks, answers, up, fresh, acked, hydrated, due>>
    BY <1>4 DEF Arrive, container, saves, history
  <2>3. asks' \in Nat /\ asks <= asks'
    BY <1>1, <2>2
  <2>4. hydrated' => Restored \/ due'
    BY <1>2, <2>2 DEF FlagHolds
  <2>5. QED BY <1>1, <2>1, <2>2, <2>3, <2>4, CalmStep
<1>5. ASSUME Expire \/ OnStop \/ OnError \/ UNCHANGED vars PROVE Careful'
  <2>1. UNCHANGED requests /\ UNCHANGED <<trail, stored, answers, up, fresh, acked>>
    BY <1>5 DEF Expire, OnStop, OnError, vars, requests, saves, container, history
  <2>2. asks' = asks \/ asks' = asks + 1
    BY <1>5 DEF Expire, OnStop, OnError, vars, saves
  <2>3. asks' \in Nat /\ asks <= asks'
    BY <1>1, <2>2
  <2>4. hydrated' => Restored \/ due'
    <3>1. CASE Expire
      BY <3>1 DEF Expire
    <3>2. CASE OnStop \/ OnError
      BY <3>2 DEF OnStop, OnError
    <3>3. CASE UNCHANGED vars
      BY <1>2, <3>3 DEF FlagHolds, vars, container
    <3>4. QED BY <1>5, <3>1, <3>2, <3>3
  <2>5. QED BY <1>1, <2>1, <2>3, <2>4, CalmStep DEF requests
<1>6. ASSUME NEW c \in Client, HydrateFails(c) PROVE Careful'
  <2>1. \/ UNCHANGED <<up, fresh, trail>>
        \/ ~ up /\ fresh' /\ UNCHANGED trail
        \/ trail' = stored /\ up' /\ ~ fresh'
    BY <1>6 DEF HydrateFails, ReplaceRecords
  <2>2. Forget /\ UNCHANGED <<stored, acked>>
    BY <1>6 DEF HydrateFails
  <2>3. QED BY <1>1, <2>1, <2>2, CarefulForget
<1>7. ASSUME Evict PROVE Careful'
  BY <1>1, <1>7, CarefulForget DEF Evict, container
<1>8. ASSUME Exit PROVE Careful'
  <2>1. Gone(hydrated /\ ~ due) /\ due' = due
    BY <1>8 DEF Exit
  <2>2. hydrated => due'
    BY <2>1 DEF Gone, Lapse
  <2>3. QED BY <1>1, <2>1, <2>2, CarefulGone
<1>9. ASSUME Crash PROVE Careful'
  BY <1>1, <1>9, CarefulGone DEF Crash
<1>10. ~ SaveOvertakes /\ ~ SaveFails
  BY DEF SaveOvertakes, SaveFails, Lapse
<1>11. QED
  BY <1>1, <1>3, <1>4, <1>5, <1>6, <1>7, <1>8, <1>9, <1>10, CarefulHydrate, CarefulForward,
     CarefulForwardCold, CarefulReturn, CarefulSaveReads, CarefulSaveCold, CarefulSavePuts
  DEF Next, Serve, Save

\* Both invariants hold in every reachable state.
LEMMA UntilLapseAlways == Spec => [](Base /\ UntilLapse)
<1>1. Init => Base /\ UntilLapse
  BY BaseInit, CarefulInit
<1>2. (Base /\ UntilLapse) /\ [Next]_vars => (Base /\ UntilLapse)'
  BY BaseNext, CarefulNext
<1>3. QED BY <1>1, <1>2, PTL DEF Spec

\* Until the first lapse every record a client knows of is in the snapshot or in
\* the restored container.
THEOREM NothingIsLost == Spec => []NothingLost
<1>1. Base /\ UntilLapse => NothingLost
  <2> SUFFICES ASSUME Base, Careful
               PROVE  acked \subseteq Ids(stored) \union (IF Restored THEN Ids(trail) ELSE {})
    BY DEF UntilLapse, NothingLost, Restored
  <2>1. trail \in Seq(Record) /\ stored \in Seq(Record) /\ answers \in Seq(Seq(Record))
    BY DEF Base, TrailsOK, TrailOK
  <2>2. CASE ~ Restored
    BY <2>2 DEF Careful, NothingThere, Covered, Latest, Ids
  <2>3. CASE Restored /\ answers = <<>>
    BY <2>3 DEF Careful, Covered, Latest
  <2>4. CASE Restored /\ answers # <<>>
    <3>1. Len(answers) \in 1 .. Len(answers) /\ Latest = answers[Len(answers)]
      BY <2>1, <2>4, EmptySeq DEF Latest
    <3>2. Latest \in Seq(Record) /\ Prefix(Latest, trail)
      BY <2>1, <3>1 DEF Careful, Ordered
    <3>3. Ids(Latest) \subseteq Ids(trail)
      BY <2>1, <3>2, PrefixIds
    <3>4. QED BY <2>4, <3>3 DEF Careful, Covered
  <2>5. QED BY <2>2, <2>3, <2>4
<1>2. QED BY <1>1, UntilLapseAlways, PTL

\* Until the first lapse the object's idea of the container is right, or about
\* to be corrected.
THEOREM HydratedIsRight == Spec => []HydratedHolds
<1>1. UntilLapse => HydratedHolds
  BY DEF UntilLapse, Careful, FlagHolds, Restored, HydratedHolds
<1>2. QED BY <1>1, UntilLapseAlways, PTL

\* Until the first lapse a put extends the snapshot and takes nothing back.
THEOREM SnapshotOnlyGrows == Spec => SnapshotGrows
<1>1. Base /\ UntilLapse /\ [Next]_vars => [~ lapsed' => Prefix(stored, stored')]_stored
  <2> SUFFICES ASSUME Base, UntilLapse, [Next]_vars, ~ lapsed', stored' # stored
               PROVE  Prefix(stored, stored')
    OBVIOUS
  <2>1. SavePuts
    BY DEF Next, Serve, Save, Pass, Hydrate, HydrateFails, Forward, ForwardCold, Return, Drop,
           Arrive, SaveReads, SaveCold, SaveOvertakes, SaveFails, Evict, Expire, Exit, Crash,
           Gone, OnStop, OnError, Lapse, vars
  <2>2. Careful
    BY <2>1 DEF UntilLapse, SavePuts, history
  <2>3. QED BY <2>1, <2>2, CarefulSavePuts
<1>2. QED BY <1>1, UntilLapseAlways, PTL DEF Spec, SnapshotGrows
=============================================================================
