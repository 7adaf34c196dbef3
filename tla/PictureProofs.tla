---------------------------- MODULE PictureProofs ----------------------------
(***************************************************************************)
(* Proofs about Picture, for every feed, all scenarios, any lists of       *)
(* payloads, any number of failing reads and writes and any bound on the   *)
(* observations.                                                           *)
(***************************************************************************)
EXTENDS Picture, FiniteSetTheorems, SequenceTheorems, WellFoundedInduction, TLAPS

-----------------------------------------------------------------------------
(* Naturals: every set of them has a least element, and induction follows. *)

\* A set of naturals that is not empty has a least element.
LEMMA LeastNatural ==
  ASSUME NEW S \in SUBSET Nat, S # {}
  PROVE  \E x \in S : \A y \in S : x <= y
<1> DEFINE Less == OpToRel(<, Nat)
<1>1. IsWellFoundedOn(Less, Nat)
  BY NatLessThanWellFounded, Zenon
<1>2. \A x, y \in Nat : x < y => <<x, y>> \in Less
  BY DEF OpToRel
<1> HIDE DEF Less
<1>3. PICK x \in S : \A y \in S : ~ (<<y, x>> \in Less)
  BY <1>1, WFMin
<1>4. \A y \in S : x <= y
  <2> SUFFICES ASSUME NEW y \in S PROVE x <= y
    OBVIOUS
  <2>1. x \in Nat /\ y \in Nat /\ ~ (y < x)
    BY <1>2, <1>3
  <2> QED
    BY <2>1
<1> QED
  BY <1>4

\* A set of naturals with 0 and the successor of each of its elements is all of
\* them.
LEMMA NaturalSet ==
  ASSUME NEW S \in SUBSET Nat, 0 \in S, \A n \in S : n + 1 \in S
  PROVE  S = Nat
<1> SUFFICES ASSUME Nat \ S # {} PROVE FALSE
  OBVIOUS
<1>1. PICK x \in Nat \ S : \A y \in Nat \ S : x <= y
  BY LeastNatural
<1>2. x - 1 \in Nat /\ x - 1 \notin Nat \ S /\ (x - 1) + 1 = x
  BY <1>1
<1> QED
  BY <1>1, <1>2

\* Min and Max of a set of naturals that is not empty and has a bound.
LEMMA MinNatural ==
  ASSUME NEW S \in SUBSET Nat, S # {}
  PROVE  Min(S) \in S /\ \A y \in S : Min(S) <= y
BY LeastNatural DEF Min

\* The greatest element, under a bound.
LEMMA MaxNatural ==
  ASSUME NEW n \in Nat, NEW S \in SUBSET (0 .. n), S # {}
  PROVE  Max(S) \in S /\ \A y \in S : y <= Max(S)
<1> DEFINE T == {k \in Nat : n - k \in S}
<1>1. T \in SUBSET Nat /\ T # {}
  <2>1. PICK y \in S : TRUE
    OBVIOUS
  <2>2. n - y \in Nat /\ n - (n - y) = y
    OBVIOUS
  <2> QED
    BY <2>2
<1>2. PICK k \in T : \A j \in T : k <= j
  BY <1>1, LeastNatural
<1>3. n - k \in S
  OBVIOUS
<1>4. ASSUME NEW y \in S PROVE n - k >= y
  <2>1. n - y \in Nat /\ n - (n - y) = y
    OBVIOUS
  <2>2. k <= n - y
    BY <1>2, <2>1
  <2> QED
    BY <2>2
<1>5. \E x \in S : \A y \in S : x >= y
  BY <1>3, <1>4
<1> QED
  BY <1>5 DEF Max

-----------------------------------------------------------------------------
(* Ingesting one after the other.                                          *)

\* The graphs after each of the first observations.
Stages(f, g, s) ==
  f = [n \in 0 .. Len(s) |-> IF n = 0 THEN g ELSE Ingest(f[n - 1], s[n])]

\* There are such graphs.
LEMMA StagesExist ==
  ASSUME NEW g, NEW s, Len(s) \in Nat
  PROVE  \E f : Stages(f, g, s)
<1> DEFINE Upto(f, m) == f = [n \in 0 .. m |-> IF n = 0 THEN g ELSE Ingest(f[n - 1], s[n])]
           S == {m \in Nat : \E f : Upto(f, m)}
<1>1. 0 \in S
  <2> DEFINE f == [n \in 0 .. 0 |-> g]
  <2>1. Upto(f, 0)
    OBVIOUS
  <2> QED
    BY <2>1
<1>2. ASSUME NEW m \in S PROVE m + 1 \in S
  <2>1. PICK f : Upto(f, m)
    OBVIOUS
  <2> DEFINE h == [n \in 0 .. (m + 1) |-> IF n = m + 1 THEN Ingest(f[m], s[m + 1]) ELSE f[n]]
  <2>2. ASSUME NEW n \in 0 .. (m + 1)
        PROVE  h[n] = IF n = 0 THEN g ELSE Ingest(h[n - 1], s[n])
    <3>1. CASE n = m + 1
      BY <3>1
    <3>2. CASE n # m + 1
      <4>1. n \in 0 .. m /\ h[n] = f[n]
        BY <3>2
      <4>2. n # 0 => n - 1 \in 0 .. m /\ h[n - 1] = f[n - 1]
        BY <4>1
      <4>3. f[n] = IF n = 0 THEN g ELSE Ingest(f[n - 1], s[n])
        BY <2>1, <4>1
      <4> QED
        BY <4>1, <4>2, <4>3
    <3> QED
      BY <3>1, <3>2
  <2>3. Upto(h, m + 1)
    BY <2>2
  <2> HIDE DEF Upto, h
  <2> QED
    BY <2>3
<1>3. S = Nat
  <2> HIDE DEF S
  <2>1. S \in SUBSET Nat
    BY DEF S
  <2> QED
    BY <1>1, <1>2, <2>1, NaturalSet
<1> QED
  BY <1>3 DEF Stages

\* IngestMany ends with the last of these graphs.
LEMMA IngestManyStages ==
  ASSUME NEW g, NEW s, Len(s) \in Nat
  PROVE  \E f : Stages(f, g, s) /\ IngestMany(g, s) = f[Len(s)]
<1> DEFINE f == CHOOSE h : Stages(h, g, s)
<1>1. Stages(f, g, s)
  <2>1. \E h : Stages(h, g, s)
    BY StagesExist
  <2> QED
    BY <2>1, Zenon
<1>2. IngestMany(g, s) = f[Len(s)]
  BY Zenon DEF IngestMany, Stages
<1> HIDE DEF f
<1> QED
  BY <1>1, <1>2

\* Two runs over the same first n observations have the same n-th graph.
LEMMA StagesAgree ==
  ASSUME NEW g, NEW s, NEW t, NEW n \in Nat, Len(s) \in Nat, Len(t) \in Nat,
         n <= Len(s), n <= Len(t), \A i \in 1 .. n : s[i] = t[i],
         NEW f, Stages(f, g, s), NEW h, Stages(h, g, t)
  PROVE  f[n] = h[n]
<1> DEFINE S == {m \in Nat : m <= n => f[m] = h[m]}
<1>1. 0 \in S
  BY DEF Stages
<1>2. ASSUME NEW m \in S PROVE m + 1 \in S
  <2> SUFFICES ASSUME m + 1 <= n PROVE f[m + 1] = h[m + 1]
    OBVIOUS
  <2>1. m \in Nat /\ f[m] = h[m] /\ s[m + 1] = t[m + 1]
    OBVIOUS
  <2>2. m + 1 \in 0 .. Len(s) /\ m + 1 \in 0 .. Len(t) /\ m + 1 # 0 /\ (m + 1) - 1 = m
    BY <2>1
  <2>3. f[m + 1] = Ingest(f[m], s[m + 1])
    BY <2>2 DEF Stages
  <2>4. h[m + 1] = Ingest(h[m], t[m + 1])
    BY <2>2 DEF Stages
  <2> QED
    BY <2>1, <2>3, <2>4
<1>3. S = Nat
  <2> HIDE DEF S
  <2>1. S \in SUBSET Nat
    BY DEF S
  <2> QED
    BY <1>1, <1>2, <2>1, NaturalSet
<1> QED
  BY <1>3

\* Nothing to ingest changes nothing.
LEMMA IngestNone == ASSUME NEW g PROVE IngestMany(g, <<>>) = g
<1>1. PICK s : s = <<>>
  OBVIOUS
<1>2. Len(s) = 0
  BY <1>1
<1>3. PICK f : Stages(f, g, s) /\ IngestMany(g, s) = f[0]
  BY <1>2, IngestManyStages
<1>4. f[0] = g
  BY <1>2, <1>3 DEF Stages
<1> QED
  BY <1>1, <1>3, <1>4

\* One more observation is ingested last.
LEMMA IngestLast ==
  ASSUME NEW g, NEW S, NEW s \in Seq(S), NEW o \in S
  PROVE  IngestMany(g, Append(s, o)) = Ingest(IngestMany(g, s), o)
<1> DEFINE t == Append(s, o)
<1>1. PICK n \in Nat : n = Len(s)
  OBVIOUS
<1>2. Len(t) = n + 1 /\ t[n + 1] = o /\ \A i \in 1 .. n : s[i] = t[i]
  BY <1>1
<1> HIDE DEF t
<1>3. PICK f : Stages(f, g, s) /\ IngestMany(g, s) = f[n]
  BY <1>1, IngestManyStages
<1>4. PICK h : Stages(h, g, t) /\ IngestMany(g, t) = h[n + 1]
  <2>1. Len(t) \in Nat
    BY <1>2
  <2>2. PICK h : Stages(h, g, t) /\ IngestMany(g, t) = h[Len(t)]
    BY <2>1, IngestManyStages
  <2> QED
    BY <1>2, <2>2
<1>5. h[n + 1] = Ingest(h[n], t[n + 1])
  <2>1. n + 1 \in 0 .. Len(t) /\ n + 1 # 0 /\ (n + 1) - 1 = n
    BY <1>2
  <2> QED
    BY <1>4, <2>1 DEF Stages
<1>6. f[n] = h[n]
  BY <1>1, <1>2, <1>3, <1>4, StagesAgree
<1> QED
  BY <1>2, <1>3, <1>4, <1>5, <1>6 DEF t

-----------------------------------------------------------------------------
(* Association.                                                            *)

\* Distances and separations are natural numbers.
LEMMA DistanceType == ASSUME NEW p \in Int, NEW q \in Int PROVE Distance(p, q) \in Nat
BY DEF Distance

\* So is the separation from a SAR contact that has moved on.
LEMMA SeparationType ==
  ASSUME NEW a \in Observation, NEW b \in Observation
  PROVE  Separation(a, b) \in Nat
<1>1. PICK sar \in Observation, radar \in Observation :
        Separation(a, b) = Distance(sar.place + Drift * (radar.at - sar.at), radar.place)
  BY DEF Separation
<1>2. sar.place \in Int /\ radar.place \in Int /\ radar.at - sar.at \in Int
  BY DEF Observation
<1>3. Drift * (radar.at - sar.at) \in Int
  BY <1>2, PictureAssumption
<1>4. sar.place + Drift * (radar.at - sar.at) \in Int
  BY <1>2, <1>3
<1> QED
  BY <1>1, <1>2, <1>4, DistanceType

\* A distance is a natural number, or there is none.
LEMMA AssociationType ==
  ASSUME NEW o \in Observation, NEW observations \in Seq(Observation), NEW t \in Track
  PROVE  AssociationDistance(o, observations, t) \in Nat \cup {None}
<1> DEFINE by == {k \in DOMAIN observations :
                    /\ observations[k].observation_id \in ToSet(t.observation_ids)
                    /\ AssociateKinematically(o, observations[k])}
           d == Distance(o.place, t.place)
<1>1. d \in Nat
  BY DistanceType DEF Observation, Track
<1>2. by # {} => Separation(o, observations[Min(by)]) \in Nat
  <2> SUFFICES ASSUME by # {} PROVE Separation(o, observations[Min(by)]) \in Nat
    OBVIOUS
  <2>1. by \in SUBSET Nat
    OBVIOUS
  <2>2. Min(by) \in by
    BY <2>1, MinNatural
  <2>3. Min(by) \in DOMAIN observations
    BY <2>2
  <2>4. observations[Min(by)] \in Observation
    BY <2>3
  <2> QED
    BY <2>4, SeparationType
<1>3. AssociationDistance(o, observations, t) =
        IF d <= Radius THEN d
        ELSE IF by = {} THEN None ELSE Separation(o, observations[Min(by)])
  BY DEF AssociationDistance
<1> HIDE DEF by, d
<1> QED
  BY <1>1, <1>2, <1>3

\* FindNearby finds a track or none, and the track of the name if there is one.
LEMMA Nearby ==
  ASSUME NEW o \in Observation, NEW observations \in Seq(Observation),
         NEW tracks \in Seq(Track)
  PROVE  /\ FindNearby(o, observations, tracks) \in 0 .. Len(tracks)
         /\ \A i \in 1 .. Len(tracks) :
              tracks[i].track_id = Key(o) =>
                /\ FindNearby(o, observations, tracks) # 0
                /\ tracks[FindNearby(o, observations, tracks)].track_id = Key(o)
<1> DEFINE named == {i \in DOMAIN tracks : tracks[i].track_id = Key(o)}
           d == [i \in DOMAIN tracks |-> AssociationDistance(o, observations, tracks[i])]
           near == {i \in DOMAIN tracks : d[i] # None}
           closest == {i \in near : \A j \in near : d[i] <= d[j]}
<1>1. FindNearby(o, observations, tracks) =
        IF named # {} THEN Min(named) ELSE IF near = {} THEN 0 ELSE Min(closest)
  BY DEF FindNearby
<1>2. DOMAIN tracks = 1 .. Len(tracks) /\ Len(tracks) \in Nat
  OBVIOUS
<1>3. named # {} => Min(named) \in named
  <2>1. named \in SUBSET Nat
    BY <1>2
  <2> QED
    BY <2>1, MinNatural
<1>4. near # {} => Min(closest) \in near
  <2> SUFFICES ASSUME near # {} PROVE Min(closest) \in near
    OBVIOUS
  <2>1. \A i \in near : d[i] \in Nat
    <3> SUFFICES ASSUME NEW i \in near PROVE d[i] \in Nat
      OBVIOUS
    <3>1. tracks[i] \in Track /\ d[i] = AssociationDistance(o, observations, tracks[i])
      OBVIOUS
    <3>2. d[i] \in Nat \cup {None}
      BY <3>1, AssociationType
    <3> QED
      BY <3>2
  <2> DEFINE D == {d[i] : i \in near}
  <2>2. D \in SUBSET Nat /\ D # {}
    BY <2>1
  <2>3. PICK x \in D : \A y \in D : x <= y
    BY <2>2, LeastNatural
  <2>4. PICK i \in near : d[i] = x
    OBVIOUS
  <2>5. i \in closest
    BY <2>3, <2>4
  <2>6. closest \in SUBSET Nat
    BY <1>2
  <2>7. Min(closest) \in closest
    BY <2>5, <2>6, MinNatural
  <2> QED
    BY <2>7
<1>5. near \subseteq 1 .. Len(tracks) /\ named \subseteq 1 .. Len(tracks)
  BY <1>2
<1>6. \A i \in named : tracks[i].track_id = Key(o)
  OBVIOUS
<1>7. \A i \in 1 .. Len(tracks) : tracks[i].track_id = Key(o) => i \in named
  BY <1>2
<1> HIDE DEF named, near, closest, d
<1>8. FindNearby(o, observations, tracks) \in 0 .. Len(tracks)
  <2>1. 1 .. Len(tracks) \subseteq 0 .. Len(tracks) /\ 0 \in 0 .. Len(tracks)
    BY <1>2
  <2>2. CASE named # {}
    <3>1. FindNearby(o, observations, tracks) = Min(named)
      BY <1>1, <2>2
    <3> QED
      BY <1>3, <1>5, <2>1, <2>2, <3>1
  <2>3. CASE named = {} /\ near = {}
    BY <1>1, <2>1, <2>3
  <2>4. CASE named = {} /\ near # {}
    <3>1. FindNearby(o, observations, tracks) = Min(closest)
      BY <1>1, <2>4
    <3> QED
      BY <1>4, <1>5, <2>1, <2>4, <3>1
  <2> QED
    BY <2>2, <2>3, <2>4
<1>9. ASSUME NEW i \in 1 .. Len(tracks), tracks[i].track_id = Key(o)
      PROVE  /\ FindNearby(o, observations, tracks) # 0
             /\ tracks[FindNearby(o, observations, tracks)].track_id = Key(o)
  <2>1. named # {}
    BY <1>7, <1>9
  <2>2. Min(named) \in named /\ FindNearby(o, observations, tracks) = Min(named)
    BY <1>1, <1>3, <2>1
  <2>3. Min(named) # 0
    BY <1>2, <1>5, <2>2
  <2> QED
    BY <1>6, <2>2, <2>3
<1> QED
  BY <1>8, <1>9

-----------------------------------------------------------------------------
(* One more observation in a track, or in another one.                     *)

\* The fields of an observation; it goes by a name also without a hint.
LEMMA ObservationType ==
  ASSUME NEW o \in Observation
  PROVE  /\ o.observation_id \in Nat /\ o.source_id \in Name /\ Key(o) \in Name
         /\ o.place \in Int /\ o.confidence \in Nat
         /\ o.modality \in {"ais", "radar", "space_sar"}
BY DEF Observation, Key

\* What Append does to a list of n elements.
LEMMA AppendFacts ==
  ASSUME NEW S, NEW s \in Seq(S), NEW x \in S, NEW n \in Nat, n = Len(s)
  PROVE  /\ Append(s, x) \in Seq(S)
         /\ Len(Append(s, x)) = n + 1
         /\ DOMAIN s = 1 .. n
         /\ DOMAIN Append(s, x) = (1 .. n) \cup {n + 1}
         /\ Append(s, x)[n + 1] = x
         /\ \A i \in 1 .. n : Append(s, x)[i] = s[i]
OBVIOUS

\* The observations of a track, and the strongest of them.
Members(o, h, name) == {i \in DOMAIN o : h[i] = name}

Best(o, m) == {i \in m : \A j \in m : o[j].confidence <= o[i].confidence}

\* What Fused says of one track; a greatest confidence exists.
FusedOf(o, m, t) ==
  /\ m # {} /\ Best(o, m) # {}
  /\ t.confidence = o[Max(Best(o, m))].confidence
  /\ t.place = o[Max(Best(o, m))].place
  /\ t.source_ids = {o[i].source_id : i \in m}
  /\ t.modalities = {o[i].modality : i \in m}
  /\ Len(t.observation_ids) = Cardinality(m)
  /\ ToSet(t.observation_ids) = {o[i].observation_id : i \in m}

\* The best of a track is one of its observations, and the last of the strongest.
LEMMA BestType ==
  ASSUME NEW n \in Nat, NEW o, NEW m \in SUBSET (1 .. n), Best(o, m) # {}
  PROVE  /\ Max(Best(o, m)) \in m
         /\ \A j \in m : o[j].confidence <= o[Max(Best(o, m))].confidence
         /\ \A j \in Best(o, m) : j <= Max(Best(o, m))
<1>1. Best(o, m) \in SUBSET (0 .. n)
  <2>1. \A i \in 1 .. n : i \in 0 .. n
    OBVIOUS
  <2>2. Best(o, m) \subseteq 1 .. n
    BY DEF Best
  <2> QED
    BY <2>1, <2>2
<1>2. PICK b : b = Max(Best(o, m))
  OBVIOUS
<1>3. b \in Best(o, m) /\ \A y \in Best(o, m) : y <= b
  BY <1>1, <1>2, MaxNatural
<1>4. b \in m /\ \A j \in m : o[j].confidence <= o[b].confidence
  BY <1>3 DEF Best
<1> QED
  BY <1>2, <1>3, <1>4

\* The best of a track after a new observation: the new one, unless it is weaker.
LEMMA BestGrows ==
  ASSUME NEW n \in Nat, NEW o \in Seq(Observation), n = Len(o), NEW x \in Observation,
         NEW m \in SUBSET (1 .. n), Best(o, m) # {}
  PROVE  /\ Best(Append(o, x), m \cup {n + 1}) # {}
         /\ Max(Best(Append(o, x), m \cup {n + 1})) =
              IF x.confidence >= o[Max(Best(o, m))].confidence
              THEN n + 1 ELSE Max(Best(o, m))
<1>1. PICK p : p = Append(o, x)
  OBVIOUS
<1>2. PICK b : b = Max(Best(o, m))
  OBVIOUS
<1>3. p[n + 1] = x /\ \A i \in m : p[i] = o[i]
  <2>1. p[n + 1] = x /\ \A i \in 1 .. n : p[i] = o[i]
    BY <1>1, AppendFacts
  <2>2. \A i \in m : i \in 1 .. n
    OBVIOUS
  <2> QED
    BY <2>1, <2>2
<1>4. /\ b \in m /\ b \in 1 .. n
      /\ \A j \in m : o[j].confidence <= o[b].confidence
      /\ \A j \in Best(o, m) : j <= b
  BY <1>2, BestType
<1>5. /\ x.confidence \in Nat
      /\ \A i \in m : o[i].confidence \in Nat /\ i \in Nat /\ i < n + 1
  <2>0. \A i \in 1 .. n : o[i] \in Observation /\ i \in Nat /\ i < n + 1
    OBVIOUS
  <2>1. \A i \in 1 .. n : o[i].confidence \in Nat /\ i \in Nat /\ i < n + 1
    BY <2>0, ObservationType
  <2>2. \A i \in m : i \in 1 .. n
    OBVIOUS
  <2>3. x.confidence \in Nat
    BY DEF Observation
  <2> QED
    BY <2>1, <2>2, <2>3
<1> DEFINE M == m \cup {n + 1}
<1>6. M \in SUBSET (1 .. (n + 1)) /\ n + 1 \in Nat
  <2>1. \A i \in 1 .. n : i \in 1 .. (n + 1)
    OBVIOUS
  <2>2. n + 1 \in 1 .. (n + 1) /\ n + 1 \in Nat
    OBVIOUS
  <2>3. \A i \in m : i \in 1 .. n
    OBVIOUS
  <2>4. \A i \in M : i \in 1 .. (n + 1)
    BY <2>1, <2>2, <2>3
  <2> QED
    BY <2>2, <2>4
<1>7. CASE x.confidence >= o[b].confidence
  <2>1. \A j \in M : p[j].confidence <= p[n + 1].confidence
    BY <1>3, <1>4, <1>5, <1>7
  <2>2. n + 1 \in Best(p, M)
    BY <2>1 DEF Best
  <2>3. Max(Best(p, M)) \in M /\ n + 1 <= Max(Best(p, M))
    <3> HIDE DEF M
    <3>1. Best(p, M) # {}
      BY <2>2
    <3> QED
      BY <1>6, <2>2, <3>1, BestType
  <2>4. Max(Best(p, M)) = n + 1
    BY <1>6, <2>3
  <2> QED
    BY <1>1, <1>2, <1>7, <2>2, <2>4
<1>8. CASE ~ (x.confidence >= o[b].confidence)
  <2>1. n + 1 \notin Best(p, M)
    BY <1>3, <1>4, <1>5, <1>8 DEF Best
  <2>2. ASSUME NEW i \in m PROVE i \in Best(p, M) <=> i \in Best(o, m)
    <3>1. i \in Best(p, M) => i \in Best(o, m)
      BY <1>3 DEF Best
    <3>2. ASSUME i \in Best(o, m) PROVE i \in Best(p, M)
      <4>1. \A j \in m : p[j].confidence <= p[i].confidence
        BY <1>3, <3>2 DEF Best
      <4>2. p[n + 1].confidence <= p[i].confidence
        BY <1>3, <1>4, <1>5, <1>8, <3>2 DEF Best
      <4> QED
        BY <4>1, <4>2 DEF Best
    <3> QED
      BY <3>1, <3>2
  <2>3. Best(p, M) = Best(o, m)
    BY <2>1, <2>2 DEF Best
  <2> QED
    BY <1>1, <1>2, <1>8, <2>3
<1> QED
  BY <1>7, <1>8

\* The fields of a track.
LEMMA TrackType ==
  ASSUME NEW t \in Track
  PROVE  /\ t.track_id \in Name /\ t.place \in Int /\ t.confidence \in Nat
         /\ t.source_ids \in SUBSET Name /\ t.observation_ids \in Seq(Nat)
         /\ t.modalities \in SUBSET {"ais", "radar", "space_sar"}
BY DEF Track

\* The observations of a track that does not get the new one.
LEMMA FusedStays ==
  ASSUME NEW n \in Nat, NEW o \in Seq(Observation), n = Len(o), NEW x \in Observation,
         NEW m \in SUBSET (1 .. n), NEW t, FusedOf(o, m, t)
  PROVE  FusedOf(Append(o, x), m, t)
<1>1. PICK p : p = Append(o, x)
  OBVIOUS
<1>2. \A i \in m : p[i] = o[i]
  <2>1. \A i \in 1 .. n : p[i] = o[i]
    BY <1>1, AppendFacts
  <2>2. \A i \in m : i \in 1 .. n
    OBVIOUS
  <2> QED
    BY <2>1, <2>2
<1>3. Best(p, m) = Best(o, m)
  BY <1>2 DEF Best
<1>4. Max(Best(o, m)) \in m
  BY BestType DEF FusedOf
<1>5. p[Max(Best(p, m))] = o[Max(Best(o, m))]
  BY <1>2, <1>3, <1>4
<1>6. /\ {p[i].source_id : i \in m} = {o[i].source_id : i \in m}
      /\ {p[i].modality : i \in m} = {o[i].modality : i \in m}
      /\ {p[i].observation_id : i \in m} = {o[i].observation_id : i \in m}
  BY <1>2
<1>7. FusedOf(p, m, t)
  BY <1>3, <1>5, <1>6 DEF FusedOf
<1> QED
  BY <1>1, <1>7

\* The first observation of a track.
LEMMA FusedNew ==
  ASSUME NEW n \in Nat, NEW o \in Seq(Observation), n = Len(o), NEW x \in Observation
  PROVE  /\ NewTrack(x) \in Track
         /\ FusedOf(Append(o, x), {n + 1}, NewTrack(x))
<1>1. PICK p : p = Append(o, x)
  OBVIOUS
<1>2. p[n + 1] = x
  BY <1>1, AppendFacts
<1>3. /\ x.observation_id \in Nat /\ x.source_id \in Name /\ Key(x) \in Name
      /\ x.place \in Int /\ x.confidence \in Nat
      /\ x.modality \in {"ais", "radar", "space_sar"}
  BY ObservationType
<1>4. <<x.observation_id>> \in Seq(Nat)
  BY <1>3
<1>5. NewTrack(x) \in Track
  BY <1>3, <1>4 DEF NewTrack, Track
<1>6. Best(p, {n + 1}) = {n + 1}
  <2>1. p[n + 1].confidence <= p[n + 1].confidence
    BY <1>2, <1>3
  <2> QED
    BY <2>1 DEF Best
<1>7. Max({n + 1}) = n + 1
  <2>1. {n + 1} \in SUBSET (0 .. (n + 1)) /\ n + 1 \in Nat
    OBVIOUS
  <2> QED
    BY <2>1, MaxNatural
<1>8. Cardinality({n + 1}) = 1
  BY FS_Singleton
<1>9. /\ Len(<<x.observation_id>>) = 1
      /\ ToSet(<<x.observation_id>>) = {x.observation_id}
  BY DEF ToSet
<1>10. /\ {p[i].source_id : i \in {n + 1}} = {x.source_id}
       /\ {p[i].modality : i \in {n + 1}} = {x.modality}
       /\ {p[i].observation_id : i \in {n + 1}} = {x.observation_id}
  BY <1>2
<1>11. FusedOf(p, {n + 1}, NewTrack(x))
  BY <1>2, <1>6, <1>7, <1>8, <1>9, <1>10 DEF FusedOf, NewTrack
<1> QED
  BY <1>1, <1>5, <1>11

\* The observations of a track with the new one.
LEMMA FusedGrows ==
  ASSUME NEW n \in Nat, NEW o \in Seq(Observation), n = Len(o), NEW x \in Observation,
         NEW m \in SUBSET (1 .. n), NEW t \in Track, FusedOf(o, m, t)
  PROVE  /\ Merged(t, x) \in Track
         /\ FusedOf(Append(o, x), m \cup {n + 1}, Merged(t, x))
<1>1. PICK p : p = Append(o, x)
  OBVIOUS
<1> DEFINE M == m \cup {n + 1}
           ids == t.observation_ids
<1>2. p[n + 1] = x /\ \A i \in m : p[i] = o[i]
  <2>1. p[n + 1] = x /\ \A i \in 1 .. n : p[i] = o[i]
    BY <1>1, AppendFacts
  <2>2. \A i \in m : i \in 1 .. n
    OBVIOUS
  <2> QED
    BY <2>1, <2>2
<1>3. /\ x.observation_id \in Nat /\ x.source_id \in Name
      /\ x.place \in Int /\ x.confidence \in Nat
      /\ x.modality \in {"ais", "radar", "space_sar"}
  BY ObservationType
<1>4. /\ t.track_id \in Name /\ t.place \in Int /\ t.confidence \in Nat
      /\ t.source_ids \in SUBSET Name /\ ids \in Seq(Nat)
      /\ t.modalities \in SUBSET {"ais", "radar", "space_sar"}
  BY TrackType
<1>5. PICK k \in Nat : k = Len(ids)
  BY <1>4
<1>6. /\ Append(ids, x.observation_id) \in Seq(Nat)
      /\ Len(Append(ids, x.observation_id)) = k + 1
      /\ ToSet(Append(ids, x.observation_id)) = ToSet(ids) \cup {x.observation_id}
  <2>1. PICK q : q = Append(ids, x.observation_id)
    OBVIOUS
  <2>2. /\ q \in Seq(Nat) /\ Len(q) = k + 1
        /\ DOMAIN ids = 1 .. k /\ DOMAIN q = (1 .. k) \cup {k + 1}
        /\ q[k + 1] = x.observation_id /\ \A i \in 1 .. k : q[i] = ids[i]
    BY <1>3, <1>4, <1>5, <2>1, AppendFacts
  <2>3. ToSet(q) = ToSet(ids) \cup {x.observation_id}
    <3>1. \A z : z \in ToSet(q) <=> \E i \in (1 .. k) \cup {k + 1} : z = q[i]
      BY <2>2 DEF ToSet
    <3>2. \A z : z \in ToSet(ids) <=> \E i \in 1 .. k : z = ids[i]
      BY <2>2 DEF ToSet
    <3>3. ASSUME NEW z PROVE z \in ToSet(q) <=> z \in ToSet(ids) \cup {x.observation_id}
      BY <2>2, <3>1, <3>2
    <3> QED
      BY <3>3
  <2> QED
    BY <2>1, <2>2, <2>3
<1>7. Merged(t, x) \in Track
  BY <1>3, <1>4, <1>6 DEF Merged, Track
<1>8. t.confidence = o[Max(Best(o, m))].confidence /\ t.place = o[Max(Best(o, m))].place
  BY DEF FusedOf
<1>9. Max(Best(o, m)) \in m
  BY BestType DEF FusedOf
<1>10. /\ Best(p, M) # {}
       /\ Max(Best(p, M)) = IF Stronger(x, t) THEN n + 1 ELSE Max(Best(o, m))
  BY <1>1, <1>8, BestGrows DEF FusedOf, Stronger
<1>11. /\ Merged(t, x).confidence = p[Max(Best(p, M))].confidence
       /\ Merged(t, x).place = p[Max(Best(p, M))].place
  BY <1>2, <1>8, <1>9, <1>10 DEF Merged
<1>12. /\ {p[i].source_id : i \in M} = t.source_ids \cup {x.source_id}
       /\ {p[i].modality : i \in M} = t.modalities \cup {x.modality}
       /\ {p[i].observation_id : i \in M} = ToSet(ids) \cup {x.observation_id}
  <2>1. /\ t.source_ids = {o[i].source_id : i \in m}
        /\ t.modalities = {o[i].modality : i \in m}
        /\ ToSet(ids) = {o[i].observation_id : i \in m}
    BY DEF FusedOf
  <2>2. {p[i].source_id : i \in M} = t.source_ids \cup {x.source_id}
    BY <1>2, <2>1
  <2>3. {p[i].modality : i \in M} = t.modalities \cup {x.modality}
    BY <1>2, <2>1
  <2>4. {p[i].observation_id : i \in M} = ToSet(ids) \cup {x.observation_id}
    BY <1>2, <2>1
  <2> QED
    BY <2>2, <2>3, <2>4
<1>13. Cardinality(M) = k + 1
  <2>1. IsFiniteSet(m)
    <3>1. IsFiniteSet(1 .. n)
      BY FS_Interval
    <3> QED
      BY <3>1, FS_Subset
  <2>2. n + 1 \notin m
    <3>1. n + 1 \notin 1 .. n
      OBVIOUS
    <3> QED
      BY <3>1
  <2>3. Cardinality(m) = k
    BY <1>5 DEF FusedOf
  <2> QED
    BY <2>1, <2>2, <2>3, FS_AddElement
<1>14. FusedOf(p, M, Merged(t, x))
  <2>1. M # {}
    OBVIOUS
  <2>2. /\ Merged(t, x).source_ids = {p[i].source_id : i \in M}
        /\ Merged(t, x).modalities = {p[i].modality : i \in M}
        /\ Merged(t, x).observation_ids = Append(ids, x.observation_id)
    BY <1>12 DEF Merged
  <2> HIDE DEF M, ids
  <2> QED
    BY <1>6, <1>10, <1>11, <1>12, <1>13, <2>1, <2>2 DEF FusedOf
<1> QED
  BY <1>1, <1>7, <1>14

-----------------------------------------------------------------------------
(* What Ingest keeps: Fused, said of any graph.                            *)

\* Once a name is a home, the observations of that name go there.
NamesStay(o, home) ==
  \A i, j \in 1 .. Len(o) : i < j /\ home[i] = Key(o[j]) => home[j] = Key(o[j])

\* Fused, of any lists of observations, tracks and homes.
FusedGraph(o, tracks, home) ==
  /\ Len(home) = Len(o)
  /\ \A i \in 1 .. Len(o) : \E k \in 1 .. Len(tracks) : home[i] = tracks[k].track_id
  /\ \A k, l \in 1 .. Len(tracks) : tracks[k].track_id = tracks[l].track_id => k = l
  /\ \A k \in 1 .. Len(tracks) :
       FusedOf(o, Members(o, home, tracks[k].track_id), tracks[k])
  /\ NamesStay(o, home)

\* A length, for the provers to take on demand.
Long(s, n) == n = Len(s)

\* The new observation is a member of its track only.
LEMMA MembersGrow ==
  ASSUME NEW n \in Nat, NEW o \in Seq(Observation), NEW home \in Seq(Name),
         n = Len(o), Long(home, n), NEW x \in Observation, NEW name \in Name
  PROVE  /\ Members(Append(o, x), Append(home, name), name) =
              Members(o, home, name) \cup {n + 1}
         /\ \A other : other # name =>
              Members(Append(o, x), Append(home, name), other) = Members(o, home, other)
         /\ \A other : Members(o, home, other) \in SUBSET (1 .. n)
<1>1. PICK p : p = Append(o, x)
  OBVIOUS
<1>2. PICK q : q = Append(home, name)
  OBVIOUS
<1>3. DOMAIN o = 1 .. n /\ DOMAIN p = (1 .. n) \cup {n + 1}
  BY <1>1, AppendFacts
<1>4. q[n + 1] = name /\ \A i \in 1 .. n : q[i] = home[i]
  BY <1>2, AppendFacts DEF Long
<1>5. Members(p, q, name) = Members(o, home, name) \cup {n + 1}
  BY <1>3, <1>4 DEF Members
<1>6. ASSUME NEW other, other # name PROVE Members(p, q, other) = Members(o, home, other)
  BY <1>3, <1>4, <1>6 DEF Members
<1>7. \A other : Members(o, home, other) \in SUBSET (1 .. n)
  BY <1>3 DEF Members
<1> QED
  BY <1>1, <1>2, <1>5, <1>6, <1>7

\* Once a track bears a name, it gets the observations of that name.
LEMMA NamesGrow ==
  ASSUME NEW n \in Nat, NEW o \in Seq(Observation), NEW home \in Seq(Name),
         n = Len(o), Long(home, n), NEW x \in Observation, NEW name \in Name,
         NamesStay(o, home), \A i \in 1 .. n : home[i] = Key(x) => name = Key(x)
  PROVE  NamesStay(Append(o, x), Append(home, name))
<1>1. PICK p : p = Append(o, x)
  OBVIOUS
<1>2. PICK q : q = Append(home, name)
  OBVIOUS
<1>3. Len(p) = n + 1 /\ p[n + 1] = x /\ \A i \in 1 .. n : p[i] = o[i]
  BY <1>1, AppendFacts
<1>4. q[n + 1] = name /\ \A i \in 1 .. n : q[i] = home[i]
  BY <1>2, AppendFacts DEF Long
<1>5. ASSUME NEW i \in 1 .. (n + 1), NEW j \in 1 .. (n + 1), i < j, q[i] = Key(p[j])
      PROVE  q[j] = Key(p[j])
  <2>1. i \in 1 .. n
    BY <1>5
  <2>2. CASE j = n + 1
    BY <1>3, <1>4, <1>5, <2>1, <2>2
  <2>3. CASE j # n + 1
    <3>1. j \in 1 .. n
      BY <2>3
    <3> QED
      BY <1>3, <1>4, <1>5, <2>1, <3>1 DEF NamesStay
  <2> QED
    BY <2>2, <2>3
<1>6. NamesStay(p, q)
  BY <1>3, <1>5 DEF NamesStay
<1> QED
  BY <1>1, <1>2, <1>6

\* An observation that no track is near to, and none bears the name of.
LEMMA IngestNew ==
  ASSUME NEW o \in Seq(Observation), NEW tracks \in Seq(Track), NEW home \in Seq(Name),
         FusedGraph(o, tracks, home), NEW x \in Observation,
         \A k \in 1 .. Len(tracks) : tracks[k].track_id # Key(x)
  PROVE  /\ Append(o, x) \in Seq(Observation)
         /\ Append(tracks, NewTrack(x)) \in Seq(Track)
         /\ Append(home, Key(x)) \in Seq(Name)
         /\ FusedGraph(Append(o, x), Append(tracks, NewTrack(x)), Append(home, Key(x)))
<1>1. PICK p : p = Append(o, x)
  OBVIOUS
<1>2. PICK q : q = Append(home, Key(x))
  OBVIOUS
<1>3. PICK u : u = Append(tracks, NewTrack(x))
  OBVIOUS
<1>4. PICK n \in Nat : n = Len(o)
  OBVIOUS
<1>5. PICK c \in Nat : c = Len(tracks)
  OBVIOUS
<1>6. Key(x) \in Name
  BY ObservationType
<1>7. Long(home, n)
  BY <1>4 DEF FusedGraph, Long
<1>8. NewTrack(x) \in Track /\ FusedOf(p, {n + 1}, NewTrack(x)) /\ NewTrack(x).track_id = Key(x)
  BY <1>1, <1>4, FusedNew DEF NewTrack
<1>9. p \in Seq(Observation) /\ Len(p) = n + 1 /\ p[n + 1] = x /\ \A i \in 1 .. n : p[i] = o[i]
  BY <1>1, <1>4, AppendFacts
<1>10. q \in Seq(Name) /\ Len(q) = n + 1 /\ q[n + 1] = Key(x) /\ \A i \in 1 .. n : q[i] = home[i]
  BY <1>2, <1>6, <1>7, AppendFacts DEF Long
<1>11. /\ u \in Seq(Track) /\ Len(u) = c + 1 /\ u[c + 1] = NewTrack(x)
       /\ \A k \in 1 .. c : u[k] = tracks[k]
  BY <1>3, <1>5, <1>8, AppendFacts
<1>12. \A k \in 1 .. c : u[k].track_id # Key(x)
  BY <1>5, <1>11
<1>13. \A i \in 1 .. n : \E k \in 1 .. c : home[i] = u[k].track_id
  BY <1>4, <1>5, <1>11 DEF FusedGraph
<1>14. \A i \in 1 .. n : home[i] # Key(x)
  BY <1>12, <1>13
<1>15. ASSUME NEW i \in 1 .. (n + 1) PROVE \E k \in 1 .. (c + 1) : q[i] = u[k].track_id
  <2>1. CASE i = n + 1
    BY <1>8, <1>10, <1>11, <2>1
  <2>2. CASE i # n + 1
    <3>1. i \in 1 .. n
      BY <2>2
    <3>2. PICK k \in 1 .. c : home[i] = u[k].track_id
      BY <1>13, <3>1
    <3>3. k \in 1 .. (c + 1)
      OBVIOUS
    <3> QED
      BY <1>10, <3>1, <3>2, <3>3
  <2> QED
    BY <2>1, <2>2
<1>16. ASSUME NEW k \in 1 .. (c + 1), NEW l \in 1 .. (c + 1), u[k].track_id = u[l].track_id
       PROVE  k = l
  <2>1. \A a, b \in 1 .. c : u[a].track_id = u[b].track_id => a = b
    BY <1>5, <1>11 DEF FusedGraph
  <2>2. u[c + 1].track_id = Key(x)
    BY <1>8, <1>11
  <2>3. (k = c + 1 \/ k \in 1 .. c) /\ (l = c + 1 \/ l \in 1 .. c)
    OBVIOUS
  <2> QED
    BY <1>12, <1>16, <2>1, <2>2, <2>3
<1>17. /\ Members(p, q, Key(x)) = Members(o, home, Key(x)) \cup {n + 1}
       /\ \A other : other # Key(x) => Members(p, q, other) = Members(o, home, other)
       /\ \A other : Members(o, home, other) \in SUBSET (1 .. n)
  BY <1>1, <1>2, <1>4, <1>6, <1>7, MembersGrow
<1>18. Members(o, home, Key(x)) = {}
  BY <1>4, <1>14 DEF Members
<1>19. ASSUME NEW k \in 1 .. (c + 1) PROVE FusedOf(p, Members(p, q, u[k].track_id), u[k])
  <2>1. CASE k = c + 1
    BY <1>8, <1>11, <1>17, <1>18, <2>1
  <2>2. CASE k # c + 1
    <3>1. k \in 1 .. c
      BY <2>2
    <3>2. FusedOf(o, Members(o, home, u[k].track_id), u[k])
      BY <1>5, <1>11, <3>1 DEF FusedGraph
    <3>3. PICK m : m = Members(o, home, u[k].track_id)
      OBVIOUS
    <3>4. FusedOf(p, m, u[k])
      BY <1>1, <1>4, <1>17, <3>2, <3>3, FusedStays
    <3> QED
      BY <1>12, <1>17, <3>1, <3>3, <3>4
  <2> QED
    BY <2>1, <2>2
<1>20. NamesStay(p, q)
  <2>1. NamesStay(o, home)
    BY DEF FusedGraph
  <2> QED
    BY <1>1, <1>2, <1>4, <1>6, <1>7, <1>14, <2>1, NamesGrow
<1>21. FusedGraph(p, u, q)
  BY <1>9, <1>10, <1>11, <1>15, <1>16, <1>19, <1>20 DEF FusedGraph
<1> QED
  BY <1>1, <1>2, <1>3, <1>9, <1>10, <1>11, <1>21

\* An observation that is merged into a track: the track of its name, if there
\* is one.
LEMMA IngestOld ==
  ASSUME NEW o \in Seq(Observation), NEW tracks \in Seq(Track), NEW home \in Seq(Name),
         FusedGraph(o, tracks, home), NEW x \in Observation, NEW at \in 1 .. Len(tracks),
         \A k \in 1 .. Len(tracks) :
           tracks[k].track_id = Key(x) => tracks[at].track_id = Key(x)
  PROVE  /\ Append(o, x) \in Seq(Observation)
         /\ [tracks EXCEPT ![at] = Merged(@, x)] \in Seq(Track)
         /\ Append(home, tracks[at].track_id) \in Seq(Name)
         /\ FusedGraph(Append(o, x), [tracks EXCEPT ![at] = Merged(@, x)],
                       Append(home, tracks[at].track_id))
<1>1. PICK p : p = Append(o, x)
  OBVIOUS
<1>2. PICK name : name = tracks[at].track_id
  OBVIOUS
<1>3. PICK q : q = Append(home, name)
  OBVIOUS
<1>4. PICK u : u = [tracks EXCEPT ![at] = Merged(@, x)]
  OBVIOUS
<1>5. PICK n \in Nat : n = Len(o)
  OBVIOUS
<1>6. PICK c \in Nat : c = Len(tracks)
  OBVIOUS
<1>7. tracks[at] \in Track /\ name \in Name /\ at \in 1 .. c
  BY <1>2, <1>6, TrackType
<1>8. Long(home, n)
  BY <1>5 DEF FusedGraph, Long
<1>9. p \in Seq(Observation) /\ Len(p) = n + 1
  BY <1>1, <1>5, AppendFacts
<1>10. q \in Seq(Name) /\ Len(q) = n + 1 /\ q[n + 1] = name /\ \A i \in 1 .. n : q[i] = home[i]
  BY <1>3, <1>7, <1>8, AppendFacts DEF Long
<1>11. /\ Members(p, q, name) = Members(o, home, name) \cup {n + 1}
       /\ \A other : other # name => Members(p, q, other) = Members(o, home, other)
       /\ \A other : Members(o, home, other) \in SUBSET (1 .. n)
  BY <1>1, <1>3, <1>5, <1>7, <1>8, MembersGrow
<1>12. /\ Merged(tracks[at], x) \in Track
       /\ FusedOf(p, Members(p, q, name), Merged(tracks[at], x))
  <2>1. PICK m \in SUBSET (1 .. n) : m = Members(o, home, name)
    BY <1>11
  <2>2. FusedOf(o, m, tracks[at])
    BY <1>2, <1>6, <1>7, <2>1 DEF FusedGraph
  <2>3. Merged(tracks[at], x) \in Track /\ FusedOf(p, m \cup {n + 1}, Merged(tracks[at], x))
    BY <1>1, <1>5, <1>7, <2>2, FusedGrows
  <2> QED
    BY <1>11, <2>1, <2>3
<1>13. /\ u \in Seq(Track) /\ Len(u) = c
       /\ u[at] = Merged(tracks[at], x)
       /\ \A k \in 1 .. c : k # at => u[k] = tracks[k]
  BY <1>4, <1>6, <1>7, <1>12
<1>14. \A k \in 1 .. c : u[k].track_id = tracks[k].track_id
  <2>1. Merged(tracks[at], x).track_id = tracks[at].track_id
    BY DEF Merged
  <2> QED
    BY <1>13, <2>1
<1>15. \A i \in 1 .. n : \E k \in 1 .. c : home[i] = u[k].track_id
  BY <1>5, <1>6, <1>14 DEF FusedGraph
<1>16. ASSUME NEW i \in 1 .. (n + 1) PROVE \E k \in 1 .. c : q[i] = u[k].track_id
  <2>1. CASE i = n + 1
    BY <1>2, <1>7, <1>10, <1>14, <2>1
  <2>2. CASE i # n + 1
    <3>1. i \in 1 .. n
      BY <2>2
    <3> QED
      BY <1>10, <1>15, <3>1
  <2> QED
    BY <2>1, <2>2
<1>17. \A k, l \in 1 .. c : u[k].track_id = u[l].track_id => k = l
  BY <1>6, <1>14 DEF FusedGraph
<1>18. ASSUME NEW k \in 1 .. c PROVE FusedOf(p, Members(p, q, u[k].track_id), u[k])
  <2>1. CASE k = at
    BY <1>2, <1>12, <1>13, <1>14, <2>1
  <2>2. CASE k # at
    <3>1. u[k] = tracks[k] /\ u[k].track_id # name
      BY <1>2, <1>7, <1>13, <1>14, <1>17, <2>2
    <3>2. PICK m \in SUBSET (1 .. n) : m = Members(o, home, u[k].track_id)
      BY <1>11
    <3>3. FusedOf(o, m, u[k])
      BY <1>6, <3>1, <3>2 DEF FusedGraph
    <3>4. FusedOf(p, m, u[k])
      BY <1>1, <1>5, <3>3, FusedStays
    <3> QED
      BY <1>11, <3>1, <3>2, <3>4
  <2> QED
    BY <2>1, <2>2
<1>19. NamesStay(p, q)
  <2>1. NamesStay(o, home)
    BY DEF FusedGraph
  <2>2. ASSUME NEW i \in 1 .. n, home[i] = Key(x) PROVE name = Key(x)
    <3>1. PICK k \in 1 .. c : home[i] = tracks[k].track_id
      BY <1>14, <1>15
    <3> QED
      BY <1>2, <1>6, <2>2, <3>1
  <2> QED
    BY <1>1, <1>3, <1>5, <1>7, <1>8, <2>1, <2>2, NamesGrow
<1>20. FusedGraph(p, u, q)
  BY <1>9, <1>10, <1>13, <1>16, <1>17, <1>18, <1>19 DEF FusedGraph
<1> QED
  BY <1>1, <1>2, <1>3, <1>4, <1>9, <1>10, <1>13, <1>20

Graph == [observations : Seq(Observation), tracks : Seq(Track), home : Seq(Name)]

\* A graph that is the fusion of its observations.
SoundGraph(g) == g \in Graph /\ FusedGraph(g.observations, g.tracks, g.home)

\* The empty graph is sound.
LEMMA EmptySound == SoundGraph(EmptyGraph) /\ EmptyGraph.observations = <<>>
<1>1. EmptyGraph \in Graph
  BY DEF EmptyGraph, Graph
<1>2. PICK e : e = <<>>
  OBVIOUS
<1>3. Len(e) = 0
  BY <1>2
<1>4. FusedGraph(e, e, e)
  BY <1>3 DEF FusedGraph, NamesStay
<1> QED
  BY <1>1, <1>2, <1>4 DEF SoundGraph, EmptyGraph

\* Ingest keeps a graph sound and appends the observation.
LEMMA IngestSound ==
  ASSUME NEW g, SoundGraph(g), NEW x \in Observation
  PROVE  /\ SoundGraph(Ingest(g, x))
         /\ Ingest(g, x).observations = Append(g.observations, x)
<1>1. PICK o \in Seq(Observation) : o = g.observations
  BY DEF SoundGraph, Graph
<1>2. PICK tracks \in Seq(Track) : tracks = g.tracks
  BY DEF SoundGraph, Graph
<1>3. PICK home \in Seq(Name) : home = g.home
  BY DEF SoundGraph, Graph
<1>4. FusedGraph(o, tracks, home)
  BY <1>1, <1>2, <1>3 DEF SoundGraph
<1>5. Append(o, x) \in Seq(Observation)
  OBVIOUS
<1>6. PICK t : t = FindNearby(x, Append(o, x), tracks)
  OBVIOUS
<1>7. /\ t \in 0 .. Len(tracks)
      /\ \A i \in 1 .. Len(tracks) :
           tracks[i].track_id = Key(x) => t # 0 /\ tracks[t].track_id = Key(x)
  BY <1>5, <1>6, Nearby
<1>8. CASE t = 0
  <2>1. Ingest(g, x) = [observations |-> Append(o, x), tracks |-> Append(tracks, NewTrack(x)),
                        home |-> Append(home, Key(x))]
    BY <1>1, <1>2, <1>3, <1>6, <1>8 DEF Ingest
  <2>2. /\ Append(tracks, NewTrack(x)) \in Seq(Track)
        /\ Append(home, Key(x)) \in Seq(Name)
        /\ FusedGraph(Append(o, x), Append(tracks, NewTrack(x)), Append(home, Key(x)))
    BY <1>4, <1>7, <1>8, IngestNew
  <2> QED
    BY <1>1, <1>5, <2>1, <2>2 DEF SoundGraph, Graph
<1>9. CASE t # 0
  <2>1. Ingest(g, x) = [observations |-> Append(o, x),
                        tracks |-> [tracks EXCEPT ![t] = Merged(@, x)],
                        home |-> Append(home, tracks[t].track_id)]
    BY <1>1, <1>2, <1>3, <1>6, <1>9 DEF Ingest
  <2>2. t \in 1 .. Len(tracks)
    BY <1>7, <1>9
  <2>3. /\ [tracks EXCEPT ![t] = Merged(@, x)] \in Seq(Track)
        /\ Append(home, tracks[t].track_id) \in Seq(Name)
        /\ FusedGraph(Append(o, x), [tracks EXCEPT ![t] = Merged(@, x)],
                      Append(home, tracks[t].track_id))
    BY <1>4, <1>7, <2>2, IngestOld
  <2> QED
    BY <1>1, <1>5, <2>1, <2>3 DEF SoundGraph, Graph
<1> QED
  BY <1>8, <1>9

\* Whatever list is ingested into the empty graph, as a scenario and a restart
\* do (ingest_many, ontology.py:89): the outcome is the fusion of all of it, with
\* these observations in this order.
THEOREM IngestManySound ==
  ASSUME NEW s \in Seq(Observation)
  PROVE  /\ SoundGraph(IngestMany(EmptyGraph, s))
         /\ IngestMany(EmptyGraph, s).observations = s
<1>1. PICK n \in Nat : n = Len(s)
  OBVIOUS
<1>2. PICK f : Stages(f, EmptyGraph, s) /\ IngestMany(EmptyGraph, s) = f[n]
  BY <1>1, IngestManyStages
<1> DEFINE Good(m) == /\ SoundGraph(f[m]) /\ Len(f[m].observations) = m
                      /\ \A i \in 1 .. m : f[m].observations[i] = s[i]
           S == {m \in Nat : m <= n => Good(m)}
<1>3. 0 \in S
  <2>1. f[0] = EmptyGraph
    BY <1>1, <1>2 DEF Stages
  <2>2. Len(f[0].observations) = 0
    BY <2>1, EmptySound
  <2> QED
    BY <2>1, <2>2, EmptySound
<1>4. ASSUME NEW m \in S PROVE m + 1 \in S
  <2>1. m \in Nat
    OBVIOUS
  <2> SUFFICES ASSUME m + 1 <= n PROVE Good(m + 1)
    BY <2>1
  <2>2. Good(m)
    BY <1>1, <2>1
  <2>3. m + 1 \in 0 .. Len(s) /\ m + 1 # 0 /\ (m + 1) - 1 = m /\ m + 1 \in 1 .. n
    BY <1>1, <2>1
  <2>4. f[m + 1] = Ingest(f[m], s[m + 1]) /\ s[m + 1] \in Observation
    BY <1>1, <1>2, <2>3 DEF Stages
  <2>5. PICK o \in Seq(Observation) : o = f[m].observations
    BY <2>2 DEF SoundGraph, Graph
  <2>6. SoundGraph(f[m + 1]) /\ f[m + 1].observations = Append(o, s[m + 1])
    BY <2>2, <2>4, <2>5, IngestSound
  <2>7. /\ Len(Append(o, s[m + 1])) = m + 1 /\ Append(o, s[m + 1])[m + 1] = s[m + 1]
        /\ \A i \in 1 .. m : Append(o, s[m + 1])[i] = o[i]
    BY <2>1, <2>2, <2>4, <2>5, AppendFacts
  <2>8. \A i \in 1 .. (m + 1) : i = m + 1 \/ i \in 1 .. m
    BY <2>1
  <2> QED
    BY <2>2, <2>5, <2>6, <2>7, <2>8
<1>5. S = Nat
  <2> HIDE DEF S
  <2>1. S \in SUBSET Nat
    BY DEF S
  <2> QED
    BY <1>3, <1>4, <2>1, NaturalSet
<1>6. Good(n)
  <2>1. n \in S /\ n <= n
    BY <1>5
  <2> HIDE DEF Good
  <2> QED
    BY <2>1
<1>7. f[n].observations = s
  <2>1. f[n].observations \in Seq(Observation)
    BY <1>6 DEF SoundGraph, Graph
  <2> QED
    BY <1>1, <1>6, <2>1, SeqEqual
<1> QED
  BY <1>2, <1>6, <1>7

-----------------------------------------------------------------------------
(* The types of the handler, the tables and the flags.                     *)

HandlerOK ==
  /\ pc \in {"idle", "ingest", "persist", "seal", "observations", "finding", "meta",
             "clear_meta", "clear_observations", "clear_finding"}
  /\ caller \in Caller \cup {None}
  /\ todo \in Seq(Feed \cup {Bad})
  /\ todo # <<>> <=> pc \in {"ingest", "persist", "seal"}
  /\ caller # None <=> todo # <<>>

TablesOK ==
  /\ finding \in Scenario \cup {None} /\ scenario \in Scenario \cup {None}
  /\ db \in Tables /\ view \in Tables

FlagsOK ==
  /\ whole \in BOOLEAN /\ lag \in BOOLEAN /\ torn \in BOOLEAN
  /\ apart \in {"no", "memory", "alert"}
  /\ faults \in 0 .. MaxFaults

\* The end of a request leaves the handler idle.
LEMMA AnswerOK == Answer => HandlerOK'
<1> SUFFICES ASSUME Answer PROVE HandlerOK'
  OBVIOUS
<1>1. todo' = <<>> /\ todo' \in Seq(Feed \cup {Bad})
  BY DEF Answer
<1> QED
  BY <1>1 DEF Answer, HandlerOK

\* On to the next payload there is one, or the request ends.
LEMMA AdvanceOK ==
  ASSUME HandlerOK, pc \in {"ingest", "persist", "seal"}, Advance
  PROVE  HandlerOK'
<1>1. CASE Len(todo) = 1
  BY <1>1, AnswerOK DEF Advance
<1>2. CASE Len(todo) # 1
  <2>1. todo' = Tail(todo) /\ pc' = "ingest" /\ caller' = caller
    BY <1>2 DEF Advance
  <2>2. PICK s \in Seq(Feed \cup {Bad}) : s = todo
    BY DEF HandlerOK
  <2>3. s # <<>> /\ Len(s) # 1
    BY <1>2, <2>2 DEF HandlerOK
  <2>4. Tail(s) \in Seq(Feed \cup {Bad}) /\ Tail(s) # <<>>
    <3>1. Len(s) \in Nat \ {0}
      BY <2>3, EmptySeq
    <3>2. Tail(s) \in Seq(Feed \cup {Bad}) /\ Len(Tail(s)) = Len(s) - 1
      BY <2>3, HeadTailProperties
    <3>3. Len(Tail(s)) # 0
      BY <2>3, <3>1, <3>2
    <3> QED
      BY <3>2, <3>3, EmptySeq
  <2> QED
    BY <2>1, <2>2, <2>4 DEF HandlerOK
<1> QED
  BY <1>1, <1>2

\* Every step keeps the handler's locals typed.
LEMMA HandlerStep == HandlerOK /\ [Next]_vars => HandlerOK'
<1> SUFFICES ASSUME HandlerOK, [Next]_vars PROVE HandlerOK'
  OBVIOUS
<1>1. CASE UNCHANGED vars
  BY <1>1 DEF HandlerOK, vars
<1>2. ASSUME NEW c \in Caller, NEW payloads \in Posts, Post(c, payloads) PROVE HandlerOK'
  <2>1. payloads \in Seq(Feed \cup {Bad}) /\ payloads # <<>> /\ c # None
    BY <1>2, PictureAssumption DEF Post
  <2> QED
    BY <1>2, <2>1 DEF Post, HandlerOK
<1>3. CASE IngestOne
  BY <1>3 DEF IngestOne, HandlerOK
<1>4. CASE Refuse
  BY <1>4, AdvanceOK, AnswerOK DEF Refuse
<1>5. CASE PersistObservation
  <2>1. CASE caller = "api"
    BY <1>5, <2>1 DEF PersistObservation, HandlerOK
  <2>2. CASE caller # "api"
    BY <1>5, <2>2, AdvanceOK DEF PersistObservation
  <2> QED
    BY <2>1, <2>2
<1>6. CASE SealObservation
  BY <1>6, AdvanceOK, AnswerOK DEF SealObservation
<1>7. ASSUME NEW s \in Scenario, IngestScenario(s) PROVE HandlerOK'
  BY <1>7 DEF IngestScenario, Idle, HandlerOK
<1>8. CASE SaveObservations
  BY <1>8 DEF SaveObservations, SaveTable, HandlerOK
<1>9. CASE SaveFinding
  BY <1>9 DEF SaveFinding, SaveTable, HandlerOK
<1>10. CASE SaveScenarioId
  BY <1>10 DEF SaveScenarioId, HandlerOK
<1>11. CASE Reset
  BY <1>11 DEF Reset, Idle, HandlerOK
<1>12. CASE Clear
  BY <1>12 DEF Clear, ClearTable, HandlerOK
<1>13. CASE ClearFails
  BY <1>13 DEF ClearFails, HandlerOK
<1>14. CASE Restart \/ RestartNoScenario \/ RestartUnread
  BY <1>14, AnswerOK DEF Restart, RestartNoScenario, RestartUnread, NewProcess
<1>15. CASE SaveRefused
  BY <1>15 DEF SaveRefused, HandlerOK
<1>16. ASSUME NEW s \in Scenario, IngestUndetected(s) \/ ScenarioFails(s) PROVE HandlerOK'
  BY <1>16 DEF IngestUndetected, ScenarioFails, HandlerOK
<1> QED
  BY <1>1, <1>2, <1>3, <1>4, <1>5, <1>6, <1>7, <1>8, <1>9, <1>10, <1>11, <1>12, <1>13,
     <1>14, <1>15, <1>16 DEF Next

\* The failures stay within their bound.
LEMMA FaultOK == ASSUME FlagsOK, Fault PROVE faults' \in 0 .. MaxFaults
BY PictureAssumption DEF FlagsOK, Fault

\* Every step keeps the flags typed.
LEMMA FlagsStep == FlagsOK /\ [Next]_vars => FlagsOK'
<1> SUFFICES ASSUME FlagsOK, [Next]_vars PROVE FlagsOK'
  OBVIOUS
<1>1. CASE UNCHANGED vars
  BY <1>1 DEF FlagsOK, vars
<1>2. ASSUME NEW c \in Caller, NEW payloads \in Posts, Post(c, payloads) PROVE FlagsOK'
  BY <1>2 DEF Post, FlagsOK
<1>3. CASE IngestOne
  BY <1>3 DEF IngestOne, FlagsOK
<1>4. CASE Refuse
  BY <1>4 DEF Refuse, FlagsOK
<1>5. CASE PersistObservation
  <2>1. UNCHANGED <<whole, apart, torn>>
    BY <1>5 DEF PersistObservation
  <2>2. (UNCHANGED <<faults, lag>>) \/ (lag' = TRUE /\ Fault)
    BY <1>5 DEF PersistObservation, Commit, WriteFails
  <2> QED
    BY <2>1, <2>2, FaultOK DEF FlagsOK
<1>6. CASE SealObservation
  BY <1>6 DEF SealObservation, FlagsOK
<1>7. ASSUME NEW s \in Scenario, IngestScenario(s) PROVE FlagsOK'
  BY <1>7 DEF IngestScenario, FlagsOK
<1>8. CASE SaveObservations
  <2>1. /\ UNCHANGED <<apart, torn>>
        /\ UNCHANGED <<faults, whole, lag>> \/ (lag' = TRUE /\ Fault /\ whole' = FALSE)
    BY <1>8 DEF SaveObservations, SaveTable, Commit, WriteFails
  <2> QED
    BY <2>1, FaultOK DEF FlagsOK
<1>9. CASE SaveFinding
  <2>1. /\ UNCHANGED <<apart, torn>>
        /\ UNCHANGED <<faults, whole, lag>> \/ (lag' = TRUE /\ Fault /\ whole' = FALSE)
    BY <1>9 DEF SaveFinding, SaveTable, Commit, WriteFails
  <2> QED
    BY <2>1, FaultOK DEF FlagsOK
<1>10. CASE SaveScenarioId
  <2>1. /\ whole' = TRUE /\ UNCHANGED apart
        /\ \/ UNCHANGED faults /\ lag' = (lag /\ ~whole) /\ torn' = (torn /\ ~whole)
           \/ lag' = TRUE /\ Fault /\ UNCHANGED torn
    BY <1>10 DEF SaveScenarioId, Commit, WriteFails
  <2> QED
    BY <2>1, FaultOK DEF FlagsOK
<1>11. CASE Reset
  BY <1>11 DEF Reset, FlagsOK
<1>12. CASE Clear
  <2>1. UNCHANGED <<faults, whole, apart>> /\ lag' \in BOOLEAN /\ torn' \in BOOLEAN
    BY <1>12 DEF Clear, ClearTable, Commit
  <2> QED
    BY <2>1 DEF FlagsOK
<1>13. CASE ClearFails
  BY <1>13, FaultOK DEF ClearFails, FlagsOK
<1>14. CASE Restart \/ RestartNoScenario \/ RestartUnread
  <2>1. /\ whole' = TRUE /\ torn' \in BOOLEAN /\ lag' = FALSE
        /\ apart' \in {"no", "memory", "alert"} /\ (UNCHANGED faults \/ Fault)
    BY <1>14 DEF Restart, RestartNoScenario, RestartUnread, NewProcess
  <2> QED
    BY <2>1, FaultOK DEF FlagsOK
<1>15. CASE SaveRefused
  <2>1. /\ UNCHANGED <<apart, torn>> /\ whole' = FALSE /\ lag' = TRUE
        /\ UNCHANGED faults \/ Fault
    BY <1>15 DEF SaveRefused, WriteFails
  <2> QED
    BY <2>1, FaultOK DEF FlagsOK
<1>16. ASSUME NEW s \in Scenario, IngestUndetected(s) \/ ScenarioFails(s) PROVE FlagsOK'
  BY <1>16 DEF IngestUndetected, ScenarioFails, FlagsOK
<1> QED
  BY <1>1, <1>2, <1>3, <1>4, <1>5, <1>6, <1>7, <1>8, <1>9, <1>10, <1>11, <1>12, <1>13,
     <1>14, <1>15, <1>16 DEF Next

\* An observation is at hand to be saved only after it was ingested.
AtHand == pc = "persist" => Head(todo) # Bad

\* A payload that is not refused is an observation.
LEMMA HeadOK ==
  ASSUME HandlerOK, pc \in {"ingest", "persist", "seal"}, Head(todo) # Bad
  PROVE  Head(todo) \in Observation
<1>1. PICK s \in Seq(Feed \cup {Bad}) : s = todo
  BY DEF HandlerOK
<1>2. s # <<>> /\ Head(s) # Bad
  BY <1>1 DEF HandlerOK
<1>3. Head(s) \in Feed \cup {Bad}
  BY <1>2, HeadTailProperties
<1> QED
  BY <1>1, <1>2, <1>3, ObservationAssumption

\* Every step keeps that: no refused payload is ever saved.
LEMMA AtHandStep == AtHand /\ [Next]_vars => AtHand'
BY DEF AtHand, Next, vars, Post, IngestOne, Refuse, PersistObservation, SealObservation,
       Advance, Answer, IngestScenario, IngestUndetected, ScenarioFails, SaveObservations,
       SaveRefused, SaveFinding, SaveTable, SaveScenarioId, Reset, Clear, ClearTable,
       ClearFails, Restart, RestartNoScenario, RestartUnread, NewProcess

\* An upsert of an observation gives rows of observations.
LEMMA UpsertedType ==
  ASSUME NEW rows \in Seq(Observation), NEW o \in Observation
  PROVE  Upserted(rows, o) \in Seq(Observation)
<1> DEFINE at == {i \in DOMAIN rows : rows[i].observation_id = o.observation_id}
<1>1. Upserted(rows, o) = IF at = {} THEN Append(rows, o) ELSE [rows EXCEPT ![Min(at)] = o]
  BY DEF Upserted
<1>2. CASE at = {}
  BY <1>1, <1>2
<1>3. CASE at # {}
  <2>1. at \in SUBSET Nat
    OBVIOUS
  <2>2. Min(at) \in at
    BY <1>3, <2>1, MinNatural
  <2>3. Min(at) \in 1 .. Len(rows)
    BY <2>2
  <2> HIDE DEF at
  <2> QED
    BY <1>1, <1>3, <2>3, ExceptSeq
<1> QED
  BY <1>2, <1>3

\* The events of a scenario are observations, and so are the ones it detects.
LEMMA ScenarioEvents ==
  ASSUME NEW s \in Scenario
  PROVE  /\ \A e \in Events[s] : e \in Seq(Observation)
         /\ \A e \in Evidence[s] : e \in Seq(Observation)
<1>1. Events[s] \subseteq Seq(Feed) /\ Evidence[s] \subseteq Seq(Feed) /\ Feed \subseteq Observation
  BY PictureAssumption, ObservationAssumption
<1> QED
  BY <1>1, SeqMonotonic

\* What can be inserted are lists of observations whose ids differ.
LEMMA InsertableType ==
  ASSUME NEW o \in Seq(Observation), NEW rows \in Insertable(o)
  PROVE  rows \in Seq(Observation) /\ IsInjective(Ids(rows))
<1>1. PICK n \in 0 .. Len(o) : rows = SubSeq(o, 1, n) /\ IsInjective(Ids(rows))
  BY DEF Insertable
<1>2. SubSeq(o, 1, n) \in Seq(Observation)
  OBVIOUS
<1> QED
  BY <1>1, <1>2

\* The tables after a step: what each field may become.
LEMMA TablesWith ==
  ASSUME NEW t \in Tables
  PROVE  /\ \A rows \in Seq(Observation) : WithRows(t, rows) \in Tables
         /\ \A f \in Scenario \cup {None} : [t EXCEPT !.finding = f] \in Tables
         /\ \A s \in Scenario \cup {None} : [t EXCEPT !.scenario = s] \in Tables
BY DEF Tables, WithRows

\* Every step keeps the tables typed, a failing write included.
LEMMA TablesStep ==
  HandlerOK /\ AtHand /\ TablesOK /\ graph.observations \in Seq(Observation) /\ [Next]_vars
    => TablesOK'
<1> SUFFICES ASSUME HandlerOK, AtHand, TablesOK, graph.observations \in Seq(Observation),
                    [Next]_vars
             PROVE  TablesOK'
  OBVIOUS
<1>0. finding \in Scenario \cup {None} /\ scenario \in Scenario \cup {None}
      /\ db \in Tables /\ view \in Tables
  BY DEF TablesOK
<1>1. CASE UNCHANGED vars
  BY <1>1 DEF TablesOK, vars
<1>2. ASSUME NEW c \in Caller, NEW payloads \in Posts, Post(c, payloads) PROVE TablesOK'
  BY <1>2 DEF Post, TablesOK
<1>3. CASE IngestOne
  BY <1>3 DEF IngestOne, TablesOK
<1>4. CASE Refuse
  BY <1>4 DEF Refuse, TablesOK
<1>5. CASE PersistObservation
  <2>1. PICK after : after = WithRows(view, Upserted(view.observations, Head(todo)))
    OBVIOUS
  <2>2. Head(todo) \in Observation
    BY <1>5, HeadOK DEF PersistObservation, AtHand
  <2>3. view.observations \in Seq(Observation)
    BY <1>0 DEF Tables
  <2>4. after \in Tables
    BY <1>0, <2>1, <2>2, <2>3, UpsertedType, TablesWith
  <2>5. /\ UNCHANGED <<finding, scenario>>
        /\ db' \in {after, db} /\ view' \in {after, view, db}
    BY <1>5, <2>1 DEF PersistObservation, Commit, WriteFails
  <2> QED
    BY <1>0, <2>4, <2>5 DEF TablesOK
<1>6. CASE SealObservation
  BY <1>6 DEF SealObservation, TablesOK
<1>7. ASSUME NEW s \in Scenario, IngestScenario(s) PROVE TablesOK'
  BY <1>7 DEF IngestScenario, TablesOK
<1>8. CASE SaveObservations
  <2>1. UNCHANGED <<finding, scenario>>
    BY <1>8 DEF SaveObservations, SaveTable
  <2>2. \A rows \in Insertable(graph.observations) : WithRows(view, rows) \in Tables
    BY <1>0, InsertableType, TablesWith
  <2>3. WithRows(view, graph.observations) \in Tables
    BY <1>0, TablesWith
  <2>4. CASE Commit(WithRows(view, graph.observations))
    BY <1>0, <2>1, <2>3, <2>4 DEF Commit, TablesOK
  <2>5. CASE WriteFails({WithRows(view, rows) : rows \in Insertable(graph.observations)})
    <3>1. db' = db /\ view' \in Tables
      BY <1>0, <2>2, <2>5 DEF WriteFails
    <3> QED
      BY <1>0, <2>1, <3>1 DEF TablesOK
  <2> QED
    BY <1>8, <2>4, <2>5 DEF SaveObservations, SaveTable
<1>9. CASE SaveFinding
  <2>1. UNCHANGED <<finding, scenario>>
    BY <1>9 DEF SaveFinding, SaveTable
  <2>2. \A f \in {None, finding} : [view EXCEPT !.finding = f] \in Tables
    BY <1>0, TablesWith
  <2>3. db' \in Tables /\ view' \in Tables
    BY <1>0, <1>9, <2>2 DEF SaveFinding, SaveTable, Commit, WriteFails
  <2> QED
    BY <1>0, <2>1, <2>3 DEF TablesOK
<1>10. CASE SaveScenarioId
  <2>1. UNCHANGED <<finding, scenario>>
    BY <1>10 DEF SaveScenarioId
  <2>2. [view EXCEPT !.scenario = scenario] \in Tables
    BY <1>0, TablesWith
  <2>3. db' \in Tables /\ view' \in Tables
    BY <1>0, <1>10, <2>2 DEF SaveScenarioId, Commit, WriteFails
  <2> QED
    BY <1>0, <2>1, <2>3 DEF TablesOK
<1>11. CASE Reset
  BY <1>11 DEF Reset, TablesOK
<1>12. CASE Clear
  <2>1. UNCHANGED <<finding, scenario>>
    BY <1>12 DEF Clear, ClearTable
  <2>2. /\ [view EXCEPT !.scenario = None] \in Tables
        /\ [view EXCEPT !.finding = None] \in Tables
        /\ WithRows(view, <<>>) \in Tables
    BY <1>0, EmptySeq, TablesWith
  <2>3. db' \in Tables /\ view' \in Tables
    BY <1>12, <2>2 DEF Clear, ClearTable, Commit
  <2> QED
    BY <1>0, <2>1, <2>3 DEF TablesOK
<1>13. CASE ClearFails
  BY <1>13 DEF ClearFails, TablesOK
<1>14. CASE Restart \/ RestartNoScenario \/ RestartUnread
  <2>1. db.finding \in Scenario \cup {None} /\ db.scenario \in Scenario \cup {None}
    BY <1>0 DEF Tables
  <2> QED
    BY <1>0, <1>14, <2>1 DEF Restart, RestartNoScenario, RestartUnread, NewProcess, TablesOK
<1>15. CASE SaveRefused
  <2>1. UNCHANGED <<finding, scenario, db>>
    BY <1>15 DEF SaveRefused, WriteFails
  <2>2. \A rows \in Insertable(graph.observations) : WithRows(view, rows) \in Tables
    BY <1>0, InsertableType, TablesWith
  <2>3. view' \in Tables
    BY <1>0, <1>15, <2>2 DEF SaveRefused, WriteFails
  <2> QED
    BY <1>0, <2>1, <2>3 DEF TablesOK
<1>16. ASSUME NEW s \in Scenario, IngestUndetected(s) \/ ScenarioFails(s) PROVE TablesOK'
  BY <1>16 DEF IngestUndetected, ScenarioFails, TablesOK
<1> QED
  BY <1>1, <1>2, <1>3, <1>4, <1>5, <1>6, <1>7, <1>8, <1>9, <1>10, <1>11, <1>12, <1>13,
     <1>14, <1>15, <1>16 DEF Next

-----------------------------------------------------------------------------
(* The graph in memory is what its observations rebuild.                   *)

Replayed ==
  /\ graph.observations \in Seq(Observation)
  /\ graph = IngestMany(EmptyGraph, graph.observations)

\* A graph built from a list has exactly this list and is rebuilt from it.
LEMMA RebuiltReplayed ==
  ASSUME NEW s \in Seq(Observation), graph' = IngestMany(EmptyGraph, s)
  PROVE  Replayed' /\ graph'.observations = s
BY IngestManySound DEF Replayed

\* So is the empty graph.
LEMMA EmptyReplayed == graph' = EmptyGraph => Replayed' /\ graph'.observations = <<>>
<1>1. EmptyGraph = IngestMany(EmptyGraph, <<>>)
  BY IngestNone
<1>2. <<>> \in Seq(Observation)
  BY EmptySeq
<1> QED
  BY <1>1, <1>2, EmptySound DEF Replayed

\* A graph that its observations rebuild is sound.
LEMMA ReplayedSound == Replayed => SoundGraph(graph)
BY IngestManySound DEF Replayed

\* Ingest adds the observation at the end.
LEMMA IngestOneReplayed ==
  ASSUME Replayed, NEW x \in Observation, graph' = Ingest(graph, x)
  PROVE  Replayed' /\ graph'.observations = Append(graph.observations, x)
<1>1. PICK s \in Seq(Observation) : s = graph.observations
  BY DEF Replayed
<1>2. graph'.observations = Append(s, x)
  BY <1>1, ReplayedSound, IngestSound
<1>3. graph' = IngestMany(EmptyGraph, Append(s, x))
  <2>1. graph = IngestMany(EmptyGraph, s)
    BY <1>1 DEF Replayed
  <2>2. IngestMany(EmptyGraph, Append(s, x)) = Ingest(IngestMany(EmptyGraph, s), x)
    BY IngestLast
  <2> QED
    BY <2>1, <2>2
<1> QED
  BY <1>1, <1>2, <1>3 DEF Replayed

\* Every step keeps the graph one that its observations rebuild.
LEMMA ReplayedStep ==
  HandlerOK /\ TablesOK /\ Replayed /\ [Next]_vars => Replayed'
<1> SUFFICES ASSUME HandlerOK, TablesOK, Replayed, [Next]_vars PROVE Replayed'
  OBVIOUS
<1>1. CASE graph' = graph
  BY <1>1 DEF Replayed
<1>2. CASE IngestOne
  <2>1. Head(todo) \in Observation
    BY <1>2, HeadOK DEF IngestOne
  <2> QED
    BY <1>2, <2>1, IngestOneReplayed DEF IngestOne
<1>3. ASSUME NEW s \in Scenario, IngestScenario(s) \/ IngestUndetected(s) \/ ScenarioFails(s)
      PROVE  Replayed'
  <2>1. graph' = EmptyGraph \/ \E e \in Events[s] \cup Evidence[s] : graph' = ScenarioGraph(e)
    BY <1>3 DEF IngestScenario, IngestUndetected, ScenarioFails
  <2> QED
    BY <2>1, EmptyReplayed, ScenarioEvents, RebuiltReplayed DEF ScenarioGraph
<1>4. CASE Restart \/ RestartNoScenario
  <2>1. db.observations \in Seq(Observation)
    BY DEF TablesOK, Tables
  <2> QED
    BY <1>4, <2>1, RebuiltReplayed DEF Restart, RestartNoScenario, LoadedRows
<1>5. CASE Reset \/ RestartUnread
  BY <1>5, EmptyReplayed DEF Reset, RestartUnread
<1>6. \/ graph' = graph \/ IngestOne
      \/ (\E s \in Scenario : IngestScenario(s) \/ IngestUndetected(s) \/ ScenarioFails(s))
      \/ Restart \/ RestartNoScenario \/ Reset \/ RestartUnread
  BY DEF Next, vars, Post, Refuse, PersistObservation, SealObservation, SaveObservations,
         SaveRefused, SaveFinding, SaveTable, SaveScenarioId, Clear, ClearTable, ClearFails
<1> QED
  BY <1>1, <1>2, <1>3, <1>4, <1>5, <1>6

Typed == HandlerOK /\ AtHand /\ FlagsOK /\ TablesOK /\ Replayed

\* The initial state is typed and replayed.
LEMMA TypedInit == Init => Typed
<1> SUFFICES ASSUME Init PROVE Typed
  OBVIOUS
<1>1. <<>> \in Seq(Feed \cup {Bad}) /\ <<>> \in Seq(Observation)
  BY EmptySeq
<1>2. HandlerOK
  BY <1>1 DEF Init, HandlerOK
<1>3. AtHand
  BY DEF Init, AtHand
<1>4. FlagsOK
  <2>1. 0 \in 0 .. MaxFaults
    BY PictureAssumption
  <2> QED
    BY <2>1 DEF Init, FlagsOK
<1>5. TablesOK
  BY <1>1 DEF Init, TablesOK, Tables, EmptyTables
<1>6. Replayed
  <2>1. EmptyGraph = IngestMany(EmptyGraph, <<>>)
    BY IngestNone
  <2> QED
    BY <1>1, <2>1, EmptySound DEF Init, Replayed
<1> QED
  BY <1>2, <1>3, <1>4, <1>5, <1>6 DEF Typed

\* Every step keeps it so.
LEMMA TypedStep == Typed /\ [Next]_vars => Typed'
BY HandlerStep, AtHandStep, FlagsStep, TablesStep, ReplayedStep DEF Typed, Replayed

\* It always is.
LEMMA TypedAlways == Spec => []Typed
<1>1. Init => Typed
  BY TypedInit
<1>2. Typed /\ [Next]_vars => Typed'
  BY TypedStep
<1> QED
  BY <1>1, <1>2, PTL DEF Spec

\* This is more than TypeOK.
LEMMA TypedType == Typed => TypeOK
<1> SUFFICES ASSUME Typed PROVE TypeOK
  OBVIOUS
<1>1. /\ graph.observations \in Seq(Observation) /\ graph.tracks \in Seq(Track)
      /\ graph.home \in Seq(Name)
  BY ReplayedSound DEF Typed, SoundGraph, Graph
<1> QED
  BY <1>1 DEF Typed, HandlerOK, FlagsOK, TablesOK, TypeOK

\* The picture, its tables and the handler's locals keep their types
\* (c2_server.py:251-425, ontology.py:54).
THEOREM TypeCorrect == Spec => []TypeOK
<1>1. Spec => []Typed
  BY TypedAlways
<1>2. Typed => TypeOK
  BY TypedType
<1> QED
  BY <1>1, <1>2, PTL

\* A sound graph is Fused.
LEMMA SoundFused == SoundGraph(graph) => Fused
<1> SUFFICES ASSUME SoundGraph(graph) PROVE Fused
  OBVIOUS
<1>1. PICK o \in Seq(Observation) : o = graph.observations
  BY DEF SoundGraph, Graph
<1>2. PICK tracks \in Seq(Track) : tracks = graph.tracks
  BY DEF SoundGraph, Graph
<1>3. PICK home \in Seq(Name) : home = graph.home
  BY DEF SoundGraph, Graph
<1>4. FusedGraph(o, tracks, home)
  BY <1>1, <1>2, <1>3 DEF SoundGraph
<1>5. DOMAIN o = 1 .. Len(o) /\ DOMAIN tracks = 1 .. Len(tracks)
  OBVIOUS
<1>6. Len(home) = Len(o)
  BY <1>4 DEF FusedGraph
<1>7. \A i \in DOMAIN o : \E t \in ToSet(tracks) : home[i] = t.track_id
  BY <1>4, <1>5 DEF FusedGraph, ToSet
<1>8. IsInjective([i \in DOMAIN tracks |-> tracks[i].track_id])
  BY <1>4, <1>5 DEF FusedGraph, IsInjective
<1>9. ASSUME NEW t \in ToSet(tracks)
      PROVE  FusedOf(o, {i \in DOMAIN o : home[i] = t.track_id}, t)
  <2>1. PICK k \in DOMAIN tracks : t = tracks[k]
    BY DEF ToSet
  <2> QED
    BY <1>4, <1>5, <2>1 DEF FusedGraph, Members
<1>10. \A i, j \in DOMAIN o : i < j /\ home[i] = Key(o[j]) => home[j] = Key(o[j])
  BY <1>4, <1>5 DEF FusedGraph, NamesStay
<1>11. \A t \in ToSet(graph.tracks) :
         FusedOf(graph.observations,
                 {i \in DOMAIN graph.observations : graph.home[i] = t.track_id}, t)
  BY <1>1, <1>2, <1>3, <1>9
<1>12. /\ Len(graph.home) = Len(graph.observations)
       /\ \A i \in DOMAIN graph.observations :
            \E t \in ToSet(graph.tracks) : graph.home[i] = t.track_id
       /\ IsInjective([i \in DOMAIN graph.tracks |-> graph.tracks[i].track_id])
       /\ \A i, j \in DOMAIN graph.observations :
            i < j /\ graph.home[i] = Key(graph.observations[j])
              => graph.home[j] = Key(graph.observations[j])
  BY <1>1, <1>2, <1>3, <1>6, <1>7, <1>8, <1>10
<1> QED
  BY <1>11, <1>12, Zenon DEF Fused, FusedOf, Best

\* The whole graph, tracks and names included, is a function of the observations
\* in their order, however they came in (c2_server.py:251-265).
THEOREM GraphReplays == Spec => []Replayed
<1>1. Spec => []Typed
  BY TypedAlways
<1>2. Typed => Replayed
  BY DEF Typed
<1> QED
  BY <1>1, <1>2, PTL

\* The tracks are the fusion of the observations, as of all at once, for any
\* feed, radius, drift and envelope (SpatialEntityGraph.ingest).
THEOREM TracksFused == Spec => []Fused
<1>1. Spec => []Typed
  BY TypedAlways
<1>2. Typed => Fused
  BY ReplayedSound, SoundFused DEF Typed
<1> QED
  BY <1>1, <1>2, PTL

-----------------------------------------------------------------------------
(* What the rows are, of the observations they were saved from.            *)

\* The rows are the newest observation of each id, in the order of the first of
\* each: r gives the first of each row.
FollowsBy(rows, o, r) ==
  /\ r \in [1 .. Len(rows) -> 1 .. Len(o)]
  /\ \A k, l \in 1 .. Len(rows) : k < l => r[k] < r[l]
  /\ \A k \in 1 .. Len(rows) : r[k] \in FirstOf(o)
  /\ \A i \in FirstOf(o) : \E k \in 1 .. Len(rows) : r[k] = i
  /\ \A k \in 1 .. Len(rows) : rows[k] = NewestOf(o, o[r[k]].observation_id)

Follows(rows, o) == \E r \in [1 .. Len(rows) -> 1 .. Len(o)] : FollowsBy(rows, o, r)


\* Each id has a first observation, and only one.
LEMMA FirstExists ==
  ASSUME NEW o \in Seq(Observation), NEW i \in 1 .. Len(o)
  PROVE  \E j \in FirstOf(o) : o[j].observation_id = o[i].observation_id
<1> DEFINE S == {j \in 1 .. Len(o) : o[j].observation_id = o[i].observation_id}
<1>1. S \in SUBSET Nat /\ i \in S
  OBVIOUS
<1>2. PICK j \in S : \A k \in S : j <= k
  BY <1>1, LeastNatural
<1>3. ASSUME NEW k \in 1 .. (j - 1) PROVE o[k].observation_id # o[j].observation_id
  <2>1. j \in 1 .. Len(o)
    OBVIOUS
  <2>2. k \in 1 .. Len(o) /\ ~ (j <= k)
    BY <2>1
  <2> QED
    BY <1>2, <2>2
<1>4. j \in FirstOf(o)
  BY <1>3 DEF FirstOf
<1> QED
  BY <1>4

\* Two first observations of one id are the same.
LEMMA FirstUnique ==
  ASSUME NEW o \in Seq(Observation), NEW i \in FirstOf(o), NEW j \in FirstOf(o),
         o[i].observation_id = o[j].observation_id
  PROVE  i = j
<1>1. i \in Nat \ {0} /\ j \in Nat \ {0}
  BY DEF FirstOf
<1>2. ~ (i < j) /\ ~ (j < i)
  <2>1. i < j => i \in 1 .. (j - 1)
    BY <1>1
  <2>2. j < i => j \in 1 .. (i - 1)
    BY <1>1
  <2> QED
    BY <2>1, <2>2 DEF FirstOf
<1> QED
  BY <1>1, <1>2

\* The newest observation of an id that came has this id.
LEMMA NewestType ==
  ASSUME NEW o \in Seq(Observation), NEW i \in 1 .. Len(o), NEW id,
         id = o[i].observation_id
  PROVE  NewestOf(o, id) \in Observation /\ NewestOf(o, id).observation_id = id
<1>1. PICK n \in Nat : n = Len(o)
  OBVIOUS
<1>2. PICK S : S = {j \in DOMAIN o : o[j].observation_id = id}
  OBVIOUS
<1>3. \A j \in S : j \in 1 .. n /\ j \in 0 .. n /\ o[j] \in Observation /\ o[j].observation_id = id
  BY <1>1, <1>2
<1>4. S \in SUBSET (0 .. n)
  BY <1>3
<1>5. i \in S
  BY <1>2
<1>6. Max(S) \in S
  BY <1>4, <1>5, MaxNatural
<1>7. NewestOf(o, id) = o[Max(S)]
  BY <1>2 DEF NewestOf
<1> QED
  BY <1>3, <1>6, <1>7

\* The newest observation of an id after one more has come.
LEMMA NewestGrows ==
  ASSUME NEW n \in Nat, NEW o \in Seq(Observation), n = Len(o), NEW x \in Observation, NEW id,
         id # x.observation_id => \E i \in 1 .. n : o[i].observation_id = id
  PROVE  NewestOf(Append(o, x), id) =
           IF id = x.observation_id THEN x ELSE NewestOf(o, id)
<1>1. PICK p : p = Append(o, x)
  OBVIOUS
<1>2. /\ DOMAIN o = 1 .. n /\ DOMAIN p = (1 .. n) \cup {n + 1}
      /\ p[n + 1] = x /\ \A i \in 1 .. n : p[i] = o[i]
  BY <1>1, AppendFacts
<1>3. PICK S : S = {j \in DOMAIN p : p[j].observation_id = id}
  OBVIOUS
<1>4. NewestOf(p, id) = p[Max(S)]
  BY <1>3 DEF NewestOf
<1>5. CASE id = x.observation_id
  <2>1. n + 1 \in S
    BY <1>2, <1>3, <1>5
  <2>2. \A j \in S : j \in 0 .. (n + 1)
    BY <1>2, <1>3
  <2>3. n + 1 \in Nat /\ S \in SUBSET (0 .. (n + 1))
    BY <2>2
  <2>4. Max(S) \in S /\ n + 1 <= Max(S)
    BY <2>1, <2>3, MaxNatural
  <2>5. Max(S) = n + 1
    BY <2>2, <2>4
  <2> QED
    BY <1>1, <1>2, <1>4, <1>5, <2>5
<1>6. CASE id # x.observation_id
  <2>1. S = {j \in DOMAIN o : o[j].observation_id = id}
    BY <1>2, <1>3, <1>6
  <2>2. NewestOf(o, id) = o[Max(S)]
    BY <2>1 DEF NewestOf
  <2>3. S # {}
    BY <1>2, <1>6, <2>1
  <2>4. \A j \in S : j \in 0 .. n
    BY <1>2, <2>1
  <2>5. S \in SUBSET (0 .. n)
    BY <2>4
  <2>6. Max(S) \in S
    BY <2>3, <2>5, MaxNatural
  <2>7. p[Max(S)] = o[Max(S)]
    BY <1>2, <2>1, <2>6
  <2> QED
    BY <1>1, <1>4, <1>6, <2>2, <2>7
<1> QED
  BY <1>5, <1>6

\* The new observation is the first of its id, unless the id came before.
LEMMA FirstGrows ==
  ASSUME NEW n \in Nat, NEW o \in Seq(Observation), n = Len(o), NEW x \in Observation
  PROVE  /\ FirstOf(o) \subseteq 1 .. n
         /\ FirstOf(Append(o, x)) =
              IF \E i \in 1 .. n : o[i].observation_id = x.observation_id
              THEN FirstOf(o) ELSE FirstOf(o) \cup {n + 1}
<1>1. PICK p : p = Append(o, x)
  OBVIOUS
<1>2. /\ DOMAIN o = 1 .. n /\ DOMAIN p = (1 .. n) \cup {n + 1}
      /\ p[n + 1] = x /\ \A i \in 1 .. n : p[i] = o[i]
  BY <1>1, AppendFacts
<1>3. ASSUME NEW i \in 1 .. n PROVE i \in FirstOf(p) <=> i \in FirstOf(o)
  <2>1. \A j \in 1 .. (i - 1) : j \in 1 .. n
    OBVIOUS
  <2>2. p[i] = o[i] /\ \A j \in 1 .. (i - 1) : p[j] = o[j]
    BY <1>2, <2>1
  <2>3. i \in FirstOf(p) <=> \A j \in 1 .. (i - 1) : p[j].observation_id # p[i].observation_id
    BY <1>2 DEF FirstOf
  <2>4. i \in FirstOf(o) <=> \A j \in 1 .. (i - 1) : o[j].observation_id # o[i].observation_id
    BY <1>2 DEF FirstOf
  <2> QED
    BY <2>2, <2>3, <2>4
<1>4. n + 1 \in FirstOf(p) <=> ~ \E i \in 1 .. n : o[i].observation_id = x.observation_id
  <2>1. (n + 1) - 1 = n
    OBVIOUS
  <2>2. n + 1 \in FirstOf(p) <=>
          \A j \in 1 .. ((n + 1) - 1) : p[j].observation_id # p[n + 1].observation_id
    BY <1>2 DEF FirstOf
  <2> QED
    BY <1>2, <2>1, <2>2
<1>5. FirstOf(o) \subseteq 1 .. n /\ FirstOf(p) \subseteq (1 .. n) \cup {n + 1}
  BY <1>2 DEF FirstOf
<1> QED
  BY <1>1, <1>3, <1>4, <1>5

\* A row has the id of the observation it came with first.
LEMMA RowIds ==
  ASSUME NEW rows \in Seq(Observation), NEW o \in Seq(Observation), NEW r,
         FollowsBy(rows, o, r), NEW k \in 1 .. Len(rows)
  PROVE  rows[k].observation_id = o[r[k]].observation_id /\ r[k] \in 1 .. Len(o)
<1>1. r[k] \in 1 .. Len(o) /\ rows[k] = NewestOf(o, o[r[k]].observation_id)
  BY DEF FollowsBy
<1> QED
  BY <1>1, NewestType

\* Ranks that increase differ.
LEMMA RanksDiffer ==
  ASSUME NEW c \in Nat, NEW n \in Nat, NEW r \in [1 .. c -> 1 .. n],
         \A k, l \in 1 .. c : k < l => r[k] < r[l]
  PROVE  \A k, l \in 1 .. c : r[k] = r[l] => k = l
<1> SUFFICES ASSUME NEW k \in 1 .. c, NEW l \in 1 .. c, r[k] = r[l] PROVE k = l
  OBVIOUS
<1>1. r[k] \in Nat /\ k \in Nat /\ l \in Nat
  OBVIOUS
<1>2. ~ (k < l) /\ ~ (l < k)
  BY <1>1
<1> QED
  BY <1>1, <1>2

\* Rows that follow the observations have different ids.
LEMMA RowsDistinct ==
  ASSUME NEW rows \in Seq(Observation), NEW o \in Seq(Observation), NEW r,
         FollowsBy(rows, o, r)
  PROVE  \A k, l \in 1 .. Len(rows) :
           rows[k].observation_id = rows[l].observation_id => k = l
<1>1. PICK c \in Nat : c = Len(rows)
  OBVIOUS
<1>2. PICK n \in Nat : n = Len(o)
  OBVIOUS
<1> SUFFICES ASSUME NEW k \in 1 .. c, NEW l \in 1 .. c,
                    rows[k].observation_id = rows[l].observation_id
             PROVE  k = l
  BY <1>1
<1>3. o[r[k]].observation_id = o[r[l]].observation_id
  BY <1>1, RowIds
<1>4. r[k] \in FirstOf(o) /\ r[l] \in FirstOf(o)
  BY <1>1 DEF FollowsBy
<1>5. r[k] = r[l]
  BY <1>3, <1>4, FirstUnique
<1>6. r \in [1 .. c -> 1 .. n] /\ \A a, b \in 1 .. c : a < b => r[a] < r[b]
  BY <1>1, <1>2 DEF FollowsBy
<1> QED
  BY <1>5, <1>6, RanksDiffer

\* INSERT ... ON CONFLICT DO UPDATE: the row of the id, or a new one at the end.
LEMMA UpsertedRow ==
  ASSUME NEW rows \in Seq(Observation), NEW x \in Observation
  PROVE  \/ /\ \A k \in 1 .. Len(rows) : rows[k].observation_id # x.observation_id
            /\ Upserted(rows, x) = Append(rows, x)
         \/ \E a \in 1 .. Len(rows) :
              /\ rows[a].observation_id = x.observation_id
              /\ Upserted(rows, x) = [rows EXCEPT ![a] = x]
<1> DEFINE at == {i \in DOMAIN rows : rows[i].observation_id = x.observation_id}
<1>1. Upserted(rows, x) = IF at = {} THEN Append(rows, x) ELSE [rows EXCEPT ![Min(at)] = x]
  BY DEF Upserted
<1>2. CASE at = {}
  BY <1>1, <1>2
<1>3. CASE at # {}
  <2>1. at \in SUBSET Nat
    OBVIOUS
  <2>2. Min(at) \in at
    BY <1>3, <2>1, MinNatural
  <2>3. Min(at) \in 1 .. Len(rows) /\ rows[Min(at)].observation_id = x.observation_id
    BY <2>2
  <2>4. Upserted(rows, x) = [rows EXCEPT ![Min(at)] = x]
    BY <1>1, <1>3
  <2> HIDE DEF at
  <2> QED
    BY <2>3, <2>4
<1> QED
  BY <1>2, <1>3

\* What is saved one at a time: a new id.
LEMMA FollowsNew ==
  ASSUME NEW rows \in Seq(Observation), NEW o \in Seq(Observation), NEW r,
         FollowsBy(rows, o, r), NEW x \in Observation,
         \A k \in 1 .. Len(rows) : rows[k].observation_id # x.observation_id
  PROVE  Follows(Append(rows, x), Append(o, x))
<1>1. PICK n \in Nat : n = Len(o)
  OBVIOUS
<1>2. PICK c \in Nat : c = Len(rows)
  OBVIOUS
<1>3. PICK p : p = Append(o, x)
  OBVIOUS
<1>4. PICK w : w = Append(rows, x)
  OBVIOUS
<1>5. Len(p) = n + 1 /\ p[n + 1] = x /\ \A i \in 1 .. n : p[i] = o[i]
  BY <1>1, <1>3, AppendFacts
<1>6. Len(w) = c + 1 /\ w[c + 1] = x /\ \A k \in 1 .. c : w[k] = rows[k]
  BY <1>2, <1>4, AppendFacts
<1>7. /\ r \in [1 .. c -> 1 .. n]
      /\ \A k, l \in 1 .. c : k < l => r[k] < r[l]
      /\ \A k \in 1 .. c : r[k] \in FirstOf(o)
      /\ \A i \in FirstOf(o) : \E k \in 1 .. c : r[k] = i
      /\ \A k \in 1 .. c : rows[k] = NewestOf(o, o[r[k]].observation_id)
  BY <1>1, <1>2 DEF FollowsBy
<1>8. ~ \E i \in 1 .. n : o[i].observation_id = x.observation_id
  <2> SUFFICES ASSUME NEW i \in 1 .. n, o[i].observation_id = x.observation_id PROVE FALSE
    OBVIOUS
  <2>1. PICK j \in FirstOf(o) : o[j].observation_id = o[i].observation_id
    BY <1>1, FirstExists
  <2>2. PICK k \in 1 .. c : r[k] = j
    BY <1>7
  <2>3. rows[k].observation_id = o[j].observation_id
    BY <1>2, <2>2, RowIds
  <2> QED
    BY <1>2, <2>1, <2>3
<1>9. FirstOf(p) = FirstOf(o) \cup {n + 1} /\ FirstOf(o) \subseteq 1 .. n
  BY <1>1, <1>3, <1>8, FirstGrows
<1> DEFINE q == [k \in 1 .. (c + 1) |-> IF k = c + 1 THEN n + 1 ELSE r[k]]
<1>10. /\ q[c + 1] = n + 1
       /\ \A k \in 1 .. c : q[k] = r[k] /\ q[k] \in 1 .. n /\ k \in 1 .. (c + 1) /\ k < c + 1
       /\ \A k \in 1 .. (c + 1) : k = c + 1 \/ k \in 1 .. c
       /\ c + 1 \in 1 .. (c + 1)
  BY <1>7
<1>11. q \in [1 .. (c + 1) -> 1 .. (n + 1)]
  <2>1. \A k \in 1 .. (c + 1) : q[k] \in 1 .. (n + 1)
    <3> HIDE DEF q
    <3>1. n + 1 \in 1 .. (n + 1) /\ \A i \in 1 .. n : i \in 1 .. (n + 1)
      OBVIOUS
    <3> QED
      BY <1>10, <3>1
  <2> QED
    BY <2>1
<1> HIDE DEF q
<1>12. \A k, l \in 1 .. (c + 1) : k < l => q[k] < q[l]
  <2> SUFFICES ASSUME NEW k \in 1 .. (c + 1), NEW l \in 1 .. (c + 1), k < l PROVE q[k] < q[l]
    OBVIOUS
  <2>1. k \in 1 .. c
    BY <1>10
  <2>2. CASE l = c + 1
    BY <1>10, <2>1, <2>2
  <2>3. CASE l \in 1 .. c
    BY <1>7, <1>10, <2>1, <2>3
  <2> QED
    BY <1>10, <2>2, <2>3
<1>13. \A k \in 1 .. (c + 1) : q[k] \in FirstOf(p)
  BY <1>7, <1>9, <1>10
<1>14. \A i \in FirstOf(p) : \E k \in 1 .. (c + 1) : q[k] = i
  BY <1>7, <1>9, <1>10
<1>15. \A k \in 1 .. (c + 1) : w[k] = NewestOf(p, p[q[k]].observation_id)
  <2> SUFFICES ASSUME NEW k \in 1 .. (c + 1)
               PROVE  w[k] = NewestOf(p, p[q[k]].observation_id)
    OBVIOUS
  <2>1. CASE k = c + 1
    <3>1. w[k] = x /\ p[q[k]] = x
      BY <1>5, <1>6, <1>10, <2>1
    <3>2. NewestOf(p, x.observation_id) = x
      BY <1>1, <1>3, NewestGrows
    <3> QED
      BY <3>1, <3>2
  <2>2. CASE k \in 1 .. c
    <3>1. PICK id : id = o[r[k]].observation_id
      OBVIOUS
    <3>2. r[k] \in 1 .. n /\ p[q[k]] = o[r[k]] /\ w[k] = NewestOf(o, id)
      BY <1>5, <1>6, <1>7, <1>10, <2>2, <3>1
    <3>3. id # x.observation_id
      BY <1>8, <3>1, <3>2
    <3>4. NewestOf(p, id) = NewestOf(o, id)
      BY <1>1, <1>3, <3>1, <3>2, <3>3, NewestGrows
    <3> QED
      BY <3>1, <3>2, <3>4
  <2> QED
    BY <1>10, <2>1, <2>2
<1>16. FollowsBy(w, p, q)
  BY <1>5, <1>6, <1>11, <1>12, <1>13, <1>14, <1>15 DEF FollowsBy
<1>17. Follows(w, p)
  BY <1>5, <1>6, <1>11, <1>16 DEF Follows
<1> QED
  BY <1>3, <1>4, <1>17

\* An id that has a row.
LEMMA FollowsOld ==
  ASSUME NEW rows \in Seq(Observation), NEW o \in Seq(Observation), NEW r,
         FollowsBy(rows, o, r), NEW x \in Observation, NEW a \in 1 .. Len(rows),
         rows[a].observation_id = x.observation_id
  PROVE  Follows([rows EXCEPT ![a] = x], Append(o, x))
<1>1. PICK n \in Nat : n = Len(o)
  OBVIOUS
<1>2. PICK c \in Nat : c = Len(rows)
  OBVIOUS
<1>3. PICK p : p = Append(o, x)
  OBVIOUS
<1>4. PICK w : w = [rows EXCEPT ![a] = x]
  OBVIOUS
<1>5. Len(p) = n + 1 /\ p[n + 1] = x /\ \A i \in 1 .. n : p[i] = o[i]
  BY <1>1, <1>3, AppendFacts
<1>6. Len(w) = c /\ a \in 1 .. c /\ w[a] = x /\ \A k \in 1 .. c : k # a => w[k] = rows[k]
  BY <1>2, <1>4, ExceptSeq
<1>7. /\ r \in [1 .. c -> 1 .. n]
      /\ \A k, l \in 1 .. c : k < l => r[k] < r[l]
      /\ \A k \in 1 .. c : r[k] \in FirstOf(o)
      /\ \A i \in FirstOf(o) : \E k \in 1 .. c : r[k] = i
      /\ \A k \in 1 .. c : rows[k] = NewestOf(o, o[r[k]].observation_id)
  BY <1>1, <1>2 DEF FollowsBy
<1>8. \A k \in 1 .. c : r[k] \in 1 .. n /\ o[r[k]].observation_id = rows[k].observation_id
  BY <1>1, <1>2, RowIds
<1>9. FirstOf(p) = FirstOf(o)
  <2>1. \E i \in 1 .. n : o[i].observation_id = x.observation_id
    BY <1>6, <1>8
  <2> QED
    BY <1>1, <1>3, <2>1, FirstGrows
<1>10. r \in [1 .. c -> 1 .. (n + 1)]
  <2>1. \A k \in 1 .. c : r[k] \in 1 .. (n + 1)
    BY <1>8
  <2> QED
    BY <1>7, <2>1
<1>11. \A k \in 1 .. c : w[k] = NewestOf(p, p[r[k]].observation_id)
  <2> SUFFICES ASSUME NEW k \in 1 .. c PROVE w[k] = NewestOf(p, p[r[k]].observation_id)
    OBVIOUS
  <2>1. PICK id : id = o[r[k]].observation_id
    OBVIOUS
  <2>2. p[r[k]] = o[r[k]] /\ id = rows[k].observation_id
    BY <1>5, <1>8, <2>1
  <2>3. NewestOf(p, id) = IF id = x.observation_id THEN x ELSE NewestOf(o, id)
    BY <1>1, <1>3, <1>8, <2>1, NewestGrows
  <2>4. CASE k = a
    BY <1>6, <2>1, <2>2, <2>3, <2>4
  <2>5. CASE k # a
    <3>1. id # x.observation_id
      BY <1>2, <1>6, <2>2, <2>5, RowsDistinct
    <3>2. w[k] = NewestOf(o, id)
      BY <1>6, <1>7, <2>1, <2>5
    <3> QED
      BY <2>1, <2>2, <2>3, <3>1, <3>2
  <2> QED
    BY <2>4, <2>5
<1>12. FollowsBy(w, p, r)
  BY <1>5, <1>6, <1>7, <1>9, <1>10, <1>11 DEF FollowsBy
<1>13. Follows(w, p)
  BY <1>5, <1>6, <1>10, <1>12 DEF Follows
<1> QED
  BY <1>3, <1>4, <1>13

\* Rows that follow the observations follow them after an upsert.
LEMMA FollowsUpserted ==
  ASSUME NEW rows \in Seq(Observation), NEW o \in Seq(Observation), Follows(rows, o),
         NEW x \in Observation
  PROVE  Follows(Upserted(rows, x), Append(o, x))
<1>1. PICK r \in [1 .. Len(rows) -> 1 .. Len(o)] : FollowsBy(rows, o, r)
  BY DEF Follows
<1>2. CASE /\ \A k \in 1 .. Len(rows) : rows[k].observation_id # x.observation_id
           /\ Upserted(rows, x) = Append(rows, x)
  BY <1>1, <1>2, FollowsNew
<1>3. CASE \E a \in 1 .. Len(rows) :
             /\ rows[a].observation_id = x.observation_id
             /\ Upserted(rows, x) = [rows EXCEPT ![a] = x]
  BY <1>1, <1>3, FollowsOld
<1> QED
  BY <1>2, <1>3, UpsertedRow

\* The ids of a list differ.
LEMMA IdsDiffer ==
  ASSUME NEW o \in Seq(Observation)
  PROVE  IsInjective(Ids(o)) <=>
           \A i, j \in 1 .. Len(o) : o[i].observation_id = o[j].observation_id => i = j
<1>1. DOMAIN o = 1 .. Len(o)
  OBVIOUS
<1>2. DOMAIN Ids(o) = 1 .. Len(o) /\ \A i \in 1 .. Len(o) : Ids(o)[i] = o[i].observation_id
  BY <1>1 DEF Ids
<1> QED
  BY <1>2 DEF IsInjective

\* A list whose ids differ is all first, and all newest.
LEMMA DistinctFirst ==
  ASSUME NEW o \in Seq(Observation), IsInjective(Ids(o))
  PROVE  /\ FirstOf(o) = 1 .. Len(o)
         /\ \A i \in 1 .. Len(o) : NewestOf(o, o[i].observation_id) = o[i]
<1>1. PICK n \in Nat : n = Len(o) /\ DOMAIN o = 1 .. n
  OBVIOUS
<1>2. \A i, j \in 1 .. n : o[i].observation_id = o[j].observation_id => i = j
  BY <1>1, IdsDiffer
<1>3. ASSUME NEW i \in 1 .. n PROVE i \in FirstOf(o)
  <2>1. \A j \in 1 .. (i - 1) : j \in 1 .. n /\ j # i
    OBVIOUS
  <2> QED
    BY <1>1, <1>2, <2>1 DEF FirstOf
<1>4. FirstOf(o) = 1 .. n
  BY <1>1, <1>3 DEF FirstOf
<1>5. ASSUME NEW i \in 1 .. n PROVE NewestOf(o, o[i].observation_id) = o[i]
  <2>1. {j \in DOMAIN o : o[j].observation_id = o[i].observation_id} = {i}
    BY <1>1, <1>2
  <2>2. {i} \in SUBSET (0 .. n)
    OBVIOUS
  <2>3. Max({i}) = i
    BY <2>2, MaxNatural
  <2> QED
    BY <2>1, <2>3 DEF NewestOf
<1> QED
  BY <1>1, <1>4, <1>5

\* A list whose ids differ follows itself.
LEMMA FollowsSelf ==
  ASSUME NEW o \in Seq(Observation), IsInjective(Ids(o))
  PROVE  Follows(o, o)
<1>1. PICK n \in Nat : n = Len(o)
  OBVIOUS
<1>2. FirstOf(o) = 1 .. n /\ \A i \in 1 .. n : NewestOf(o, o[i].observation_id) = o[i]
  BY <1>1, DistinctFirst
<1> DEFINE r == [k \in 1 .. n |-> k]
<1>3. r \in [1 .. n -> 1 .. n] /\ \A k \in 1 .. n : r[k] = k
  OBVIOUS
<1> HIDE DEF r
<1>4. FollowsBy(o, o, r)
  BY <1>1, <1>2, <1>3 DEF FollowsBy
<1> QED
  BY <1>1, <1>3, <1>4 DEF Follows

\* No ids differ.
LEMMA DistinctNone == IsInjective(Ids(<<>>))
<1>1. PICK e \in Seq(Observation) : e = <<>>
  BY EmptySeq
<1>2. Len(e) = 0
  BY <1>1
<1>3. \A i, j \in 1 .. Len(e) : e[i].observation_id = e[j].observation_id => i = j
  BY <1>2
<1>4. IsInjective(Ids(e))
  BY <1>3, IdsDiffer
<1> QED
  BY <1>1, <1>4

\* An upsert keeps the ids of the rows different.
LEMMA DistinctUpserted ==
  ASSUME NEW rows \in Seq(Observation), IsInjective(Ids(rows)), NEW x \in Observation
  PROVE  IsInjective(Ids(Upserted(rows, x)))
<1>1. PICK c \in Nat : c = Len(rows)
  OBVIOUS
<1>2. \A k, l \in 1 .. c : rows[k].observation_id = rows[l].observation_id => k = l
  BY <1>1, IdsDiffer
<1>3. PICK w \in Seq(Observation) : w = Upserted(rows, x)
  BY UpsertedType
<1>4. CASE /\ \A k \in 1 .. Len(rows) : rows[k].observation_id # x.observation_id
           /\ w = Append(rows, x)
  <2>1. Len(w) = c + 1 /\ w[c + 1] = x /\ \A k \in 1 .. c : w[k] = rows[k]
    BY <1>1, <1>4, AppendFacts
  <2>2. \A k \in 1 .. (c + 1) : k = c + 1 \/ k \in 1 .. c
    OBVIOUS
  <2>3. \A k, l \in 1 .. (c + 1) : w[k].observation_id = w[l].observation_id => k = l
    BY <1>1, <1>2, <1>4, <2>1, <2>2
  <2> QED
    BY <1>3, <2>1, <2>3, IdsDiffer
<1>5. CASE \E a \in 1 .. Len(rows) :
             rows[a].observation_id = x.observation_id /\ w = [rows EXCEPT ![a] = x]
  <2>1. PICK a \in 1 .. c : rows[a].observation_id = x.observation_id /\ w = [rows EXCEPT ![a] = x]
    BY <1>1, <1>5
  <2>2. Len(w) = c /\ \A k \in 1 .. c : w[k] = IF k = a THEN x ELSE rows[k]
    BY <1>1, <2>1, ExceptSeq
  <2>3. \A k \in 1 .. c : w[k].observation_id = rows[k].observation_id
    BY <2>1, <2>2
  <2>4. \A k, l \in 1 .. c : w[k].observation_id = w[l].observation_id => k = l
    BY <1>2, <2>3
  <2> QED
    BY <1>3, <2>2, <2>4, IdsDiffer
<1> QED
  BY <1>3, <1>4, <1>5, UpsertedRow

\* r lists F in ascending order.
Lists(r, c, F) ==
  /\ \A k, l \in 1 .. c : k < l => r[k] < r[l]
  /\ \A k \in 1 .. c : r[k] \in F
  /\ \A i \in F : \E k \in 1 .. c : r[k] = i

UpTo(F, i) == {j \in F : j <= i}

\* The k-th row belongs to the k-th id: its rank among the first.
LEMMA RankCounts ==
  ASSUME NEW c \in Nat, NEW n \in Nat, NEW r \in [1 .. c -> 1 .. n], NEW F, Lists(r, c, F)
  PROVE  /\ Cardinality(F) = c
         /\ \A k \in 1 .. c : Cardinality(UpTo(F, r[k])) = k
<1>0. /\ \A k, l \in 1 .. c : k < l => r[k] < r[l]
      /\ \A k \in 1 .. c : r[k] \in F
      /\ \A i \in F : \E k \in 1 .. c : r[k] = i
  BY DEF Lists
<1>1. \A k, l \in 1 .. c : r[k] = r[l] => k = l
  BY <1>0, RanksDiffer
<1>2. ASSUME NEW k \in 0 .. c, NEW G, \A l \in 1 .. k : r[l] \in G,
             \A i \in G : \E l \in 1 .. k : r[l] = i
      PROVE  Cardinality(G) = k
  <2> DEFINE f == [l \in 1 .. k |-> r[l]]
  <2>1. \A l \in 1 .. k : l \in 1 .. c /\ f[l] = r[l]
    OBVIOUS
  <2>2. f \in [1 .. k -> G] /\ DOMAIN f = 1 .. k
    BY <1>2, <2>1
  <2> HIDE DEF f
  <2>3. IsInjective(f)
    BY <1>1, <2>1, <2>2 DEF IsInjective
  <2>4. \A i \in G : \E l \in 1 .. k : f[l] = i
    BY <1>2, <2>1
  <2>5. f \in Bijection(1 .. k, G)
    BY <2>2, <2>3, <2>4 DEF Bijection, Injection, Surjection, IsInjective
  <2>6. ExistsBijection(1 .. k, G)
    BY <2>5 DEF ExistsBijection
  <2>7. IsFiniteSet(1 .. k) /\ Cardinality(1 .. k) = k
    BY FS_Interval
  <2> QED
    BY <2>6, <2>7, FS_Bijection
<1>3. Cardinality(F) = c
  <2>1. c \in 0 .. c
    OBVIOUS
  <2> QED
    BY <1>0, <1>2, <2>1
<1>4. ASSUME NEW k \in 1 .. c PROVE Cardinality(UpTo(F, r[k])) = k
  <2> DEFINE G == UpTo(F, r[k])
  <2>1. \A l \in 1 .. c : r[l] \in Nat /\ l \in Nat
    OBVIOUS
  <2>2. \A l \in 1 .. c : r[l] <= r[k] <=> l <= k
    BY <1>0, <2>1
  <2>3. \A l \in 1 .. k : l \in 1 .. c /\ l <= k
    OBVIOUS
  <2>4. \A l \in 1 .. k : r[l] \in G
    BY <1>0, <2>2, <2>3 DEF UpTo
  <2>5. ASSUME NEW i \in G PROVE \E l \in 1 .. k : r[l] = i
    <3>0. i \in F /\ i <= r[k]
      BY DEF UpTo
    <3>1. PICK l \in 1 .. c : r[l] = i
      BY <1>0, <3>0
    <3>2. l <= k
      BY <2>2, <3>0, <3>1
    <3>3. l \in 1 .. k
      BY <3>2
    <3> QED
      BY <3>1, <3>3
  <2>6. k \in 0 .. c
    OBVIOUS
  <2> HIDE DEF G
  <2>7. Cardinality(G) = k
    BY <1>2, <2>4, <2>5, <2>6
  <2> QED
    BY <2>7 DEF G
<1> QED
  BY <1>3, <1>4

\* Followed rows, in the words of StoreFollows.
LEMMA FollowsCounts ==
  ASSUME NEW rows \in Seq(Observation), NEW o \in Seq(Observation), Follows(rows, o)
  PROVE  /\ Len(rows) = Cardinality(FirstOf(o))
         /\ \A i \in FirstOf(o) :
              rows[Cardinality({j \in FirstOf(o) : j <= i})] = NewestOf(o, o[i].observation_id)
<1>1. PICK c \in Nat : c = Len(rows)
  OBVIOUS
<1>2. PICK n \in Nat : n = Len(o)
  OBVIOUS
<1>3. PICK r \in [1 .. c -> 1 .. n] : FollowsBy(rows, o, r)
  BY <1>1, <1>2 DEF Follows
<1>4. PICK F : F = FirstOf(o)
  OBVIOUS
<1>5. /\ \A k, l \in 1 .. c : k < l => r[k] < r[l]
      /\ \A k \in 1 .. c : r[k] \in F
      /\ \A i \in F : \E k \in 1 .. c : r[k] = i
  BY <1>1, <1>3, <1>4 DEF FollowsBy
<1>6. /\ Cardinality(F) = c
      /\ \A k \in 1 .. c : Cardinality(UpTo(F, r[k])) = k
  <2>1. Lists(r, c, F)
    BY <1>5 DEF Lists
  <2> QED
    BY <2>1, RankCounts
<1>7. ASSUME NEW i \in F
      PROVE  rows[Cardinality(UpTo(F, i))] = NewestOf(o, o[i].observation_id)
  <2>1. PICK k \in 1 .. c : r[k] = i
    BY <1>5
  <2>2. rows[k] = NewestOf(o, o[r[k]].observation_id)
    BY <1>1, <1>3 DEF FollowsBy
  <2> QED
    BY <1>6, <2>1, <2>2
<1> QED
  BY <1>1, <1>4, <1>6, <1>7 DEF UpTo

-----------------------------------------------------------------------------
(* The tables follow the picture.                                          *)

\* The tables are the picture in memory.
Stored ==
  /\ Follows(db.observations, graph.observations)
  /\ db.finding = finding /\ db.scenario = scenario

\* The tables lack only the observation that the handler has at hand.
StoredButOne ==
  /\ \E o \in Seq(Observation) :
       graph.observations = Append(o, Head(todo)) /\ Follows(db.observations, o)
  /\ db.finding = finding /\ db.scenario = scenario

\* A rewrite by a scenario: memory is the scenario, and what was written is it.
Rewriting ==
  /\ pc \in {"observations", "finding", "meta"} =>
       /\ scenario \in Scenario /\ finding = scenario
       /\ graph.observations \in Evidence[scenario]
  /\ pc \in {"finding", "meta"} /\ whole =>
       view = db /\ db.observations = graph.observations
  /\ pc = "meta" /\ whole => db.finding = finding

\* A reset: memory is empty, and so is what was cleared.
Clearing ==
  /\ pc \in {"clear_meta", "clear_observations", "clear_finding"} =>
       graph.observations = <<>> /\ finding = None /\ scenario = None
  /\ pc \in {"clear_observations", "clear_finding"} => view = db /\ db.scenario = None
  /\ pc = "clear_finding" => db.observations = <<>>

\* No two rows of the tables have the same id.
DistinctRows == IsInjective(Ids(db.observations)) /\ IsInjective(Ids(view.observations))

\* Nothing waits for a commit unless a write has failed, and between two commits
\* the tables are the picture unless memory went away from them.
StoreInv ==
  /\ DistinctRows /\ Rewriting /\ Clearing
  /\ ~lag => view = db
  /\ ~whole => lag /\ pc \in {"finding", "meta"}
  /\ pc \in {"idle", "ingest", "seal"} /\ ~lag /\ apart = "no" => Stored
  /\ pc = "persist" /\ ~lag /\ apart = "no" => StoredButOne

\* Every step keeps the ids of the rows different, a failing write included.
LEMMA DistinctStep ==
  ASSUME Typed, DistinctRows, [Next]_vars
  PROVE  DistinctRows'
<1>0. /\ db \in Tables /\ view \in Tables
      /\ db.observations \in Seq(Observation) /\ view.observations \in Seq(Observation)
  BY DEF Typed, TablesOK, Tables
<1>1. CASE UNCHANGED <<db, view>>
  BY <1>1 DEF DistinctRows
<1>2. CASE PersistObservation
  <2>1. PICK after : after = WithRows(view, Upserted(view.observations, Head(todo)))
    OBVIOUS
  <2>2. Head(todo) \in Observation
    BY <1>2, HeadOK DEF PersistObservation, AtHand, Typed
  <2>3. IsInjective(Ids(Upserted(view.observations, Head(todo))))
    BY <1>0, <2>2, DistinctUpserted DEF DistinctRows
  <2>4. after.observations = Upserted(view.observations, Head(todo))
    BY <1>0, <2>1 DEF WithRows, Tables
  <2>5. db' \in {after, db} /\ view' \in {after, view, db}
    BY <1>2, <2>1 DEF PersistObservation, Commit, WriteFails
  <2> QED
    BY <2>3, <2>4, <2>5 DEF DistinctRows
<1>3. CASE SaveObservations \/ SaveRefused
  <2>1. PICK o \in Seq(Observation) : o = graph.observations
    BY DEF Typed, Replayed
  <2>2. \A rows \in Insertable(o) : IsInjective(Ids(rows))
    BY InsertableType
  <2>3. \A rows : WithRows(view, rows).observations = rows
    BY <1>0 DEF WithRows, Tables
  <2>4. CASE IsInjective(Ids(o)) /\ Commit(WithRows(view, o))
    BY <2>3, <2>4 DEF Commit, DistinctRows
  <2>5. CASE /\ db' = db
             /\ \/ view' = view \/ view' = db
                \/ \E rows \in Insertable(o) : view' = WithRows(view, rows)
    BY <2>2, <2>3, <2>5 DEF DistinctRows
  <2>6. \/ IsInjective(Ids(o)) /\ Commit(WithRows(view, o))
        \/ /\ db' = db
           /\ \/ view' = view \/ view' = db
              \/ \E rows \in Insertable(o) : view' = WithRows(view, rows)
    BY <1>3, <2>1 DEF SaveObservations, SaveRefused, SaveTable, WriteFails
  <2> QED
    BY <2>4, <2>5, <2>6
<1>4. CASE SaveFinding
  <2>1. \A f : [view EXCEPT !.finding = f].observations = view.observations
    BY <1>0 DEF Tables
  <2>2. /\ db'.observations \in {db.observations, view.observations}
        /\ view'.observations \in {db.observations, view.observations}
    BY <1>4, <2>1 DEF SaveFinding, SaveTable, Commit, WriteFails
  <2> QED
    BY <2>2 DEF DistinctRows
<1>5. CASE SaveScenarioId
  <2>1. [view EXCEPT !.scenario = scenario].observations = view.observations
    BY <1>0 DEF Tables
  <2>2. /\ db'.observations \in {db.observations, view.observations}
        /\ view'.observations \in {db.observations, view.observations}
    BY <1>5, <2>1 DEF SaveScenarioId, Commit, WriteFails
  <2> QED
    BY <2>2 DEF DistinctRows
<1>6. CASE Clear
  <2>1. /\ [view EXCEPT !.scenario = None].observations = view.observations
        /\ [view EXCEPT !.finding = None].observations = view.observations
        /\ WithRows(view, <<>>).observations = <<>>
    BY <1>0 DEF Tables, WithRows
  <2>2. db' = view' /\ db'.observations \in {view.observations, <<>>}
    BY <1>6, <2>1 DEF Clear, ClearTable, Commit
  <2> QED
    BY <2>2, DistinctNone DEF DistinctRows
<1>7. CASE ClearFails
  BY <1>7 DEF ClearFails, DistinctRows
<1>8. CASE Restart \/ RestartNoScenario \/ RestartUnread
  BY <1>8 DEF Restart, RestartNoScenario, RestartUnread, NewProcess, DistinctRows
<1>9. \/ UNCHANGED <<db, view>> \/ PersistObservation \/ SaveObservations \/ SaveRefused
      \/ SaveFinding \/ SaveScenarioId \/ Clear \/ ClearFails
      \/ Restart \/ RestartNoScenario \/ RestartUnread
  BY DEF Next, vars, Post, IngestOne, Refuse, SealObservation, IngestScenario,
         IngestUndetected, ScenarioFails, Reset
<1> QED
  BY <1>1, <1>2, <1>3, <1>4, <1>5, <1>6, <1>7, <1>8, <1>9

\* Every step keeps what a rewrite has written so far.
LEMMA RewritingStep ==
  ASSUME Typed, Rewriting, [Next]_vars
  PROVE  Rewriting'
<1>0. db \in Tables /\ view \in Tables
  BY DEF Typed, TablesOK
<1>1. CASE UNCHANGED vars
  BY <1>1 DEF vars, Rewriting
<1>2. ASSUME NEW s \in Scenario, IngestScenario(s) PROVE Rewriting'
  <2>1. /\ scenario' = s /\ finding' = s /\ pc' = "observations"
        /\ \E e \in Evidence[s] : graph' = IngestMany(EmptyGraph, e)
    BY <1>2 DEF IngestScenario, ScenarioGraph
  <2>2. graph'.observations \in Evidence[s]
    BY <2>1, ScenarioEvents, RebuiltReplayed
  <2> QED
    BY <2>1, <2>2 DEF Rewriting
<1>3. CASE SaveObservations
  <2>1. /\ pc = "observations" /\ pc' = "finding" /\ UNCHANGED <<graph, finding, scenario>>
        /\ whole' => Commit(WithRows(view, graph.observations))
    BY <1>3 DEF SaveObservations, SaveTable
  <2>2. WithRows(view, graph.observations).observations = graph.observations
    BY <1>0 DEF WithRows, Tables
  <2> QED
    BY <2>1, <2>2 DEF Rewriting, Commit
<1>4. CASE SaveFinding
  <2>1. /\ pc = "finding" /\ pc' = "meta" /\ UNCHANGED <<graph, finding, scenario>>
        /\ whole' => Commit([view EXCEPT !.finding = finding]) /\ whole
    BY <1>4 DEF SaveFinding, SaveTable
  <2>2. /\ [view EXCEPT !.finding = finding].observations = view.observations
        /\ [view EXCEPT !.finding = finding].finding = finding
    BY <1>0 DEF Tables
  <2> QED
    BY <2>1, <2>2 DEF Rewriting, Commit
<1>5. CASE pc' \notin {"observations", "finding", "meta"}
  BY <1>5 DEF Rewriting
<1>6. CASE SaveRefused
  <2>1. /\ pc = "observations" /\ pc' = "finding" /\ UNCHANGED <<graph, finding, scenario>>
        /\ whole' = FALSE
    BY <1>6 DEF SaveRefused
  <2> QED
    BY <2>1 DEF Rewriting
<1>7. \/ UNCHANGED vars \/ (\E s \in Scenario : IngestScenario(s))
      \/ SaveObservations \/ SaveRefused \/ SaveFinding
      \/ pc' \notin {"observations", "finding", "meta"}
  BY DEF Next, Idle, Post, IngestOne, Refuse, PersistObservation, SealObservation, Advance,
         Answer, IngestUndetected, ScenarioFails, SaveScenarioId, Reset, Clear, ClearTable,
         ClearFails, Restart, RestartNoScenario, RestartUnread, NewProcess
<1> QED
  BY <1>1, <1>2, <1>3, <1>4, <1>5, <1>6, <1>7

\* Every step keeps what a reset has cleared so far.
LEMMA ClearingStep ==
  ASSUME Typed, Clearing, [Next]_vars
  PROVE  Clearing'
<1>0. db \in Tables /\ view \in Tables
  BY DEF Typed, TablesOK
<1>1. CASE UNCHANGED vars
  BY <1>1 DEF vars, Clearing
<1>2. CASE Reset
  <2>1. graph'.observations = <<>>
    BY <1>2, EmptySound DEF Reset
  <2> QED
    BY <1>2, <2>1 DEF Reset, Clearing
<1>3. CASE Clear
  <2>1. /\ [view EXCEPT !.scenario = None].scenario = None
        /\ WithRows(view, <<>>).observations = <<>>
        /\ WithRows(view, <<>>).scenario = view.scenario
    BY <1>0 DEF Tables, WithRows
  <2>2. CASE ClearTable("clear_meta", "clear_observations", [view EXCEPT !.scenario = None])
    BY <2>1, <2>2 DEF ClearTable, Commit, Clearing
  <2>3. CASE ClearTable("clear_observations", "clear_finding", WithRows(view, <<>>))
    BY <2>1, <2>3 DEF ClearTable, Commit, Clearing
  <2>4. CASE ClearTable("clear_finding", "idle", [view EXCEPT !.finding = None])
    BY <2>4 DEF ClearTable, Clearing
  <2> QED
    BY <1>3, <2>2, <2>3, <2>4 DEF Clear
<1>4. CASE pc' \notin {"clear_meta", "clear_observations", "clear_finding"}
  BY <1>4 DEF Clearing
<1>5. \/ UNCHANGED vars \/ Reset \/ Clear
      \/ pc' \notin {"clear_meta", "clear_observations", "clear_finding"}
  BY DEF Next, Idle, Post, IngestOne, Refuse, PersistObservation, SealObservation, Advance,
         Answer, IngestScenario, IngestUndetected, ScenarioFails, SaveObservations, SaveRefused,
         SaveFinding, SaveTable, SaveScenarioId, ClearFails, Restart, RestartNoScenario,
         RestartUnread, NewProcess
<1> QED
  BY <1>1, <1>2, <1>3, <1>4, <1>5

\* Every step keeps that what waits for a commit is what a failed write left.
LEMMA SyncedStep ==
  ASSUME ~lag => view = db, [Next]_vars, ~lag'
  PROVE  view' = db'
<1>1. CASE UNCHANGED <<view, db, lag>>
  BY <1>1
<1>2. CASE view' = db'
  BY <1>2
<1>3. \/ UNCHANGED <<view, db, lag>> \/ view' = db'
  BY DEF Next, vars, Post, IngestOne, Refuse, PersistObservation, SealObservation,
         IngestScenario, IngestUndetected, ScenarioFails, SaveObservations, SaveRefused,
         SaveFinding, SaveTable, SaveScenarioId, Reset, Clear, ClearTable, ClearFails,
         Commit, WriteFails, Restart, RestartNoScenario, RestartUnread, NewProcess
<1> QED
  BY <1>1, <1>2, <1>3

\* Every step keeps that only a rewrite under way can be broken, and then lags.
LEMMA WholeStep ==
  ASSUME ~whole => lag /\ pc \in {"finding", "meta"}, [Next]_vars
  PROVE  ~whole' => lag' /\ pc' \in {"finding", "meta"}
<1>1. CASE UNCHANGED <<whole, lag, pc>>
  BY <1>1
<1>2. CASE pc \notin {"finding", "meta"} /\ UNCHANGED whole
  BY <1>2
<1>3. CASE SaveObservations
  BY <1>3 DEF SaveObservations, SaveTable, WriteFails
<1>4. CASE SaveFinding
  BY <1>4 DEF SaveFinding, SaveTable, WriteFails
<1>5. CASE SaveRefused
  BY <1>5 DEF SaveRefused, WriteFails
<1>6. \/ whole' = TRUE \/ SaveObservations \/ SaveRefused \/ SaveFinding
      \/ UNCHANGED <<whole, lag, pc>> \/ (pc \notin {"finding", "meta"} /\ UNCHANGED whole)
  BY DEF Next, vars, Post, Idle, IngestOne, Refuse, PersistObservation, SealObservation,
         IngestScenario, IngestUndetected, ScenarioFails, SaveScenarioId, Reset, Clear,
         ClearTable, ClearFails, Restart, RestartNoScenario, RestartUnread, NewProcess
<1> QED
  BY <1>1, <1>2, <1>3, <1>4, <1>5, <1>6

\* An ingested observation is the only one the tables lack.
LEMMA ButOneStep ==
  ASSUME Typed, StoreInv, [Next]_vars, pc' = "persist", ~lag', apart' = "no"
  PROVE  StoredButOne'
<1>1. CASE UNCHANGED vars
  BY <1>1 DEF vars, StoreInv, StoredButOne
<1>2. CASE IngestOne
  <2>1. Stored
    BY <1>2 DEF IngestOne, StoreInv
  <2>2. PICK o \in Seq(Observation) : o = graph.observations
    BY DEF Typed, Replayed
  <2>3. Head(todo) \in Observation
    BY <1>2, HeadOK DEF IngestOne, Typed
  <2>4. graph'.observations = Append(o, Head(todo))
    BY <1>2, <2>2, <2>3, IngestOneReplayed DEF IngestOne, Typed
  <2>5. UNCHANGED <<finding, scenario, db, view, todo>>
    BY <1>2 DEF IngestOne
  <2>6. Follows(db.observations, o)
    BY <2>1, <2>2 DEF Stored
  <2> QED
    BY <2>1, <2>4, <2>5, <2>6 DEF Stored, StoredButOne
<1>3. UNCHANGED vars \/ IngestOne
  BY DEF Next, Idle, Post, Refuse, PersistObservation, SealObservation, Advance, Answer,
         IngestScenario, IngestUndetected, ScenarioFails, SaveObservations, SaveRefused,
         SaveFinding, SaveTable, SaveScenarioId, Reset, Clear, ClearTable, ClearFails, Restart,
         RestartNoScenario, RestartUnread, NewProcess
<1> QED
  BY <1>1, <1>2, <1>3

\* Between two commits of a handler the tables are the picture.
LEMMA StoredStep ==
  ASSUME Typed, StoreInv, [Next]_vars, pc' \in {"idle", "ingest", "seal"}, ~lag', apart' = "no"
  PROVE  Stored'
<1>0. /\ db \in Tables /\ view \in Tables
      /\ db.observations \in Seq(Observation) /\ view.observations \in Seq(Observation)
  BY DEF Typed, TablesOK, Tables
<1>1. CASE /\ UNCHANGED <<graph, finding, scenario, db, lag, apart>>
           /\ pc \in {"idle", "ingest", "seal"}
  BY <1>1 DEF StoreInv, Stored
<1>2. CASE PersistObservation
  <2>1. /\ pc = "persist" /\ UNCHANGED <<graph, finding, scenario, lag, apart>>
        /\ Commit(WithRows(view, Upserted(view.observations, Head(todo))))
    BY <1>2 DEF PersistObservation, WriteFails
  <2>2. StoredButOne
    BY <2>1 DEF StoreInv
  <2>3. PICK o \in Seq(Observation) :
          graph.observations = Append(o, Head(todo)) /\ Follows(db.observations, o)
    BY <2>2 DEF StoredButOne
  <2>4. Head(todo) \in Observation
    BY <2>1, HeadOK DEF AtHand, Typed
  <2>5. Follows(Upserted(db.observations, Head(todo)), graph.observations)
    BY <1>0, <2>3, <2>4, FollowsUpserted
  <2>6. view = db /\ db.finding = finding /\ db.scenario = scenario
    BY <2>1, <2>2 DEF StoredButOne, StoreInv
  <2>7. /\ db'.observations = Upserted(db.observations, Head(todo))
        /\ db'.finding = db.finding /\ db'.scenario = db.scenario
    BY <1>0, <2>1, <2>6 DEF Commit, WithRows, Tables
  <2> QED
    BY <2>1, <2>5, <2>6, <2>7 DEF Stored
<1>3. CASE SaveScenarioId
  <2>1. /\ pc = "meta" /\ UNCHANGED <<graph, finding, scenario>>
        /\ Commit([view EXCEPT !.scenario = scenario]) /\ ~ (lag /\ ~whole)
    BY <1>3 DEF SaveScenarioId, WriteFails
  <2>2. whole /\ view = db
    BY <2>1 DEF StoreInv, Rewriting
  <2>3. /\ db.observations = graph.observations /\ db.finding = finding
        /\ IsInjective(Ids(db.observations))
    BY <2>1, <2>2 DEF StoreInv, Rewriting, DistinctRows
  <2>4. Follows(graph.observations, graph.observations)
    BY <1>0, <2>3, FollowsSelf
  <2>5. /\ db'.observations = graph.observations
        /\ db'.finding = finding /\ db'.scenario = scenario
    BY <1>0, <2>1, <2>2, <2>3 DEF Commit, Tables
  <2> QED
    BY <2>1, <2>4, <2>5 DEF Stored
<1>4. CASE Clear
  <2>1. ClearTable("clear_finding", "idle", [view EXCEPT !.finding = None])
    BY <1>4 DEF Clear, ClearTable
  <2>2. /\ graph.observations = <<>> /\ finding = None /\ scenario = None
        /\ view = db /\ db.scenario = None /\ db.observations = <<>>
    BY <2>1 DEF ClearTable, StoreInv, Clearing
  <2>3. /\ UNCHANGED <<graph, finding, scenario>>
        /\ db'.observations = <<>> /\ db'.finding = None /\ db'.scenario = None
    BY <1>0, <2>1, <2>2 DEF ClearTable, Commit, Tables
  <2>4. Follows(<<>>, <<>>)
    BY EmptySeq, DistinctNone, FollowsSelf
  <2> QED
    BY <2>2, <2>3, <2>4 DEF Stored
<1>5. CASE Restart
  <2>1. /\ graph' = IngestMany(EmptyGraph, db.observations) /\ db' = db
        /\ finding' = db.finding /\ scenario' = db.scenario
    BY <1>5 DEF Restart, NewProcess, LoadedRows
  <2>2. graph'.observations = db.observations
    BY <1>0, <2>1, RebuiltReplayed
  <2>3. Follows(db.observations, db.observations)
    BY <1>0, FollowsSelf DEF StoreInv, DistinctRows
  <2> QED
    BY <2>1, <2>2, <2>3 DEF Stored
<1>6. \/ UNCHANGED vars
      \/ (\E c \in Caller, payloads \in Posts : Post(c, payloads))
      \/ Refuse \/ SealObservation
      \/ PersistObservation \/ SaveScenarioId \/ Clear \/ Restart
  BY DEF Next, IngestOne, IngestScenario, IngestUndetected, ScenarioFails, SaveObservations,
         SaveRefused, SaveFinding, SaveTable, Reset, ClearFails, RestartNoScenario, RestartUnread
<1>7. CASE UNCHANGED vars
  BY <1>1, <1>7 DEF vars
<1>8. CASE \E c \in Caller, payloads \in Posts : Post(c, payloads)
  BY <1>1, <1>8 DEF Post, Idle
<1>9. CASE Refuse \/ SealObservation
  BY <1>1, <1>9 DEF Refuse, SealObservation
<1> QED
  BY <1>2, <1>3, <1>4, <1>5, <1>6, <1>7, <1>8, <1>9

\* Initially both are empty.
LEMMA StoreInit == Init => StoreInv
<1> SUFFICES ASSUME Init PROVE StoreInv
  OBVIOUS
<1>1. graph.observations = <<>> /\ db.observations = <<>>
  BY EmptySound DEF Init, EmptyTables
<1>2. Follows(<<>>, <<>>)
  BY EmptySeq, DistinctNone, FollowsSelf
<1>3. Stored
  BY <1>1, <1>2 DEF Init, EmptyTables, Stored
<1>4. DistinctRows
  BY <1>1, DistinctNone DEF Init, DistinctRows
<1> QED
  BY <1>3, <1>4 DEF Init, StoreInv, Rewriting, Clearing

\* Every step keeps the invariant of the tables.
LEMMA StoreStep == Typed /\ StoreInv /\ [Next]_vars => StoreInv'
<1> SUFFICES ASSUME Typed, StoreInv, [Next]_vars PROVE StoreInv'
  OBVIOUS
<1>1. DistinctRows'
  BY DistinctStep DEF StoreInv
<1>2. Rewriting'
  BY RewritingStep DEF StoreInv
<1>3. Clearing'
  BY ClearingStep DEF StoreInv
<1>4. ~whole' => lag' /\ pc' \in {"finding", "meta"}
  BY WholeStep DEF StoreInv
<1>5. pc' \in {"idle", "ingest", "seal"} /\ ~lag' /\ apart' = "no" => Stored'
  BY StoredStep
<1>6. pc' = "persist" /\ ~lag' /\ apart' = "no" => StoredButOne'
  BY ButOneStep
<1>7. ~lag' => view' = db'
  BY SyncedStep DEF StoreInv
<1> QED
  BY <1>1, <1>2, <1>3, <1>4, <1>5, <1>6, <1>7 DEF StoreInv

\* It always holds.
LEMMA StoreAlways == Spec => [](Typed /\ StoreInv)
<1>1. Init => Typed /\ StoreInv
  BY TypedInit, StoreInit
<1>2. Typed /\ StoreInv /\ [Next]_vars => (Typed /\ StoreInv)'
  BY TypedStep, StoreStep
<1> QED
  BY <1>1, <1>2, PTL DEF Spec

\* It is more than StoreFollows.
LEMMA StoredFollows == Typed /\ StoreInv => StoreFollows
<1> SUFFICES ASSUME Typed, StoreInv, Idle, ~lag, apart = "no"
             PROVE  view = db /\ TablesHoldPicture
  BY DEF StoreFollows
<1>1. Stored /\ view = db
  BY DEF Idle, StoreInv
<1>2. db.observations \in Seq(Observation) /\ graph.observations \in Seq(Observation)
  BY DEF Typed, TablesOK, Tables, Replayed
<1>3. NewestRows(db.observations, graph.observations)
  BY <1>1, <1>2, FollowsCounts DEF Stored, NewestRows
<1> QED
  BY <1>1, <1>3 DEF TablesHoldPicture, Stored

\* No two rows have the same id, in the file or in an open transaction, whatever
\* has failed and whatever ids a scenario gives: the INSERTs of
\* replace_observations stop at the first id that is there
\* (runtime_store.py:139-155), every other write is an upsert.
THEOREM RowsUnique == Spec => []DistinctRows
<1>1. Spec => [](Typed /\ StoreInv)
  BY StoreAlways
<1>2. StoreInv => DistinctRows
  BY DEF StoreInv
<1> QED
  BY <1>1, <1>2, PTL

\* Between two requests the tables are the picture in memory and nothing waits for
\* a commit, unless a write has failed, or a scenario that raised or found nothing
\* or a start that could not read has left memory apart (c2_server.py:267-274 and
\* 414-425, runtime_store.py:115-169).
THEOREM TablesFollow == Spec => []StoreFollows
<1>1. Spec => [](Typed /\ StoreInv)
  BY StoreAlways
<1>2. Typed /\ StoreInv => StoreFollows
  BY StoredFollows
<1> QED
  BY <1>1, <1>2, PTL

-----------------------------------------------------------------------------
(* The alert and its evidence.                                             *)

\* The observations begin with these ones, by their ids.
Starts(e, o) ==
  Len(e) <= Len(o) /\ \A i \in 1 .. Len(e) : e[i].observation_id = o[i].observation_id

Rests(o, f, s) ==
  f # None => s \in {f, None} /\ \E e \in Evidence[f] : Starts(e, o)

\* Memory shows the alert with its evidence, and the tables would after a
\* restart: unless they are of more than one picture, or about to be, and memory
\* also unless a scenario raised over the alert.
AlertInv ==
  /\ ~torn /\ apart # "alert" => Rests(graph.observations, finding, scenario)
  /\ ~torn /\ ~lag /\ ~HalfWritten => Rests(db.observations, db.finding, db.scenario)

\* A list starts with itself,
LEMMA StartsSelf == ASSUME NEW o \in Seq(Observation) PROVE Starts(o, o)
BY DEF Starts

\* and with what it started with before one more came.
LEMMA StartsAppend ==
  ASSUME NEW e \in Seq(Observation), NEW o \in Seq(Observation), NEW x \in Observation,
         Starts(e, o)
  PROVE  Starts(e, Append(o, x))
<1>1. PICK n \in Nat : n = Len(o)
  OBVIOUS
<1>2. PICK m \in Nat : m = Len(e)
  OBVIOUS
<1>3. m <= n /\ \A i \in 1 .. m : e[i].observation_id = o[i].observation_id
  BY <1>1, <1>2 DEF Starts
<1>4. PICK p : p = Append(o, x)
  OBVIOUS
<1>5. Len(p) = n + 1 /\ \A i \in 1 .. n : p[i] = o[i]
  BY <1>1, <1>4, AppendFacts
<1>6. m <= n + 1 /\ \A i \in 1 .. m : i \in 1 .. n
  BY <1>3
<1>7. Starts(e, p)
  BY <1>2, <1>3, <1>5, <1>6 DEF Starts
<1> QED
  BY <1>4, <1>7

\* An upsert adds a row at the end, or keeps the id of the one it writes.
LEMMA StartsUpserted ==
  ASSUME NEW e \in Seq(Observation), NEW rows \in Seq(Observation), NEW x \in Observation,
         Starts(e, rows)
  PROVE  Starts(e, Upserted(rows, x))
<1>1. CASE Upserted(rows, x) = Append(rows, x)
  BY <1>1, StartsAppend
<1>2. CASE \E a \in 1 .. Len(rows) :
             /\ rows[a].observation_id = x.observation_id
             /\ Upserted(rows, x) = [rows EXCEPT ![a] = x]
  <2>1. PICK c \in Nat : c = Len(rows)
    OBVIOUS
  <2>2. PICK a \in 1 .. c : /\ rows[a].observation_id = x.observation_id
                            /\ Upserted(rows, x) = [rows EXCEPT ![a] = x]
    BY <1>2, <2>1
  <2>3. PICK w : w = [rows EXCEPT ![a] = x]
    OBVIOUS
  <2>4. Len(w) = c /\ \A k \in 1 .. c : w[k] = IF k = a THEN x ELSE rows[k]
    BY <2>1, <2>3, ExceptSeq
  <2>5. \A k \in 1 .. c : w[k].observation_id = rows[k].observation_id
    BY <2>2, <2>4
  <2>6. PICK m \in Nat : m = Len(e)
    OBVIOUS
  <2>7. m <= c /\ \A i \in 1 .. m : e[i].observation_id = rows[i].observation_id
    BY <2>1, <2>6 DEF Starts
  <2>8. \A i \in 1 .. m : i \in 1 .. c
    BY <2>7
  <2>9. Starts(e, w)
    BY <2>4, <2>5, <2>6, <2>7, <2>8 DEF Starts
  <2> QED
    BY <2>2, <2>3, <2>9
<1> QED
  BY <1>1, <1>2, UpsertedRow

\* The ids of a list are a list of the same length.
LEMMA IdsType ==
  ASSUME NEW o \in Seq(Observation)
  PROVE  /\ Ids(o) \in Seq(Nat) /\ Len(Ids(o)) = Len(o)
         /\ \A i \in 1 .. Len(o) : Ids(o)[i] = o[i].observation_id
<1>1. PICK n \in Nat : n = Len(o)
  OBVIOUS
<1>2. Ids(o) = [i \in 1 .. n |-> o[i].observation_id]
  BY <1>1 DEF Ids
<1>3. \A i \in 1 .. n : o[i].observation_id \in Nat
  <2>1. \A i \in 1 .. n : o[i] \in Observation
    BY <1>1
  <2> QED
    BY <2>1, ObservationType
<1>4. Ids(o) \in Seq(Nat) /\ Len(Ids(o)) = n
  BY <1>2, <1>3
<1> QED
  BY <1>1, <1>2, <1>4

\* Starting with, in the words of AlertHasEvidence.
LEMMA StartsPrefix ==
  ASSUME NEW e \in Seq(Observation), NEW o \in Seq(Observation), Starts(e, o)
  PROVE  IsPrefix(Ids(e), Ids(o))
<1>1. PICK n \in Nat : n = Len(o)
  OBVIOUS
<1>2. PICK m \in Nat : m = Len(e)
  OBVIOUS
<1>3. m <= n /\ \A i \in 1 .. m : e[i].observation_id = o[i].observation_id /\ i \in 1 .. n
  BY <1>1, <1>2 DEF Starts
<1>4. PICK a : a = Ids(e)
  OBVIOUS
<1>5. PICK b : b = Ids(o)
  OBVIOUS
<1>6. a \in Seq(Nat) /\ Len(a) = m /\ \A i \in 1 .. m : a[i] = e[i].observation_id
  BY <1>2, <1>4, IdsType
<1>7. b \in Seq(Nat) /\ Len(b) = n /\ \A i \in 1 .. n : b[i] = o[i].observation_id
  BY <1>1, <1>5, IdsType
<1>8. \A i \in 1 .. m : a[i] = b[i]
  BY <1>3, <1>6, <1>7
<1>9. SubSeq(a, 1, m) = a
  <2>1. SubSeq(a, 1, Len(a)) = a
    BY <1>6, SubSeqFull
  <2> QED
    BY <1>6, <2>1
<1>10. PICK s : s = SubSeq(b, 1, m)
  OBVIOUS
<1>11. s \in Seq(Nat) /\ Len(s) = m /\ \A i \in 1 .. m : s[i] = b[i]
  <2>1. m \in 0 .. Len(b)
    BY <1>3, <1>7
  <2> QED
    BY <1>7, <1>10, <2>1
<1>12. s = a
  BY <1>6, <1>8, <1>11, SeqEqual
<1>13. IsPrefix(a, b)
  BY <1>3, <1>6, <1>7, <1>9, <1>10, <1>12 DEF IsPrefix
<1> QED
  BY <1>4, <1>5, <1>13

\* No alert needs no evidence.
LEMMA NoEvidence == ASSUME NEW o, NEW s PROVE Rests(o, None, s)
BY DEF Rests

\* A scenario is the evidence of its alert.
LEMMA ScenarioEvidence ==
  ASSUME NEW s \in Scenario, NEW e \in Evidence[s]
  PROVE  Rests(e, s, s)
BY ScenarioEvents, StartsSelf DEF Rests

\* Every step keeps the alert in memory on its evidence, a restart included.
LEMMA MemoryAlertStep ==
  ASSUME Typed, StoreInv, AlertInv, [Next]_vars, ~torn', apart' # "alert"
  PROVE  Rests(graph'.observations, finding', scenario')
<1>1. CASE UNCHANGED <<graph, finding, scenario, torn, apart>>
  BY <1>1 DEF AlertInv
<1>2. CASE IngestOne
  <2>1. Rests(graph.observations, finding, scenario)
    BY <1>2 DEF IngestOne, AlertInv
  <2>2. Head(todo) \in Observation
    BY <1>2, HeadOK DEF IngestOne, Typed
  <2>3. graph'.observations = Append(graph.observations, Head(todo))
    BY <1>2, <2>2, IngestOneReplayed DEF IngestOne, Typed
  <2>4. UNCHANGED <<finding, scenario>>
    BY <1>2 DEF IngestOne
  <2>5. ASSUME finding # None
        PROVE  \E e \in Evidence[finding] : Starts(e, graph'.observations)
    <3>1. PICK e \in Evidence[finding] : Starts(e, graph.observations)
      BY <2>1, <2>5 DEF Rests
    <3>2. e \in Seq(Observation) /\ graph.observations \in Seq(Observation)
      BY <2>5, ScenarioEvents DEF Typed, TablesOK, Replayed
    <3> QED
      BY <2>2, <2>3, <3>1, <3>2, StartsAppend
  <2> QED
    BY <2>1, <2>4, <2>5 DEF Rests
<1>3. ASSUME NEW s \in Scenario, IngestScenario(s)
      PROVE  Rests(graph'.observations, finding', scenario')
  <2>1. graph'.observations \in Evidence[s] /\ finding' = s /\ scenario' = s
    BY <1>3, ScenarioEvents, RebuiltReplayed DEF IngestScenario, ScenarioGraph
  <2> QED
    BY <2>1, ScenarioEvidence
<1>4. CASE SaveScenarioId
  <2>1. pc = "meta" /\ UNCHANGED <<graph, finding, scenario>>
    BY <1>4 DEF SaveScenarioId
  <2>2. scenario \in Scenario /\ finding = scenario /\ graph.observations \in Evidence[scenario]
    BY <2>1 DEF StoreInv, Rewriting
  <2>3. Rests(graph.observations, finding, scenario)
    BY <2>2, ScenarioEvidence
  <2> QED
    BY <2>1, <2>3
<1>5. CASE Clear
  <2>1. /\ pc \in {"clear_meta", "clear_observations", "clear_finding"}
        /\ UNCHANGED <<finding, scenario>>
    BY <1>5 DEF Clear, ClearTable
  <2>2. finding' = None /\ scenario' = None
    BY <2>1 DEF StoreInv, Clearing
  <2> QED
    BY <2>2, NoEvidence
<1>6. CASE Reset \/ RestartUnread \/ \E s \in Scenario : IngestUndetected(s)
  <2>1. finding' = None
    BY <1>6 DEF Reset, RestartUnread, IngestUndetected
  <2> QED
    BY <2>1, NoEvidence
<1>7. CASE Restart \/ RestartNoScenario
  <2>1. /\ graph' = IngestMany(EmptyGraph, db.observations)
        /\ finding' = db.finding /\ scenario' \in {db.scenario, None}
        /\ ~torn /\ ~lag /\ ~HalfWritten
    BY <1>7 DEF Restart, RestartNoScenario, NewProcess, LoadedRows
  <2>2. db.observations \in Seq(Observation)
    BY DEF Typed, TablesOK, Tables
  <2>3. graph'.observations = db.observations
    BY <2>1, <2>2, RebuiltReplayed
  <2>4. Rests(db.observations, db.finding, db.scenario)
    BY <2>1 DEF AlertInv
  <2> QED
    BY <2>1, <2>3, <2>4 DEF Rests
<1>8. \/ UNCHANGED <<graph, finding, scenario, torn, apart>> \/ IngestOne
      \/ (\E s \in Scenario : IngestScenario(s))
      \/ SaveScenarioId \/ Clear \/ Restart \/ RestartNoScenario
      \/ (Reset \/ RestartUnread \/ \E s \in Scenario : IngestUndetected(s))
  BY DEF Next, vars, Post, Refuse, PersistObservation, SealObservation, ScenarioFails,
         SaveObservations, SaveRefused, SaveFinding, SaveTable, ClearFails
<1> QED
  BY <1>1, <1>2, <1>3, <1>4, <1>5, <1>6, <1>7, <1>8

\* Every step keeps the alert in the tables on its evidence.
LEMMA TableAlertStep ==
  ASSUME Typed, StoreInv, AlertInv, [Next]_vars, ~torn', ~lag', ~HalfWritten'
  PROVE  Rests(db'.observations, db'.finding, db'.scenario)
<1>0. /\ db \in Tables /\ view \in Tables
      /\ db.observations \in Seq(Observation) /\ db.finding \in Scenario \cup {None}
  BY DEF Typed, TablesOK, Tables
<1>1. CASE UNCHANGED <<db, torn, lag>> /\ ~HalfWritten
  BY <1>1 DEF AlertInv
<1>2. CASE PersistObservation
  <2>1. /\ pc = "persist" /\ UNCHANGED <<torn, lag>>
        /\ Commit(WithRows(view, Upserted(view.observations, Head(todo))))
    BY <1>2 DEF PersistObservation, WriteFails
  <2>2. view = db
    BY <2>1 DEF StoreInv
  <2>3. /\ db'.observations = Upserted(db.observations, Head(todo))
        /\ db'.finding = db.finding /\ db'.scenario = db.scenario
    BY <1>0, <2>1, <2>2 DEF Commit, WithRows, Tables
  <2>4. Rests(db.observations, db.finding, db.scenario)
    BY <2>1 DEF AlertInv, HalfWritten
  <2>5. Head(todo) \in Observation
    BY <2>1, HeadOK DEF AtHand, Typed
  <2>6. ASSUME db.finding # None
        PROVE  \E e \in Evidence[db.finding] : Starts(e, db'.observations)
    <3>1. PICK e \in Evidence[db.finding] : Starts(e, db.observations)
      BY <2>4, <2>6 DEF Rests
    <3>2. e \in Seq(Observation)
      BY <1>0, <2>6, ScenarioEvents
    <3> QED
      BY <1>0, <2>3, <2>5, <3>1, <3>2, StartsUpserted
  <2> QED
    BY <2>3, <2>4, <2>6 DEF Rests
<1>3. CASE SaveScenarioId
  <2>1. /\ pc = "meta"
        /\ Commit([view EXCEPT !.scenario = scenario]) /\ ~ (lag /\ ~whole)
    BY <1>3 DEF SaveScenarioId, WriteFails
  <2>2. whole /\ view = db
    BY <2>1 DEF StoreInv, Rewriting
  <2>3. /\ scenario \in Scenario /\ finding = scenario
        /\ graph.observations \in Evidence[scenario]
        /\ db.observations = graph.observations /\ db.finding = finding
    BY <2>1, <2>2 DEF StoreInv, Rewriting
  <2>4. /\ db'.observations = graph.observations
        /\ db'.finding = scenario /\ db'.scenario = scenario
    BY <1>0, <2>1, <2>2, <2>3 DEF Commit, Tables
  <2> QED
    BY <2>3, <2>4, ScenarioEvidence
<1>4. CASE Clear
  <2>1. ClearTable("clear_finding", "idle", [view EXCEPT !.finding = None])
    BY <1>4 DEF Clear, ClearTable, HalfWritten
  <2>2. view = db /\ db.scenario = None
    BY <2>1 DEF ClearTable, StoreInv, Clearing
  <2>3. db'.finding = None /\ db'.scenario = None
    BY <1>0, <2>1, <2>2 DEF ClearTable, Commit, Tables
  <2> QED
    BY <2>3, NoEvidence
<1>5. CASE Restart \/ RestartNoScenario \/ RestartUnread
  <2>1. db' = db /\ ~torn /\ ~lag /\ ~HalfWritten
    BY <1>5 DEF Restart, RestartNoScenario, RestartUnread, NewProcess
  <2> QED
    BY <2>1 DEF AlertInv
<1>6. \/ UNCHANGED <<db, torn, lag>> /\ ~HalfWritten
      \/ PersistObservation \/ SaveScenarioId \/ Clear
      \/ Restart \/ RestartNoScenario \/ RestartUnread
  BY DEF Next, vars, HalfWritten, Idle, Post, IngestOne, Refuse, SealObservation,
         IngestScenario, IngestUndetected, ScenarioFails, SaveObservations, SaveRefused,
         SaveFinding, SaveTable, Reset, ClearFails
<1> QED
  BY <1>1, <1>2, <1>3, <1>4, <1>5, <1>6

\* Both always hold.
LEMMA AlertAlways == Spec => [](Typed /\ StoreInv /\ AlertInv)
<1>1. Init => Typed /\ StoreInv /\ AlertInv
  <2>1. Init => AlertInv
    BY NoEvidence DEF Init, EmptyTables, AlertInv
  <2> QED
    BY <2>1, TypedInit, StoreInit
<1>2. Typed /\ StoreInv /\ AlertInv /\ [Next]_vars => (Typed /\ StoreInv /\ AlertInv)'
  <2> SUFFICES ASSUME Typed, StoreInv, AlertInv, [Next]_vars
               PROVE  (Typed /\ StoreInv /\ AlertInv)'
    OBVIOUS
  <2>1. AlertInv'
    BY MemoryAlertStep, TableAlertStep DEF AlertInv
  <2> QED
    BY <2>1, TypedStep, StoreStep
<1> QED
  BY <1>1, <1>2, PTL DEF Spec

\* The alert in memory rests on the observations of its scenario, also after a
\* start that could read only part, unless a scenario raised over it or a restart
\* loaded tables of more than one picture (c2_server.py:414-425).
THEOREM AlertRests == Spec => []AlertHasEvidence
<1>1. Typed /\ AlertInv => AlertHasEvidence
  <2> SUFFICES ASSUME Typed, AlertInv, ~torn, apart # "alert", finding # None
               PROVE  /\ scenario \in {finding, None}
                      /\ \E events \in Evidence[finding] :
                           IsPrefix(Ids(events), Ids(graph.observations))
    BY DEF AlertHasEvidence
  <2>1. Rests(graph.observations, finding, scenario)
    BY DEF AlertInv
  <2>2. PICK e \in Evidence[finding] : Starts(e, graph.observations)
    BY <2>1 DEF Rests
  <2>3. e \in Seq(Observation) /\ graph.observations \in Seq(Observation)
    BY ScenarioEvents DEF Typed, TablesOK, Replayed
  <2>4. IsPrefix(Ids(e), Ids(graph.observations))
    BY <2>2, <2>3, StartsPrefix
  <2> QED
    BY <2>1, <2>4 DEF Rests
<1>2. Spec => [](Typed /\ StoreInv /\ AlertInv)
  BY AlertAlways
<1> QED
  BY <1>1, <1>2, PTL

-----------------------------------------------------------------------------
(* A restart.                                                              *)

\* If no id came twice, the rows are the observations.
LEMMA FollowsEqual ==
  ASSUME NEW rows \in Seq(Observation), NEW o \in Seq(Observation), Follows(rows, o),
         IsInjective(Ids(o))
  PROVE  rows = o
<1>1. PICK n \in Nat : n = Len(o)
  OBVIOUS
<1>2. FirstOf(o) = 1 .. n /\ \A i \in 1 .. n : NewestOf(o, o[i].observation_id) = o[i]
  BY <1>1, DistinctFirst
<1>3. /\ Len(rows) = Cardinality(FirstOf(o))
      /\ \A i \in FirstOf(o) :
           rows[Cardinality({j \in FirstOf(o) : j <= i})] = NewestOf(o, o[i].observation_id)
  BY FollowsCounts
<1>4. Len(rows) = n
  BY <1>2, <1>3, FS_Interval
<1>5. ASSUME NEW i \in 1 .. n PROVE rows[i] = o[i]
  <2>1. {j \in FirstOf(o) : j <= i} = 1 .. i
    BY <1>2
  <2>2. Cardinality(1 .. i) = i
    BY FS_Interval
  <2> QED
    BY <1>2, <1>3, <2>1, <2>2
<1> QED
  BY <1>1, <1>4, <1>5, SeqEqual

\* A restart between two requests keeps the alert, the scenario and the newest
\* observation of each id, and if no id came twice the whole map, as long as no
\* write has failed and memory has not gone apart from the tables
\* (c2_server.py:251).
THEOREM RestartKeeps == Spec => SurvivesRestart
<1>1. ASSUME Typed, StoreInv, Idle, ~lag, apart = "no", Restart
      PROVE  /\ UNCHANGED <<finding, scenario>>
             /\ NewestRows(graph'.observations, graph.observations)
             /\ IsInjective(Ids(graph.observations)) => UNCHANGED graph
  <2>1. Stored
    BY <1>1 DEF Idle, StoreInv
  <2>2. db.observations \in Seq(Observation) /\ graph.observations \in Seq(Observation)
    BY <1>1 DEF Typed, TablesOK, Tables, Replayed
  <2>3. graph' = IngestMany(EmptyGraph, db.observations)
    BY <1>1 DEF Restart, LoadedRows
  <2>4. graph'.observations = db.observations
    BY <2>2, <2>3, RebuiltReplayed
  <2>5. NewestRows(db.observations, graph.observations)
    BY <2>1, <2>2, FollowsCounts DEF Stored, NewestRows
  <2>6. ASSUME IsInjective(Ids(graph.observations)) PROVE graph' = graph
    <3>1. db.observations = graph.observations
      BY <2>1, <2>2, <2>6, FollowsEqual DEF Stored
    <3> QED
      BY <1>1, <2>3, <3>1 DEF Typed, Replayed
  <2> QED
    BY <1>1, <2>1, <2>4, <2>5, <2>6 DEF Restart, Stored
<1>2. Typed /\ StoreInv /\ [Next]_vars =>
        [ Idle /\ ~lag /\ apart = "no" /\ Restart
          => /\ UNCHANGED <<finding, scenario>>
             /\ NewestRows(graph'.observations, graph.observations)
             /\ IsInjective(Ids(graph.observations)) => UNCHANGED graph ]_vars
  BY <1>1
<1>3. Spec => [](Typed /\ StoreInv)
  BY StoreAlways
<1> QED
  BY <1>2, <1>3, PTL DEF Spec, SurvivesRestart

\* A crash while a request is ingested.
LosesAtMostOne ==
  /\ pc \in {"idle", "ingest", "persist", "seal"} /\ ~lag /\ apart = "no"
  /\ IsInjective(Ids(graph.observations))
  /\ Restart
  => \/ graph' = graph
     \/ pc = "persist" /\ graph.observations = Append(graph'.observations, Head(todo))

\* A list whose ids differ without its last element.
LEMMA DistinctFront ==
  ASSUME NEW o \in Seq(Observation), NEW x \in Observation, IsInjective(Ids(Append(o, x)))
  PROVE  IsInjective(Ids(o))
<1>1. PICK n \in Nat : n = Len(o)
  OBVIOUS
<1>2. PICK p : p = Append(o, x)
  OBVIOUS
<1>3. p \in Seq(Observation) /\ Len(p) = n + 1 /\ \A i \in 1 .. n : p[i] = o[i]
  BY <1>1, <1>2, AppendFacts
<1>4. \A i, j \in 1 .. (n + 1) : p[i].observation_id = p[j].observation_id => i = j
  BY <1>2, <1>3, IdsDiffer
<1>5. \A i \in 1 .. n : i \in 1 .. (n + 1)
  OBVIOUS
<1>6. \A i, j \in 1 .. n : o[i].observation_id = o[j].observation_id => i = j
  BY <1>3, <1>4, <1>5
<1> QED
  BY <1>1, <1>6, IdsDiffer

\* A crash in the middle of a request, before which no write failed, no id came
\* twice and memory did not go apart from the tables, costs the observation that
\* was ingested and not yet saved, or nothing (c2_server.py:582-598, upsert_observation).
THEOREM CrashLosesOne == Spec => [][LosesAtMostOne]_vars
<1>1. ASSUME Typed, StoreInv, pc \in {"idle", "ingest", "persist", "seal"}, ~lag, apart = "no",
             IsInjective(Ids(graph.observations)), Restart
      PROVE  \/ graph' = graph
             \/ pc = "persist" /\ graph.observations = Append(graph'.observations, Head(todo))
  <2>1. db.observations \in Seq(Observation) /\ graph.observations \in Seq(Observation)
    BY <1>1 DEF Typed, TablesOK, Tables, Replayed
  <2>2. graph' = IngestMany(EmptyGraph, db.observations)
    BY <1>1 DEF Restart, LoadedRows
  <2>3. CASE pc # "persist"
    <3>1. Stored
      BY <1>1, <2>3 DEF StoreInv
    <3>2. db.observations = graph.observations
      BY <1>1, <2>1, <3>1, FollowsEqual DEF Stored
    <3> QED
      BY <1>1, <2>2, <3>2 DEF Typed, Replayed
  <2>4. CASE pc = "persist"
    <3>1. StoredButOne
      BY <1>1, <2>4 DEF StoreInv
    <3>2. PICK o \in Seq(Observation) :
            graph.observations = Append(o, Head(todo)) /\ Follows(db.observations, o)
      BY <3>1 DEF StoredButOne
    <3>3. Head(todo) \in Observation
      BY <1>1, <2>4, HeadOK DEF AtHand, Typed
    <3>4. IsInjective(Ids(o))
      BY <1>1, <3>2, <3>3, DistinctFront
    <3>5. db.observations = o
      BY <2>1, <3>2, <3>4, FollowsEqual
    <3>6. graph'.observations = db.observations
      BY <2>1, <2>2, RebuiltReplayed
    <3> QED
      BY <2>4, <3>2, <3>5, <3>6
  <2> QED
    BY <2>3, <2>4
<1>2. Typed /\ StoreInv /\ [Next]_vars => [LosesAtMostOne]_vars
  BY <1>1 DEF LosesAtMostOne
<1>3. Spec => [](Typed /\ StoreInv)
  BY StoreAlways
<1> QED
  BY <1>2, <1>3, PTL DEF Spec
=============================================================================
