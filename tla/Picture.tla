-------------------------------- MODULE Picture --------------------------------
(***************************************************************************)
(* The tactical picture of the C2 server: the observations that the        *)
(* ingress endpoints, the verify page and the scenarios put into the       *)
(* entity graph, their fusion into tracks, the alert of the last scenario, *)
(* and the SQLite tables a restarted process rebuilds all of it from.      *)
(*                                                                         *)
(* The handlers run on one event loop and await nothing, so that no two of *)
(* them interleave.  Each of them is still several steps: the process can  *)
(* end between two commits, every write to SQLite can fail (it is logged   *)
(* and the handler goes on) and the append to the audit trail can raise.   *)
(*                                                                         *)
(* A place is a point on a line and a clock reading a number.  A SAR       *)
(* contact is dead-reckoned with one speed, Drift; the ellipse around it   *)
(* is an interval, whose width Envelope gives for each age.                *)
(***************************************************************************)
EXTENDS Integers, FiniteSets, SequencesExt

CONSTANTS
  Name,             \* entity names and source ids
  Feed,             \* the observations the adapters make of a payload
  Bad,              \* a payload they refuse
  Posts,            \* the lists of payloads a request may carry
  Scenario,
  Events,           \* the lists of observations a scenario may build
  Evidence,         \* the ones in which it detects something
  None,
  Radius,           \* associate_radius_m
  Drift,            \* the way of a SAR contact in a unit of time
  MaxAge,           \* MAX_DT_SEC
  Envelope,         \* the tolerance at each age
  MaxObservations,  \* bound: observations in memory
  MaxFaults         \* bound: reads and writes of SQLite that fail

Caller == {"api", "verify", "reload"}

ASSUME PictureAssumption ==
  /\ Posts \subseteq Seq(Feed \cup {Bad})
  /\ Events \in [Scenario -> SUBSET Seq(Feed)]
  /\ Evidence \in [Scenario -> SUBSET Seq(Feed)]
  /\ \A s \in Scenario : Evidence[s] \subseteq Events[s]
  /\ Bad \notin Feed /\ None \notin Scenario \cup Name \cup Caller
  /\ Radius \in Nat /\ Drift \in Int /\ MaxAge \in Nat /\ Envelope \in [0..MaxAge -> Nat]
  /\ MaxObservations \in Nat /\ MaxFaults \in Nat

VARIABLES
  graph,      \* C2Runtime.graph, with the history `home': where each one went
  finding,    \* C2Runtime.finding, by its scenario
  scenario,   \* C2Runtime.scenario_id
  db,         \* the committed tables
  view,       \* the tables as the connection sees them: an open transaction
  pc,         \* the next step of the handler that runs
  caller,     \* the endpoint it belongs to
  todo,       \* the payloads it has yet to take
  whole,      \* history: no write of the current rewrite has failed
  lag,        \* history: a write failed, and no rewrite or restart came since
  apart,      \* history: though no write failed, "memory" is apart from the tables
              \* (a scenario found nothing, a start could not read), or the "alert"
              \* from the graph as well (a scenario raised), or neither ("no")
  torn,       \* history: the tables are of more than one picture
  faults      \* bound: how many reads and writes of SQLite have failed

vars == <<graph, finding, scenario, db, view, pc, caller, todo, whole, lag, apart, torn, faults>>

--------------------------------------------------------------------------------
(* Observations and tracks *)

Observation ==
  [observation_id : Nat, source_id : Name, entity_hint : Name \cup {None},
   place : Int, at : Nat, confidence : Nat, modality : {"ais", "radar", "space_sar"}]

Ids(observations) == [i \in DOMAIN observations |-> observations[i].observation_id]

\* Nothing is said of the ids: a feed, a fixture or an export may name them.
ASSUME ObservationAssumption == Feed \subseteq Observation

Track ==
  [track_id : Name, place : Int, confidence : Nat, source_ids : SUBSET Name,
   modalities : SUBSET {"ais", "radar", "space_sar"}, observation_ids : Seq(Nat)]

\* Mutant: the source id is not asked for.
Key_HintOnly(o) == o.entity_hint

\* The name an observation goes by.
Key(o) == IF o.entity_hint # None THEN o.entity_hint ELSE o.source_id

Distance(p, q) == IF p < q THEN q - p ELSE p - q

\* How far the radar contact is from where the SAR contact was, or will be, at
\* the time of the radar contact.
Separation(a, b) ==
  LET sar   == IF a.modality = "space_sar" THEN a ELSE b
      radar == IF a.modality = "space_sar" THEN b ELSE a
  IN  Distance(sar.place + Drift * (radar.at - sar.at), radar.place)

AssociateKinematically(a, b) ==
  LET age == Distance(a.at, b.at)
  IN  /\ {a.modality, b.modality} = {"space_sar", "radar"}
      /\ age <= MaxAge
      /\ Separation(a, b) <= Envelope[age]

\* By the static radius, else by the first observation of the track that the
\* dead-reckoning envelope associates.
AssociationDistance(o, observations, t) ==
  LET d  == Distance(o.place, t.place)
      by == {k \in DOMAIN observations :
               /\ observations[k].observation_id \in ToSet(t.observation_ids)
               /\ AssociateKinematically(o, observations[k])}
  IN  IF d <= Radius THEN d
      ELSE IF by = {} THEN None ELSE Separation(o, observations[Min(by)])

\* The position of the track an observation belongs to, 0 if there is none: the
\* track of its name, else the closest one, the oldest of equals.
FindNearby(o, observations, tracks) ==
  LET named == {i \in DOMAIN tracks : tracks[i].track_id = Key(o)}
      d     == [i \in DOMAIN tracks |-> AssociationDistance(o, observations, tracks[i])]
      near  == {i \in DOMAIN tracks : d[i] # None}
  IN  IF named # {} THEN Min(named)
      ELSE IF near = {} THEN 0
      ELSE Min({i \in near : \A j \in near : d[i] <= d[j]})

NewTrack(o) ==
  [track_id |-> Key(o), place |-> o.place, confidence |-> o.confidence,
   source_ids |-> {o.source_id}, modalities |-> {o.modality},
   observation_ids |-> <<o.observation_id>>]

\* Mutant: an equal confidence does not move the track.
Stronger_Strictly(o, t) == o.confidence > t.confidence

\* The observation that decides where a track is.
Stronger(o, t) == o.confidence >= t.confidence

Merged(t, o) ==
  [track_id        |-> t.track_id,
   place           |-> IF Stronger(o, t) THEN o.place ELSE t.place,
   confidence      |-> IF Stronger(o, t) THEN o.confidence ELSE t.confidence,
   source_ids      |-> t.source_ids \cup {o.source_id},
   modalities      |-> t.modalities \cup {o.modality},
   observation_ids |-> Append(t.observation_ids, o.observation_id)]

Ingest(g, o) ==
  LET observations == Append(g.observations, o)
      t == FindNearby(o, observations, g.tracks)
  IN  IF t = 0
      THEN [observations |-> observations, tracks |-> Append(g.tracks, NewTrack(o)),
            home |-> Append(g.home, Key(o))]
      ELSE [observations |-> observations,
            tracks |-> [g.tracks EXCEPT ![t] = Merged(@, o)],
            home |-> Append(g.home, g.tracks[t].track_id)]

EmptyGraph == [observations |-> <<>>, tracks |-> <<>>, home |-> <<>>]

IngestMany(g, observations) ==
  LET after[n \in 0 .. Len(observations)] ==
        IF n = 0 THEN g ELSE Ingest(after[n - 1], observations[n])
  IN  after[Len(observations)]

--------------------------------------------------------------------------------
(* The tables *)

EmptyTables == [observations |-> <<>>, finding |-> None, scenario |-> None]

WithRows(t, rows) == [t EXCEPT !.observations = rows]

\* Mutant: INSERT OR IGNORE.
Upserted_Ignored(rows, o) ==
  IF o.observation_id \in ToSet(Ids(rows)) THEN rows ELSE Append(rows, o)

\* INSERT ... ON CONFLICT DO UPDATE: a row stays where it is.
Upserted(rows, o) ==
  LET at == {i \in DOMAIN rows : rows[i].observation_id = o.observation_id}
  IN  IF at = {} THEN Append(rows, o) ELSE [rows EXCEPT ![Min(at)] = o]

\* Mutant: ORDER BY rowid DESC.
LoadedRows_Newest(rows) == Reverse(rows)

\* SELECT payload FROM observations: in the order of the rows.
LoadedRows(rows) == rows

\* The write arrives and is committed, with what was open before it.
Commit(tables) == view' = tables /\ db' = tables /\ UNCHANGED faults

\* A read or a write of SQLite fails, within the bound.
Fault == faults < MaxFaults /\ faults' = faults + 1

\* sqlite3.Error in a write: nothing is committed.  The transaction stays open
\* with the statements that were executed, or SQLite rolled it back.
WriteFails(partial) ==
  /\ view' \in partial \cup {view, db}
  /\ lag' = TRUE
  /\ Fault
  /\ UNCHANGED db

--------------------------------------------------------------------------------
Init ==
  /\ graph = EmptyGraph /\ finding = None /\ scenario = None
  /\ db = EmptyTables /\ view = EmptyTables
  /\ pc = "idle" /\ caller = None /\ todo = <<>>
  /\ whole = TRUE /\ lag = FALSE /\ apart = "no" /\ torn = FALSE /\ faults = 0

Idle == pc = "idle"

Answer == pc' = "idle" /\ caller' = None /\ todo' = <<>>

\* On to the next payload, or to the answer.
Advance ==
  IF Len(todo) = 1 THEN Answer
  ELSE todo' = Tail(todo) /\ pc' = "ingest" /\ UNCHANGED caller

\* A request to candidate-event or open-feed ("api": each observation is
\* sealed), to the verify page, or its reload of recorded rows.
Post(c, payloads) ==
  /\ Idle
  /\ payloads # <<>>
  /\ Len(graph.observations) + Len(payloads) <= MaxObservations
  /\ pc' = "ingest" /\ caller' = c /\ todo' = payloads
  /\ UNCHANGED <<graph, finding, scenario, db, view, whole, lag, apart, torn, faults>>

IngestOne ==
  /\ pc = "ingest" /\ Head(todo) # Bad
  /\ graph' = Ingest(graph, Head(todo))
  /\ pc' = "persist"
  /\ UNCHANGED <<finding, scenario, db, view, caller, todo, whole, lag, apart, torn, faults>>

\* ValueError: the reload skips the row, any other request ends, and what it has
\* ingested stays.
Refuse ==
  /\ pc = "ingest" /\ Head(todo) = Bad
  /\ IF caller = "reload" THEN Advance ELSE Answer
  /\ UNCHANGED <<graph, finding, scenario, db, view, whole, lag, apart, torn, faults>>

PersistObservation ==
  LET after == WithRows(view, Upserted(view.observations, Head(todo)))
  IN  /\ pc = "persist"
      /\ (Commit(after) /\ UNCHANGED lag) \/ WriteFails({after})
      /\ IF caller = "api" THEN pc' = "seal" /\ UNCHANGED <<caller, todo>> ELSE Advance
      /\ UNCHANGED <<graph, finding, scenario, whole, apart, torn>>

\* audit.append; an OSError of it ends the request.
SealObservation ==
  /\ pc = "seal"
  /\ Advance \/ Answer
  /\ UNCHANGED <<graph, finding, scenario, db, view, whole, lag, apart, torn, faults>>

--------------------------------------------------------------------------------
(* A scenario replaces the picture *)

\* Mutant: the scenario goes on from the graph that is there.
ScenarioGraph_Kept(events) == IngestMany(graph, events)

ScenarioGraph(events) == IngestMany(EmptyGraph, events)

IngestScenario(s) ==
  /\ Idle
  /\ \E events \in Evidence[s] : graph' = ScenarioGraph(events)
  /\ scenario' = s /\ finding' = s
  /\ pc' = "observations" /\ whole' = TRUE /\ apart' = "no"
  /\ UNCHANGED <<db, view, caller, todo, lag, torn, faults>>

\* Nothing is detected: memory is the scenario without an alert, and the 404
\* leaves the tables as they are.
IngestUndetected(s) ==
  /\ Idle
  /\ \E events \in Events[s] \ Evidence[s] : graph' = ScenarioGraph(events)
  /\ scenario' = s /\ finding' = None
  /\ apart' = "memory"
  /\ UNCHANGED <<db, view, pc, caller, todo, whole, lag, torn, faults>>

\* The export cannot be read or normalized once the graph is a new one, or
\* detect raises once it is filled.  The alert is the one from before.
ScenarioFails(s) ==
  /\ Idle
  /\ \/ graph' = EmptyGraph /\ UNCHANGED scenario
     \/ (\E events \in Events[s] : graph' = ScenarioGraph(events)) /\ scenario' = s
  /\ apart' = "alert"
  /\ UNCHANGED <<finding, db, view, pc, caller, todo, whole, lag, torn, faults>>

\* One table of persist_picture; `partial' are the states in which its failing
\* write can leave the transaction.
SaveTable(table, next, after, partial) ==
  /\ pc = table /\ pc' = next
  /\ \/ Commit(after) /\ UNCHANGED <<whole, lag>>
     \/ WriteFails(partial) /\ whole' = FALSE
  /\ UNCHANGED <<graph, finding, scenario, caller, todo, apart, torn>>

\* The rows that plain INSERTs can write: up to the first id that is there.
Insertable(observations) ==
  {SubSeq(observations, 1, n) :
     n \in {k \in 0..Len(observations) : IsInjective(Ids(SubSeq(observations, 1, k)))}}

SaveObservations ==
  /\ IsInjective(Ids(graph.observations))
  /\ SaveTable("observations", "finding", WithRows(view, graph.observations),
               {WithRows(view, rows) : rows \in Insertable(graph.observations)})

\* The scenario names an id twice.  The INSERT is refused, and the rows before it
\* wait in the transaction, if no error came first.
SaveRefused ==
  LET able == Insertable(graph.observations)
  IN  /\ pc = "observations" /\ pc' = "finding"
      /\ ~IsInjective(Ids(graph.observations))
      /\ \/ /\ \E rows \in able : /\ \A other \in able : Len(other) <= Len(rows)
                                   /\ view' = WithRows(view, rows)
            /\ lag' = TRUE
            /\ UNCHANGED <<db, faults>>
         \/ WriteFails({WithRows(view, rows) : rows \in able})
      /\ whole' = FALSE
      /\ UNCHANGED <<graph, finding, scenario, caller, todo, apart, torn>>

SaveFinding ==
  SaveTable("finding", "meta", [view EXCEPT !.finding = finding],
            {[view EXCEPT !.finding = f] : f \in {None, finding}})

\* The last one: if all three were written, the tables are the picture.
SaveScenarioId ==
  LET after == [view EXCEPT !.scenario = scenario]
  IN  /\ pc = "meta" /\ pc' = "idle"
      /\ \/ Commit(after) /\ lag' = (lag /\ ~whole) /\ torn' = (torn /\ ~whole)
         \/ WriteFails({after}) /\ UNCHANGED torn
      /\ whole' = TRUE
      /\ UNCHANGED <<graph, finding, scenario, caller, todo, apart>>

--------------------------------------------------------------------------------
(* Reset: memory, then one table after the other, each committed by itself *)

Reset ==
  /\ Idle
  /\ graph' = EmptyGraph /\ finding' = None /\ scenario' = None
  /\ pc' = "clear_meta" /\ apart' = "no"
  /\ UNCHANGED <<db, view, caller, todo, whole, lag, torn, faults>>

ClearTable(table, next, after) ==
  /\ pc = table /\ pc' = next
  /\ Commit(after)
  /\ lag' = (lag /\ next # "idle") /\ torn' = (torn /\ next # "idle")
  /\ UNCHANGED <<graph, finding, scenario, caller, todo, whole, apart>>

Clear ==
  \/ ClearTable("clear_meta", "clear_observations", [view EXCEPT !.scenario = None])
  \/ ClearTable("clear_observations", "clear_finding", WithRows(view, <<>>))
  \/ ClearTable("clear_finding", "idle", [view EXCEPT !.finding = None])

\* executescript commits what was open, unless that is what fails; the tables
\* after the one that failed are left as they are.
ClearFails ==
  /\ pc \in {"clear_meta", "clear_observations", "clear_finding"}
  /\ pc' = "idle" /\ lag' = TRUE /\ Fault
  /\ db' \in {db, view}
  /\ UNCHANGED <<graph, finding, scenario, view, caller, todo, whole, apart, torn>>

--------------------------------------------------------------------------------
(* The process ends at any point, and another one starts *)

\* Part of a rewrite is committed.
HalfWritten == pc \in {"finding", "meta", "clear_observations", "clear_finding"}

\* A new process opens the tables as they were committed.
NewProcess ==
  /\ view' = db /\ Answer
  /\ whole' = TRUE /\ lag' = FALSE /\ torn' = (torn \/ lag \/ HalfWritten)
  /\ UNCHANGED db

\* _hydrate_from_store: what was committed is ingested again.
Restart ==
  /\ NewProcess
  /\ graph' = IngestMany(EmptyGraph, LoadedRows(db.observations))
  /\ finding' = db.finding /\ scenario' = db.scenario
  /\ apart' = "no"
  /\ UNCHANGED faults

\* get_meta answers None on an error of its own, and the rest is loaded.
RestartNoScenario ==
  /\ NewProcess
  /\ graph' = IngestMany(EmptyGraph, LoadedRows(db.observations))
  /\ finding' = db.finding /\ scenario' = None
  /\ apart' = "memory"
  /\ Fault

\* load_all returns the empty picture on any error of its other reads.
RestartUnread ==
  /\ NewProcess
  /\ graph' = EmptyGraph /\ finding' = None /\ scenario' = None
  /\ apart' = "memory"
  /\ Fault

--------------------------------------------------------------------------------
Next ==
  \/ \E c \in Caller, payloads \in Posts : Post(c, payloads)
  \/ IngestOne \/ Refuse \/ PersistObservation \/ SealObservation
  \/ \E s \in Scenario : IngestScenario(s) \/ IngestUndetected(s) \/ ScenarioFails(s)
  \/ SaveObservations \/ SaveRefused \/ SaveFinding \/ SaveScenarioId
  \/ Reset \/ Clear \/ ClearFails
  \/ Restart \/ RestartNoScenario \/ RestartUnread

Spec == Init /\ [][Next]_vars

--------------------------------------------------------------------------------
(* Properties *)

Tables ==
  [observations : Seq(Observation), finding : Scenario \cup {None},
   scenario : Scenario \cup {None}]

\* The graph, the tables and the handler's locals have their types: a track has
\* a name even if its observations carry no entity hint (ontology.py:54), and
\* a handler has a payload at hand while it ingests, saves and seals one.
TypeOK ==
  /\ graph.observations \in Seq(Observation)
  /\ graph.tracks \in Seq(Track)
  /\ graph.home \in Seq(Name)
  /\ finding \in Scenario \cup {None} /\ scenario \in Scenario \cup {None}
  /\ db \in Tables /\ view \in Tables
  /\ pc \in {"idle", "ingest", "persist", "seal", "observations", "finding", "meta",
             "clear_meta", "clear_observations", "clear_finding"}
  /\ caller \in Caller \cup {None}
  /\ todo \in Seq(Feed \cup {Bad})
  /\ todo # <<>> <=> pc \in {"ingest", "persist", "seal"}
  /\ caller # None <=> todo # <<>>
  /\ whole \in BOOLEAN /\ lag \in BOOLEAN /\ torn \in BOOLEAN
  /\ apart \in {"no", "memory", "alert"}
  /\ faults \in 0..MaxFaults

\* SpatialEntityGraph.ingest folds observations one at a time into whatever
\* tracks are there.  The outcome is that of a fusion of all of them at once:
\* every observation is in one track, a track has the sources, modalities and
\* ids of its observations, the greatest confidence among them and the place of
\* the last that had it; and once a track bears a name, each observation of
\* that name goes there, whatever else is closer.
Fused ==
  LET o == graph.observations
      Members(t) == {i \in DOMAIN o : graph.home[i] = t.track_id}
  IN  /\ Len(graph.home) = Len(o)
      /\ \A i \in DOMAIN o : \E t \in ToSet(graph.tracks) : graph.home[i] = t.track_id
      /\ IsInjective([i \in DOMAIN graph.tracks |-> graph.tracks[i].track_id])
      /\ \A t \in ToSet(graph.tracks) :
           LET m    == Members(t)
               best == {i \in m : \A j \in m : o[j].confidence <= o[i].confidence}
           IN  /\ m # {}
               /\ t.confidence = o[Max(best)].confidence
               /\ t.place = o[Max(best)].place
               /\ t.source_ids = {o[i].source_id : i \in m}
               /\ t.modalities = {o[i].modality : i \in m}
               /\ Len(t.observation_ids) = Cardinality(m)
               /\ ToSet(t.observation_ids) = {o[i].observation_id : i \in m}
      /\ \A i, j \in DOMAIN o :
           i < j /\ graph.home[i] = Key(o[j]) => graph.home[j] = Key(o[j])

\* The rows are the newest observation of each id, once, in the order in which
\* the ids came.
FirstOf(o) == {i \in DOMAIN o : \A j \in 1..(i - 1) : o[j].observation_id # o[i].observation_id}
NewestOf(o, id) == o[Max({i \in DOMAIN o : o[i].observation_id = id})]

NewestRows(rows, o) ==
  /\ Len(rows) = Cardinality(FirstOf(o))
  /\ \A i \in FirstOf(o) :
       rows[Cardinality({j \in FirstOf(o) : j <= i})] = NewestOf(o, o[i].observation_id)

TablesHoldPicture ==
  /\ NewestRows(db.observations, graph.observations)
  /\ db.finding = finding /\ db.scenario = scenario

\* Between two requests SQLite holds the picture in memory, and nothing waits for
\* a commit, unless a write has failed, or a scenario or a start has left memory
\* apart.  It holds after refused payloads, failed seals, resets, scenarios,
\* feeds that post an id again, and crashes at any point (c2_server.py:267-274,
\* runtime_store.py:125-169).
StoreFollows == Idle /\ ~lag /\ apart = "no" => view = db /\ TablesHoldPicture

\* The alert on the map rests on observations that are there: they are the ones
\* of its scenario, in their order, before anything that was posted later, also
\* after a restart, whatever it could read.  What takes that away is a scenario
\* that raises after the graph is a new one, until the next scenario, reset or
\* restart, and a restart from tables that a failed write or a crash between the
\* commits of persist_picture or clear has left of two pictures, until the next
\* scenario or reset (c2_server.py:414-425, runtime_store.py:115-123).
AlertHasEvidence ==
  ~torn /\ apart # "alert" /\ finding # None =>
    /\ scenario \in {finding, None}
    /\ \E events \in Evidence[finding] : IsPrefix(Ids(events), Ids(graph.observations))

\* A restart between two requests that can read the tables changes nothing on the
\* map but for ids that came twice, of which the newest observation stays; if
\* none did, the tracks, their names and places are the same, as the observations
\* alone, in their order, rebuild them (c2_server.py:251).  The premises are the
\* ones of StoreFollows.
SurvivesRestart ==
  [][ Idle /\ ~lag /\ apart = "no" /\ Restart
      => /\ UNCHANGED <<finding, scenario>>
         /\ NewestRows(graph'.observations, graph.observations)
         /\ IsInjective(Ids(graph.observations)) => UNCHANGED graph ]_vars

\* The tables are the picture in memory as long as SQLite reads and writes
\* (data-provenance.md:65, runtime_store.py:3-4).  They are not: a scenario that
\* raises or answers 404 replaces the one in memory alone (c2_server.py:416-423).
PictureIsSaved == Idle /\ faults = 0 => TablesHoldPicture
================================================================================
