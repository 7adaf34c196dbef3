-------------------------- MODULE HitlSteadyProofs ---------------------------
(***************************************************************************)
(* What holds of HitlGate between cycles when one console commands the     *)
(* effector, its requests arrive, its appends succeed and it lives: the    *)
(* trail says what the effector does, and a timeout has stopped it.  With  *)
(* a second console, a lost request or a lost append neither is true.      *)
(***************************************************************************)
EXTENDS HitlGateProofs

Alone == ~ HttpFaults /\ ~ AuditFaults /\ ~ Crashes

CommandActs == {"dispatch", "station_keep"}

\* The last command in the trail is the one the effector obeyed last.
Recorded ==
  mode.is # "idle" =>
    \E i \in 1 .. Len(log) :
      Last(CommandActs, i) /\ log[i].n = mode.by /\ log[i].what = mode.is

\* If the last decision in the trail is a timeout, the effector keeps station.
Stopped ==
  \A i \in 1 .. Len(log) :
    Last({"gate_decision"}, i) /\ log[i].what = "TIMED_OUT_FALLBACK"
      => mode.is = "station_keep"

\* The mode the command of console c sets.
ModeFor(c) ==
  [is |-> IF verdict[c] = "APPROVED" THEN "navigating" ELSE "station_keep",
   by |-> plan[c].n]

\* Where the cycle of the only console is: its decision is the last one sealed
\* from then on, its request is on the wire while it is called, the effector has
\* obeyed it when it is recorded, and before and after that effector and trail
\* agree.
CycleAgrees(c) ==
  /\ wire = IF pc[c] = "call" THEN {[n |-> plan[c].n, cmd |-> CommandOf(c)]} ELSE {}
  /\ pc[c] = "record" => mode = ModeFor(c)
  /\ pc[c] # "record" => Recorded
  /\ pc[c] \in {"idle", "gate", "join"} => Stopped
  /\ pc[c] \in {"send", "call", "record"} =>
       /\ verdict[c] \in Commands
       /\ \A i \in 1 .. Len(log) :
            Last({"gate_decision"}, i) => log[i].what = verdict[c]

-----------------------------------------------------------------------------
(* The trail.                                                              *)

\* What is the last record of some kinds after one more record.
LEMMA LastAppended ==
  ASSUME log \in Seq(LogRecord), NEW r \in LogRecord, log' = Append(log, r), NEW acts
  PROVE  /\ \A i \in 1 .. Len(log) : i \in 1 .. Len(log') /\ log'[i] = log[i]
         /\ r.act \in acts => \E i \in 1 .. Len(log') : Last(acts, i)' /\ log'[i] = r
         /\ r.act \in acts =>
              \A i \in 1 .. Len(log') : Last(acts, i)' => log'[i] = r
         /\ r.act \notin acts => \A i \in 1 .. Len(log) : Last(acts, i)' <=> Last(acts, i)
         /\ r.act \notin acts =>
              \A i \in 1 .. Len(log') : Last(acts, i)' => i \in 1 .. Len(log)
<1>1. PICK n \in Nat : n = Len(log)
  OBVIOUS
<1>2. /\ Len(log') = n + 1 /\ log'[n + 1] = r
      /\ \A i \in 1 .. n : log'[i] = log[i]
  BY <1>1
<1>3. \A i \in 1 .. n : Last(acts, i)' <=>
        /\ log[i].act \in acts
        /\ \A j \in (i + 1) .. (n + 1) : log'[j].act \notin acts
  BY <1>2 DEF Last
<1>4. \A i \in 1 .. n : Last(acts, i) <=>
        log[i].act \in acts /\ \A j \in (i + 1) .. n : log[j].act \notin acts
  BY <1>1 DEF Last
<1>5. r.act \in acts => \A i \in 1 .. n : ~ Last(acts, i)'
  BY <1>2, <1>3
<1>6. r.act \notin acts => \A i \in 1 .. n : Last(acts, i)' <=> Last(acts, i)
  BY <1>2, <1>3, <1>4
<1>7. r.act \in acts => Last(acts, n + 1)'
  BY <1>2 DEF Last
<1>8. r.act \notin acts => ~ Last(acts, n + 1)'
  BY <1>2 DEF Last
<1>9. 1 .. Len(log') = (1 .. n) \union {n + 1} /\ 1 .. Len(log) = 1 .. n
  BY <1>1, <1>2
<1>10. r.act \in acts => \A i \in 1 .. Len(log') : Last(acts, i)' => log'[i] = r
  BY <1>2, <1>5, <1>9
<1>11. r.act \in acts => \E i \in 1 .. Len(log') : Last(acts, i)' /\ log'[i] = r
  BY <1>2, <1>7, <1>9
<1>12. r.act \notin acts => \A i \in 1 .. Len(log') : Last(acts, i)' => i \in 1 .. Len(log)
  BY <1>8, <1>9
<1> QED
  BY <1>1, <1>2, <1>6, <1>9, <1>10, <1>11, <1>12

\* Trail, effector and the console's stage unchanged but for its tasks.
LEMMA AgreesSame ==
  ASSUME NEW c, CycleAgrees(c), UNCHANGED <<wire, mode, log>>, pc'[c] = pc[c],
         plan'[c] = plan[c], verdict'[c] = verdict[c]
  PROVE  CycleAgrees(c)'
BY DEF CycleAgrees, Recorded, Stopped, ModeFor, CommandOf, Last

\* Before the decision is sealed effector and trail are what they were.
LEMMA AgreesBefore ==
  ASSUME NEW c, CycleAgrees(c), UNCHANGED <<wire, mode, log>>,
         pc[c] \in {"idle", "gate"}, pc'[c] \in {"gate", "join"}
  PROVE  CycleAgrees(c)'
BY DEF CycleAgrees, Recorded, Stopped, Last

-----------------------------------------------------------------------------
\* Sealing the decision: it is the last one, and leads to a command or is no
\* timeout.
LEMMA AgreesJoin ==
  ASSUME Alone, TypeOK, NEW c \in Console, CycleAgrees(c), Join(c)
  PROVE  CycleAgrees(c)'
<1> DEFINE r == [act |-> "gate_decision", n |-> plan[c].n, what |-> verdict[c]]
<1>1. plan[c] \in Plan /\ verdict[c] \in Verdict /\ pc[c] = "join"
  BY DEF Join, TypeOK
<1>2. r \in LogRecord /\ r.act = "gate_decision" /\ r.what = verdict[c]
  BY <1>1 DEF LogRecord, Plan
<1>3. log' = Append(log, r) /\ UNCHANGED <<wire, mode>>
  BY DEF Join, Sealed, Alone
<1>4. \/ verdict[c] \in Commands /\ pc'[c] = "send" /\ verdict' = verdict
      \/ verdict[c] \notin Commands /\ pc'[c] = "idle"
  BY DEF Join, End, Alone, TypeOK
<1> HIDE DEF r
<1>5. log \in Seq(LogRecord) /\ wire = {}
  BY <1>1 DEF TypeOK, CycleAgrees
<1>6. Recorded'
  <2>1. r.act \notin CommandActs
    BY <1>2 DEF CommandActs
  <2>2. Recorded
    BY <1>1 DEF CycleAgrees
  <2> SUFFICES ASSUME mode.is # "idle"
               PROVE  \E i \in 1 .. Len(log') : /\ Last(CommandActs, i)'
                                                /\ log'[i].n = mode.by
                                                /\ log'[i].what = mode.is
    BY <1>3 DEF Recorded, Last, CommandActs
  <2>3. PICK i \in 1 .. Len(log) :
          Last(CommandActs, i) /\ log[i].n = mode.by /\ log[i].what = mode.is
    BY <2>2 DEF Recorded
  <2>4. Last(CommandActs, i)' /\ i \in 1 .. Len(log') /\ log'[i] = log[i]
    BY <1>2, <1>3, <1>5, <2>1, <2>3, LastAppended
  <2> QED
    BY <2>3, <2>4
<1>7. \A i \in 1 .. Len(log') : Last({"gate_decision"}, i)' => log'[i].what = verdict[c]
  BY <1>2, <1>3, <1>5, LastAppended
<1>8. CASE verdict[c] \in Commands /\ pc'[c] = "send" /\ verdict' = verdict
  BY <1>3, <1>5, <1>6, <1>7, <1>8 DEF CycleAgrees, Last
<1>9. CASE verdict[c] \notin Commands /\ pc'[c] = "idle"
  <2>1. Stopped'
    BY <1>7, <1>9 DEF Stopped, Commands, Last
  <2> QED
    BY <1>3, <1>5, <1>6, <1>9, <2>1 DEF CycleAgrees
<1> QED
  BY <1>4, <1>8, <1>9

\* Sending puts the only request on the wire.
LEMMA AgreesSend ==
  ASSUME TypeOK, NEW c \in Console, CycleAgrees(c), Send(c)
  PROVE  CycleAgrees(c)'
<1>1. /\ pc[c] = "send" /\ pc'[c] = "call" /\ UNCHANGED <<plan, verdict, mode, log>>
      /\ wire' = wire \union {[n |-> plan[c].n, cmd |-> CommandOf(c)]}
  BY DEF Send, TypeOK
<1>2. wire = {} /\ Recorded /\ verdict[c] \in Commands
      /\ \A i \in 1 .. Len(log) : Last({"gate_decision"}, i) => log[i].what = verdict[c]
  BY <1>1 DEF CycleAgrees
<1> QED
  BY <1>1, <1>2 DEF CycleAgrees, Recorded, CommandOf, Last

\* Serving the request brings the effector to what its cycle asked for.
LEMMA AgreesServe ==
  ASSUME Alone, TypeOK, NEW c \in Console, CycleAgrees(c), NEW r \in wire, Serve(r)
  PROVE  CycleAgrees(c)'
<1>1. /\ pc[c] = "call" /\ r = [n |-> plan[c].n, cmd |-> CommandOf(c)] /\ wire = {r}
      /\ verdict[c] \in Commands
      /\ \A i \in 1 .. Len(log) : Last({"gate_decision"}, i) => log[i].what = verdict[c]
  BY DEF CycleAgrees
<1>2. r.n = plan[c].n /\ r.cmd = CommandOf(c)
  BY <1>1
<1>3. /\ wire' = {} /\ mode' = ModeAfter(r) /\ pc'[c] = "record"
      /\ UNCHANGED <<plan, verdict, log>>
  BY <1>1, <1>2 DEF Serve, Alone
<1>4. mode' = ModeFor(c)
  BY <1>1, <1>2, <1>3 DEF ModeAfter, ModeFor, CommandOf, Commands
<1>5. ModeFor(c)' = ModeFor(c)
  BY <1>3 DEF ModeFor
<1> QED
  BY <1>1, <1>3, <1>4, <1>5 DEF CycleAgrees, Last

\* Recording the command closes the cycle: the trail says what the effector does.
LEMMA AgreesRecord ==
  ASSUME Alone, TypeOK, NEW c \in Console, CycleAgrees(c), Record(c)
  PROVE  CycleAgrees(c)'
<1> DEFINE act == IF verdict[c] = "APPROVED" THEN "dispatch" ELSE "station_keep"
           what == IF verdict[c] = "APPROVED" THEN "navigating" ELSE "station_keep"
           r == [act |-> act, n |-> plan[c].n, what |-> what]
<1>1. plan[c] \in Plan /\ pc[c] = "record"
  BY DEF Record, TypeOK
<1>2. /\ r \in LogRecord /\ r.act \in CommandActs /\ r.act # "gate_decision"
      /\ r.n = plan[c].n /\ r.what = what
  BY <1>1 DEF LogRecord, Plan, CommandActs
<1>3. log' = Append(log, r)
  BY DEF Record, Sealed, Alone
<1>4. pc'[c] = "idle" /\ UNCHANGED <<wire, mode>>
  BY DEF Record, End, TypeOK
<1>5. /\ wire = {} /\ mode.is = what /\ mode.by = plan[c].n /\ verdict[c] \in Commands
      /\ \A i \in 1 .. Len(log) : Last({"gate_decision"}, i) => log[i].what = verdict[c]
  BY <1>1 DEF CycleAgrees, ModeFor
<1> HIDE DEF r
<1>6. log \in Seq(LogRecord)
  BY DEF TypeOK
<1>7. Recorded'
  <2>1. PICK i \in 1 .. Len(log') : Last(CommandActs, i)' /\ log'[i] = r
    BY <1>2, <1>3, <1>6, LastAppended
  <2>2. log'[i].n = mode'.by /\ log'[i].what = mode'.is
    BY <1>2, <1>4, <1>5, <2>1
  <2> QED
    BY <2>1, <2>2 DEF Recorded, Last, CommandActs
<1>8. Stopped'
  <2> SUFFICES ASSUME NEW i \in 1 .. Len(log'), Last({"gate_decision"}, i)',
                      log'[i].what = "TIMED_OUT_FALLBACK"
               PROVE  mode'.is = "station_keep"
    BY DEF Stopped, Last
  <2>1. i \in 1 .. Len(log) /\ log'[i] = log[i] /\ Last({"gate_decision"}, i)
    BY <1>2, <1>3, <1>6, LastAppended
  <2>2. verdict[c] = "TIMED_OUT_FALLBACK"
    BY <1>5, <2>1
  <2> QED
    BY <1>4, <1>5, <2>2
<1> QED
  BY <1>4, <1>5, <1>7, <1>8 DEF CycleAgrees

-----------------------------------------------------------------------------
\* The only console keeps trail and effector together, step by step.
LEMMA AgreesStep ==
  ASSUME Alone, NEW c, Console = {c}, TypeOK, CycleAgrees(c), [Next]_vars
  PROVE  CycleAgrees(c)'
<1>0. c \in Console /\ \A d \in Console : d = c
  OBVIOUS
<1>1. ASSUME NEW p \in [n: {cycles + 1} \cap (1 .. MaxCycles), tier: Tiers, safe: BOOLEAN],
             NEW auto \in {None, "yes", "no"}, Open(c, p, auto)
      PROVE  CycleAgrees(c)'
  <2>1. pc[c] = "idle" /\ UNCHANGED <<wire, mode, log>>
    BY <1>1 DEF Open
  <2>2. pc'[c] \in {"gate", "join"}
    BY <1>0, <1>1 DEF Open, Alone, TypeOK
  <2> QED
    BY <2>1, <2>2, AgreesBefore
<1>2. ASSUME NEW a \in Answer, Type(c, a) PROVE CycleAgrees(c)'
  BY <1>2, AgreesSame DEF Type
<1>3. CASE PromptAnswers(c) \/ PromptExpires(c) \/ GateTimer(c)
  BY <1>3, AgreesSame DEF PromptAnswers, PromptExpires, Prompted, GateTimer
<1>4. CASE Evaluate(c)
  BY <1>0, <1>4, AgreesBefore DEF Evaluate, TypeOK
<1>5. ASSUME CallFails(c) \/ Crash(c) PROVE FALSE
  BY <1>5 DEF CallFails, Crash, Alone
<1>6. ASSUME NEW r \in wire, Drop(r) PROVE FALSE
  BY <1>6 DEF Drop, Alone
<1>7. CASE UNCHANGED vars
  BY <1>7, AgreesSame DEF vars, cycle
<1> QED
  BY <1>0, <1>1, <1>2, <1>3, <1>4, <1>5, <1>6, <1>7, AgreesJoin, AgreesSend,
     AgreesServe, AgreesRecord
  DEF Next, Step

\* At the start too.
LEMMA AgreesInit ==
  ASSUME NEW c, Console = {c}, Init
  PROVE  CycleAgrees(c)
<1>1. pc[c] = "idle" /\ wire = {} /\ mode.is = "idle" /\ 1 .. Len(log) = {}
  BY DEF Init
<1> QED
  BY <1>1 DEF CycleAgrees, Recorded, Stopped

\* The inductive invariant holds throughout.
THEOREM AgreesAlways ==
  ASSUME Alone, NEW c, Console = {c}
  PROVE  Spec => [](TypeOK /\ CycleAgrees(c))
<1>1. Init => CycleAgrees(c)
  BY AgreesInit
<1>2. TypeOK /\ CycleAgrees(c) /\ [Next]_vars => CycleAgrees(c)'
  BY AgreesStep
<1> QED
  BY <1>1, <1>2, CycleTypeCorrect, PTL DEF Spec

\* EffectorAsRecorded: between the cycles of one console the trail ends with the
\* command the effector obeyed last.
THEOREM EffectorRecorded ==
  ASSUME Alone, NEW c, Console = {c}
  PROVE  Spec => []EffectorAsRecorded
<1>1. TypeOK /\ CycleAgrees(c) => EffectorAsRecorded
  BY DEF CycleAgrees, Recorded, CommandActs, EffectorAsRecorded, Quiet
<1> QED
  BY <1>1, AgreesAlways, PTL

\* TimeoutStops: between the cycles of one console, when the last decision was
\* a timeout, the effector keeps station.
THEOREM TimeoutStopsEffector ==
  ASSUME Alone, NEW c, Console = {c}
  PROVE  Spec => []TimeoutStops
<1>1. TypeOK /\ CycleAgrees(c) => TimeoutStops
  BY DEF CycleAgrees, Stopped, TimeoutStops, Quiet
<1> QED
  BY <1>1, AgreesAlways, PTL
=============================================================================
