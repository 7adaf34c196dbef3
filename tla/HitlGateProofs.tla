---------------------------- MODULE HitlGateProofs ----------------------------
(***************************************************************************)
(* Theorems about HitlGate, for any consoles, tiers and number of cycles,  *)
(* with and without lost requests, failing appends and crashes.            *)
(***************************************************************************)
EXTENDS HitlGate, TLAPS

\* What one step does to the trail: nothing, or one more record.
Grows == log' = log \/ \E r \in LogRecord : log' = Append(log, r)

\* A decision that is sealed stays sealed.
LEMMA DecidedStays ==
  ASSUME TypeOK, Grows, NEW n, NEW v, Decided(n, v)
  PROVE  Decided(n, v)'
<1>1. CASE log' = log
  BY <1>1 DEF Decided
<1>2. CASE \E r \in LogRecord : log' = Append(log, r)
  <2>1. PICK r \in LogRecord : log' = Append(log, r)
    BY <1>2
  <2>2. /\ Len(log) \in Nat /\ Len(log') = Len(log) + 1
        /\ \A i \in 1 .. Len(log) : log'[i] = log[i]
    BY <2>1 DEF TypeOK
  <2> QED
    BY <2>2 DEF Decided
<1> QED
  BY <1>1, <1>2 DEF Grows

\* The record a cycle seals is a record of the trail.
LEMMA SealedType ==
  ASSUME TypeOK, NEW c \in Console, plan[c] # None,
         NEW act \in {"gate_decision", "dispatch", "station_keep"},
         NEW what \in Verdict \union {"navigating", "station_keep"}
  PROVE  /\ Sealed(c, act, what) \in Seq(LogRecord)
         /\ \E r \in LogRecord : Sealed(c, act, what) = Append(log, r)
<1>1. plan[c] \in Plan
  BY DEF TypeOK
<1>2. [act |-> act, n |-> plan[c].n, what |-> what] \in LogRecord
  BY <1>1 DEF Plan, LogRecord
<1>3. log \in Seq(LogRecord)
  BY DEF TypeOK
<1> QED
  BY <1>2, <1>3 DEF Sealed

\* The end of a cycle keeps the types of its variables.
LEMMA EndType ==
  ASSUME TypeOK, NEW c \in Console, End(c), log' \in Seq(LogRecord),
         UNCHANGED <<wire, mode, cycles, consent>>
  PROVE  TypeOK'
BY NoneAssumption DEF End, TypeOK

\* Every step keeps the types.
LEMMA TypeStep ==
  ASSUME TypeOK, [Next]_vars
  PROVE  TypeOK' /\ Grows
<1> USE ConstantsAssumption, NoneAssumption
<1>1. ASSUME NEW c \in Console,
             NEW p \in [n: {cycles + 1} \cap (1 .. MaxCycles), tier: Tiers, safe: BOOLEAN],
             NEW auto \in {None, "yes", "no"}, Open(c, p, auto)
      PROVE  TypeOK' /\ Grows
  <2>1. p \in Plan
    BY DEF Plan, TypeOK
  <2>2. p.n \in 1 .. MaxCycles /\ p.n = cycles + 1 /\ cycles + 1 \in 0 .. MaxCycles
    BY <2>1, <1>1 DEF Plan, Open, TypeOK
  <2>3. UNCHANGED <<cycle, consent>> => TypeOK' /\ Grows
    BY <1>1, <2>2 DEF Open, TypeOK, Grows, cycle
  <2>4. CASE plan' = [plan EXCEPT ![c] = p]
    <3> DEFINE v == IF ~ p.safe THEN "REJECTED_FAST"
                    ELSE IF p.tier = 0 THEN "APPROVED" ELSE None
               q == IF v = None THEN "gate" ELSE "join"
               r == IF auto = None THEN "reading" ELSE "done"
    <3>1. v \in Verdict \union {None} /\ q \in {"gate", "join"} /\ r \in {"reading", "done"}
      BY DEF Verdict
    <3>2. q = "gate" <=> v = None
      OBVIOUS
    <3>3. \/ UNCHANGED <<cycle, consent>>
          \/ /\ verdict' = [verdict EXCEPT ![c] = v] /\ pc' = [pc EXCEPT ![c] = q]
             /\ prompt' = [prompt EXCEPT ![c] = r] /\ queue' = [queue EXCEPT ![c] = auto]
             /\ consent' \subseteq 1 .. MaxCycles
             /\ UNCHANGED <<fired, line>>
      <4>1. verdict \in [Console -> Verdict \union {None}] /\ consent \subseteq 1 .. MaxCycles
        BY DEF TypeOK
      <4> QED
        BY <1>1, <2>2, <4>1 DEF Open
    <3>4. cycles' = cycles + 1 /\ UNCHANGED <<wire, mode, log>>
      BY <1>1 DEF Open
    <3> HIDE DEF v, q, r
    <3>5. CASE UNCHANGED <<cycle, consent>>
      BY <3>5, <2>3
    <3>6. CASE /\ verdict' = [verdict EXCEPT ![c] = v] /\ pc' = [pc EXCEPT ![c] = q]
               /\ prompt' = [prompt EXCEPT ![c] = r] /\ queue' = [queue EXCEPT ![c] = auto]
               /\ consent' \subseteq 1 .. MaxCycles
               /\ UNCHANGED <<fired, line>>
      BY <2>1, <2>2, <2>4, <3>1, <3>2, <3>4, <3>6 DEF TypeOK, Grows
    <3> QED
      BY <3>3, <3>5, <3>6
  <2> QED
    BY <1>1, <2>3, <2>4 DEF Open
<1>2. ASSUME NEW c \in Console, NEW a \in Answer, Type(c, a) PROVE TypeOK' /\ Grows
  <2>1. prompt[c] = "reading" /\ consent' \subseteq 1 .. MaxCycles
    BY <1>2 DEF Type, TypeOK, Plan
  <2> QED
    BY <1>2, <2>1 DEF Type, TypeOK, Grows
<1>3. ASSUME NEW c \in Console, PromptAnswers(c) \/ PromptExpires(c) PROVE TypeOK' /\ Grows
  <2>1. PICK put \in {"yes", "no", None} : Prompted(c, put)
    BY <1>3 DEF PromptAnswers, PromptExpires, TypeOK, Answer
  <2>2. prompt[c] = "reading"
    BY <1>3 DEF PromptAnswers, PromptExpires
  <2> QED
    BY <2>1, <2>2 DEF Prompted, TypeOK, Grows
<1>4. ASSUME NEW c \in Console, GateTimer(c) PROVE TypeOK' /\ Grows
  BY <1>4 DEF GateTimer, TypeOK, Grows
<1>5. ASSUME NEW c \in Console, Evaluate(c) PROVE TypeOK' /\ Grows
  <2>1. VerdictOf(c) \in Verdict
    BY DEF VerdictOf, Verdict
  <2> QED
    BY <1>5, <2>1 DEF Evaluate, TypeOK, Grows
<1>6. ASSUME NEW c \in Console, Join(c) PROVE TypeOK' /\ Grows
  <2>1. plan[c] # None /\ verdict[c] \in Verdict
    BY <1>6 DEF Join, TypeOK
  <2>2. log' \in Seq(LogRecord) /\ Grows
    <3>1. log' = log \/ log' = Sealed(c, "gate_decision", verdict[c])
      BY <1>6 DEF Join
    <3> QED
      BY <2>1, <3>1, SealedType DEF TypeOK, Grows
  <2>3. CASE End(c)
    BY <1>6, <2>2, <2>3, EndType DEF Join
  <2>4. CASE pc' = [pc EXCEPT ![c] = "send"]
             /\ UNCHANGED <<plan, fired, prompt, line, queue, verdict>>
    BY <1>6, <2>1, <2>2, <2>4 DEF Join, TypeOK
  <2> QED
    BY <1>6, <2>3, <2>4 DEF Join
<1>7. ASSUME NEW c \in Console, Send(c) PROVE TypeOK' /\ Grows
  <2>1. plan[c] \in Plan
    BY <1>7 DEF Send, TypeOK
  <2>2. [n |-> plan[c].n, cmd |-> CommandOf(c)] \in RequestTo
    BY <2>1 DEF Plan, RequestTo, Command, CommandOf
  <2> QED
    BY <1>7, <2>2 DEF Send, TypeOK, Grows
<1>8. ASSUME NEW c \in Console, CallFails(c) \/ Crash(c) PROVE TypeOK' /\ Grows
  BY <1>8, EndType DEF CallFails, Crash, Grows, TypeOK
<1>9. ASSUME NEW c \in Console, Record(c) PROVE TypeOK' /\ Grows
  <2>1. plan[c] # None
    BY <1>9 DEF Record, TypeOK
  <2>2. log' \in Seq(LogRecord) /\ Grows
    <3>1. \/ log' = log \/ log' = Sealed(c, "dispatch", "navigating")
          \/ log' = Sealed(c, "station_keep", "station_keep")
      BY <1>9 DEF Record
    <3> QED
      BY <2>1, <3>1, SealedType DEF TypeOK, Grows
  <2> QED
    BY <1>9, <2>2, EndType DEF Record
<1>10. ASSUME NEW r \in wire, Serve(r) PROVE TypeOK' /\ Grows
  <2>1. r \in RequestTo /\ wire' \subseteq RequestTo
    BY <1>10 DEF Serve, TypeOK
  <2>2. mode' \in [is: {"idle", "navigating", "station_keep"}, by: 0 .. MaxCycles]
    BY <1>10, <2>1 DEF Serve, ModeAfter, RequestTo
  <2>3. /\ pc' \in [Console -> {"idle", "gate", "join", "send", "call", "record"}]
        /\ \A c \in Console : pc'[c] = pc[c] \/ (pc[c] = "call" /\ pc'[c] = "record")
    BY <1>10 DEF Serve, TypeOK
  <2> QED
    BY <1>10, <2>1, <2>2, <2>3 DEF Serve, TypeOK, Grows
<1>11. ASSUME NEW r \in wire, Drop(r) PROVE TypeOK' /\ Grows
  BY <1>11 DEF Drop, TypeOK, Grows, cycle
<1>12. CASE UNCHANGED vars
  BY <1>12 DEF vars, cycle, TypeOK, Grows
<1> QED
  BY <1>1, <1>2, <1>3, <1>4, <1>5, <1>6, <1>7, <1>8, <1>9, <1>10, <1>11, <1>12
     DEF Next, Step

\* The variables keep their types, and a cycle has its plan, prompt and verdict
\* exactly while it runs.
THEOREM CycleTypeCorrect == Spec => []TypeOK
<1>1. Init => TypeOK
  BY NoneAssumption, ConstantsAssumption DEF Init, TypeOK
<1>2. TypeOK /\ [Next]_vars => TypeOK'
  BY TypeStep
<1> QED
  BY <1>1, <1>2, PTL DEF Spec

-----------------------------------------------------------------------------
Commanding == {"send", "call", "record"}

\* From the command on, the decision of the cycle is sealed, and it commands.
Stage(c) ==
  pc[c] \in Commanding => verdict[c] \in Commands /\ Decided(plan[c].n, verdict[c])

SealedInv == TypeOK /\ NavigatesOnApproval /\ \A c \in Console : Stage(c)

\* A cycle that was commanding already, or is not now, keeps its stage.
LEMMA StageKept ==
  ASSUME TypeOK, Grows, NEW c \in Console, Stage(c),
         pc'[c] \in Commanding =>
           pc[c] \in Commanding /\ plan'[c] = plan[c] /\ verdict'[c] = verdict[c]
  PROVE  Stage(c)'
BY DecidedStays DEF Stage

\* Where nothing new is on the way, what is on the way stays approved.
LEMMA NavigatedKept ==
  ASSUME TypeOK, Grows, NavigatesOnApproval, Navigated' \subseteq Navigated
  PROVE  NavigatesOnApproval'
BY DecidedStays DEF NavigatesOnApproval

\* At the end of a cycle the others keep their stages.
LEMMA EndStage ==
  ASSUME TypeOK, Grows, NEW c \in Console, End(c), NEW d \in Console, Stage(d)
  PROVE  Stage(d)'
<1>1. pc'[d] \in Commanding =>
        pc[d] \in Commanding /\ plan'[d] = plan[d] /\ verdict'[d] = verdict[d]
  BY DEF End, TypeOK, Commanding
<1> QED
  BY <1>1, StageKept

\* A decision that was just appended to the trail is sealed.
LEMMA SealedDecided ==
  ASSUME TypeOK, NEW n, NEW v,
         log' = Append(log, [act |-> "gate_decision", n |-> n, what |-> v])
  PROVE  Decided(n, v)'
<1> DEFINE r == [act |-> "gate_decision", n |-> n, what |-> v]
<1>1. log' = Append(log, r) /\ log \in Seq(LogRecord)
  BY DEF TypeOK
<1>2. r.act = "gate_decision" /\ r.n = n /\ r.what = v
  OBVIOUS
<1> HIDE DEF r
<1>3. Len(log') = Len(log) + 1 /\ log'[Len(log) + 1] = r /\ Len(log) \in Nat
  BY <1>1
<1>4. Len(log) + 1 \in 1 .. Len(log')
  BY <1>3
<1> QED
  BY <1>2, <1>3, <1>4 DEF Decided

\* Every step keeps what is sealed ahead of what is commanded.
LEMMA SealedStep ==
  ASSUME SealedInv, [Next]_vars
  PROVE  SealedInv'
<1>1. TypeOK /\ TypeOK' /\ Grows /\ NavigatesOnApproval /\ \A c \in Console : Stage(c)
  BY TypeStep DEF SealedInv
<1>2. ASSUME Navigated' \subseteq Navigated, NEW c \in Console,
             \A d \in Console :
               pc'[d] \in Commanding =>
                 pc[d] \in Commanding /\ plan'[d] = plan[d] /\ verdict'[d] = verdict[d]
      PROVE  SealedInv'
  BY <1>1, <1>2, NavigatedKept, StageKept DEF SealedInv
<1>3. ASSUME NEW c \in Console, End(c), UNCHANGED <<wire, mode>> PROVE SealedInv'
  <2>1. Navigated' \subseteq Navigated
    BY <1>3 DEF Navigated
  <2> QED
    BY <1>1, <1>3, <2>1, NavigatedKept, EndStage DEF SealedInv
<1>4. ASSUME NEW c \in Console,
             NEW p \in [n: {cycles + 1} \cap (1 .. MaxCycles), tier: Tiers, safe: BOOLEAN],
             NEW auto \in {None, "yes", "no"}, Open(c, p, auto)
      PROVE  SealedInv'
  <2>1. Navigated' \subseteq Navigated
    BY <1>4 DEF Open, Navigated
  <2>2. \A d \in Console : pc'[d] \in Commanding =>
          pc[d] \in Commanding /\ plan'[d] = plan[d] /\ verdict'[d] = verdict[d]
    <3>1. CASE UNCHANGED cycle
      BY <3>1 DEF cycle
    <3>2. CASE ~ UNCHANGED cycle
      <4>1. /\ \E q \in {"gate", "join"} : pc' = [pc EXCEPT ![c] = q]
            /\ plan' = [plan EXCEPT ![c] = p]
            /\ \E v : verdict' = [verdict EXCEPT ![c] = v]
        BY <1>4, <3>2 DEF Open, cycle
      <4> QED
        BY <1>1, <4>1 DEF TypeOK, Commanding
    <3> QED
      BY <3>1, <3>2
  <2> QED
    BY <1>2, <2>1, <2>2
<1>5. ASSUME UNCHANGED <<pc, plan, verdict, mode>>, wire' \subseteq wire PROVE SealedInv'
  <2>1. Navigated' \subseteq Navigated
    BY <1>5 DEF Navigated
  <2> QED
    BY <1>1, <1>5, <2>1, NavigatedKept, StageKept DEF SealedInv
<1>6. ASSUME NEW c \in Console, Evaluate(c) PROVE SealedInv'
  <2>1. Navigated' \subseteq Navigated
    BY <1>6 DEF Evaluate, Navigated
  <2>2. \A d \in Console : pc'[d] \in Commanding =>
          pc[d] \in Commanding /\ plan'[d] = plan[d] /\ verdict'[d] = verdict[d]
    BY <1>1, <1>6 DEF Evaluate, TypeOK, Commanding
  <2> QED
    BY <1>2, <2>1, <2>2
<1>7. ASSUME NEW c \in Console, Join(c) PROVE SealedInv'
  <2>1. CASE End(c)
    BY <1>3, <1>7, <2>1 DEF Join
  <2>2. CASE ~ End(c)
    <3>1. /\ log' = Sealed(c, "gate_decision", verdict[c]) /\ verdict[c] \in Commands
          /\ pc' = [pc EXCEPT ![c] = "send"] /\ UNCHANGED <<plan, verdict, wire, mode>>
      BY <1>7, <2>2 DEF Join
    <3>2. Stage(c)'
      <4>1. PICK n, v : n = plan[c].n /\ v = verdict[c]
        OBVIOUS
      <4>2. Decided(n, v)'
        BY <1>1, <3>1, <4>1, SealedDecided DEF Sealed
      <4> QED
        BY <3>1, <4>1, <4>2 DEF Stage
    <3>3. \A d \in Console \ {c} : Stage(d)'
      BY <1>1, <3>1, StageKept DEF TypeOK
    <3>4. Navigated' \subseteq Navigated
      BY <3>1 DEF Navigated
    <3> QED
      BY <1>1, <3>2, <3>3, <3>4, NavigatedKept DEF SealedInv
  <2> QED
    BY <2>1, <2>2
<1>8. ASSUME NEW c \in Console, Send(c) PROVE SealedInv'
  <2>1. \A d \in Console : pc'[d] \in Commanding =>
          pc[d] \in Commanding /\ plan'[d] = plan[d] /\ verdict'[d] = verdict[d]
    BY <1>1, <1>8 DEF Send, TypeOK, Commanding
  <2>2. verdict[c] \in Commands /\ Decided(plan[c].n, verdict[c])
    BY <1>1, <1>8 DEF Send, Stage, Commanding
  <2>3. \A n \in Navigated' : n \in Navigated \/ (n = plan[c].n /\ verdict[c] = "APPROVED")
    BY <1>8, <2>2 DEF Send, Navigated, CommandOf, Commands
  <2>4. NavigatesOnApproval'
    BY <1>1, <2>2, <2>3, DecidedStays DEF NavigatesOnApproval
  <2> QED
    BY <1>1, <2>1, <2>4, StageKept DEF SealedInv
<1>9. ASSUME NEW r \in wire, Serve(r) PROVE SealedInv'
  <2>1. Navigated' \subseteq Navigated
    BY <1>9 DEF Serve, ModeAfter, Navigated
  <2>2. \A d \in Console : pc'[d] \in Commanding =>
          pc[d] \in Commanding /\ plan'[d] = plan[d] /\ verdict'[d] = verdict[d]
    BY <1>1, <1>9 DEF Serve, TypeOK, Commanding
  <2> QED
    BY <1>1, <2>1, <2>2, NavigatedKept, StageKept DEF SealedInv
<1>10. ASSUME NEW c \in Console, Step(c) \/ Crash(c) PROVE SealedInv'
  <2>1. CASE PromptAnswers(c) \/ PromptExpires(c) \/ GateTimer(c)
    BY <1>5, <2>1 DEF PromptAnswers, PromptExpires, Prompted, GateTimer
  <2>2. CASE CallFails(c) \/ Record(c) \/ Crash(c)
    BY <1>3, <2>2 DEF CallFails, Record, Crash
  <2> QED
    BY <1>6, <1>7, <1>8, <1>10, <2>1, <2>2 DEF Step
<1>11. ASSUME NEW c \in Console, NEW a \in Answer, Type(c, a) PROVE SealedInv'
  BY <1>5, <1>11 DEF Type
<1>12. ASSUME NEW r \in wire, Drop(r) PROVE SealedInv'
  BY <1>5, <1>12 DEF Drop, cycle
<1>13. CASE UNCHANGED vars
  BY <1>5, <1>13 DEF vars, cycle
<1> QED
  BY <1>4, <1>9, <1>10, <1>11, <1>12, <1>13 DEF Next

\* Whatever is lost, late, cut short or commanded by another console, the
\* effector is sent somewhere only for a cycle whose approval is sealed.
THEOREM EffectorUnderApproval == Spec => []NavigatesOnApproval
<1>1. Init => SealedInv
  <2> SUFFICES ASSUME Init PROVE SealedInv
    OBVIOUS
  <2>1. TypeOK
    BY NoneAssumption, ConstantsAssumption DEF Init, TypeOK
  <2>2. Navigated = {} /\ \A c \in Console : Stage(c)
    BY DEF Init, Navigated, Stage, Commanding
  <2> QED
    BY <2>1, <2>2 DEF SealedInv, NavigatesOnApproval
<1>2. SealedInv /\ [Next]_vars => SealedInv'
  BY SealedStep
<1>3. SealedInv => NavigatesOnApproval
  BY DEF SealedInv
<1> QED
  BY <1>1, <1>2, <1>3, PTL DEF Spec

-----------------------------------------------------------------------------
\* While the gate can still hear it, a yes on the terminal or in the queue is
\* consent; so is an approval above tier 0.  Between cycles no line is held.
Timely(c) ==
  /\ verdict[c] = "APPROVED" /\ plan[c].tier # 0 => plan[c].n \in consent
  /\ pc[c] = "gate" /\ ~ fired[c] /\ "yes" \in {queue[c], line[c]} => plan[c].n \in consent
  /\ pc[c] = "idle" => line[c] = None

TimeInv == TypeOK /\ \A c \in Console : Timely(c)

Waiting == {"idle", "gate"}

\* A cycle that hears and says nothing new stays timely.
LEMMA TimelyKept ==
  ASSUME consent \subseteq consent', NEW d \in Console, Timely(d),
         plan'[d] = plan[d], verdict'[d] = verdict[d],
         pc'[d] \in Waiting => pc'[d] = pc[d],
         fired'[d] = fired[d], queue'[d] = queue[d], line'[d] = line[d]
  PROVE  Timely(d)'
BY DEF Timely, Waiting

\* A cycle that ends is timely.
LEMMA EndTimely ==
  ASSUME TypeOK, NEW c \in Console, End(c), UNCHANGED consent,
         \A d \in Console : Timely(d)
  PROVE  \A d \in Console : Timely(d)'
<1>1. Timely(c)'
  BY NoneAssumption DEF End, TypeOK, Timely, Verdict
<1>2. ASSUME NEW d \in Console \ {c} PROVE Timely(d)'
  BY <1>2, TimelyKept DEF End, TypeOK
<1> QED
  BY <1>1, <1>2

\* Every step keeps the answers timely.
LEMMA TimeStep ==
  ASSUME TimeInv, [Next]_vars
  PROVE  TimeInv'
<1> USE NoneAssumption
<1>1. TypeOK /\ TypeOK' /\ \A c \in Console : Timely(c)
  BY TypeStep DEF TimeInv
<1>2. ASSUME NEW c \in Console,
             NEW p \in [n: {cycles + 1} \cap (1 .. MaxCycles), tier: Tiers, safe: BOOLEAN],
             NEW auto \in {None, "yes", "no"}, Open(c, p, auto)
      PROVE  TimeInv'
  <2>1. CASE UNCHANGED <<cycle, consent>>
    BY <1>1, <2>1, TimelyKept DEF cycle, TimeInv
  <2>2. CASE ~ UNCHANGED <<cycle, consent>>
    <3>1. consent \subseteq consent' /\ (auto = "yes" => p.n \in consent')
      BY <1>2, <2>2 DEF Open
    <3>2. plan'[c] = p /\ queue'[c] = auto /\ line'[c] = None
      BY <1>1, <1>2, <2>2 DEF Open, TypeOK, Timely
    <3>3. verdict'[c] = "APPROVED" => p.tier = 0
      BY <1>1, <1>2, <2>2 DEF Open, TypeOK, Verdict
    <3>4. pc'[c] # "idle"
      BY <1>1, <1>2, <2>2 DEF Open, TypeOK
    <3>5. Timely(c)'
      BY <3>1, <3>2, <3>3, <3>4 DEF Timely, Answer
    <3>6. ASSUME NEW d \in Console \ {c} PROVE Timely(d)'
      BY <1>1, <1>2, <2>2, <3>1, <3>6, TimelyKept DEF Open, TypeOK
    <3> QED
      BY <1>1, <3>5, <3>6 DEF TimeInv
  <2> QED
    BY <2>1, <2>2
<1>3. ASSUME NEW c \in Console, NEW a \in Answer, Type(c, a) PROVE TimeInv'
  <2>1. consent \subseteq consent' /\ (a = "yes" /\ ~ fired[c] => plan[c].n \in consent')
    BY <1>3 DEF Type
  <2>2. pc[c] # "idle" /\ line'[c] = a /\ UNCHANGED <<pc, plan, fired, queue, verdict>>
    BY <1>1, <1>3 DEF Type, TypeOK
  <2>3. Timely(c)'
    BY <1>1, <2>1, <2>2 DEF Timely
  <2>4. ASSUME NEW d \in Console \ {c} PROVE Timely(d)'
    BY <1>1, <1>3, <2>1, <2>4, TimelyKept DEF Type, TypeOK
  <2> QED
    BY <1>1, <2>3, <2>4 DEF TimeInv
<1>4. ASSUME NEW c \in Console, PromptAnswers(c) \/ PromptExpires(c) PROVE TimeInv'
  <2>1. PICK put : Prompted(c, put) /\ put \in {line[c], None}
    BY <1>4 DEF PromptAnswers, PromptExpires
  <2>2. queue'[c] = put /\ UNCHANGED <<pc, plan, fired, line, verdict, consent>>
    BY <1>1, <2>1 DEF Prompted, TypeOK
  <2>3. Timely(c)'
    BY <1>1, <2>1, <2>2 DEF Timely, Answer
  <2>4. ASSUME NEW d \in Console \ {c} PROVE Timely(d)'
    BY <1>1, <2>1, <2>4, TimelyKept DEF Prompted, TypeOK
  <2> QED
    BY <1>1, <2>3, <2>4 DEF TimeInv
<1>5. ASSUME NEW c \in Console, GateTimer(c) PROVE TimeInv'
  <2>1. fired'[c] = TRUE /\ UNCHANGED <<pc, plan, line, queue, verdict, consent>>
    BY <1>1, <1>5 DEF GateTimer, TypeOK
  <2>2. Timely(c)'
    BY <1>1, <2>1 DEF Timely
  <2>3. ASSUME NEW d \in Console \ {c} PROVE Timely(d)'
    BY <1>1, <1>5, <2>3, TimelyKept DEF GateTimer, TypeOK
  <2> QED
    BY <1>1, <2>2, <2>3 DEF TimeInv
<1>6. ASSUME NEW c \in Console, Evaluate(c) PROVE TimeInv'
  <2>1. /\ pc[c] = "gate" /\ pc'[c] = "join" /\ verdict'[c] = VerdictOf(c)
        /\ UNCHANGED <<plan, consent>>
    BY <1>1, <1>6 DEF Evaluate, TypeOK
  <2>2. VerdictOf(c) = "APPROVED" => ~ fired[c] /\ queue[c] = "yes"
    BY DEF VerdictOf
  <2>3. Timely(c)'
    BY <1>1, <2>1, <2>2 DEF Timely
  <2>4. ASSUME NEW d \in Console \ {c} PROVE Timely(d)'
    BY <1>1, <1>6, <2>4, TimelyKept DEF Evaluate, TypeOK
  <2> QED
    BY <1>1, <2>3, <2>4 DEF TimeInv
<1>7. ASSUME NEW c \in Console, End(c), UNCHANGED consent PROVE TimeInv'
  BY <1>1, <1>7, EndTimely DEF TimeInv
<1>8. ASSUME UNCHANGED <<plan, fired, queue, line, verdict, consent>>,
             \A d \in Console : pc'[d] \in Waiting => pc'[d] = pc[d]
      PROVE  TimeInv'
  BY <1>1, <1>8, TimelyKept DEF TimeInv
<1>9. ASSUME NEW c \in Console, Join(c) PROVE TimeInv'
  <2>1. CASE End(c)
    BY <1>7, <1>9, <2>1 DEF Join
  <2>2. CASE ~ End(c)
    BY <1>1, <1>8, <1>9, <2>2 DEF Join, TypeOK, Waiting
  <2> QED
    BY <2>1, <2>2
<1>10. ASSUME NEW c \in Console, Send(c) PROVE TimeInv'
  BY <1>1, <1>8, <1>10 DEF Send, TypeOK, Waiting
<1>11. ASSUME NEW c \in Console, CallFails(c) \/ Record(c) \/ Crash(c) PROVE TimeInv'
  BY <1>7, <1>11 DEF CallFails, Record, Crash
<1>12. ASSUME NEW r \in wire, Serve(r) \/ Drop(r) PROVE TimeInv'
  BY <1>1, <1>8, <1>12 DEF Serve, Drop, TypeOK, Waiting, cycle
<1>13. CASE UNCHANGED vars
  BY <1>8, <1>13 DEF vars, cycle
<1> QED
  BY <1>2, <1>3, <1>4, <1>5, <1>6, <1>9, <1>10, <1>11, <1>12, <1>13 DEF Next, Step

\* However the answer and the two timers cross, an approval above tier 0 is that
\* of an operator who said yes before the gate's time was up.
THEOREM AnswerInTime == Spec => []ApprovedInTime
<1>1. Init => TimeInv
  <2> SUFFICES ASSUME Init PROVE TimeInv
    OBVIOUS
  <2>1. TypeOK
    BY NoneAssumption, ConstantsAssumption DEF Init, TypeOK
  <2>2. \A c \in Console : Timely(c)
    BY NoneAssumption DEF Init, Timely, Verdict
  <2> QED
    BY <2>1, <2>2 DEF TimeInv
<1>2. TimeInv /\ [Next]_vars => TimeInv'
  BY TimeStep
<1>3. TimeInv => ApprovedInTime
  BY DEF TimeInv, Timely, ApprovedInTime
<1> QED
  BY <1>1, <1>2, <1>3, PTL DEF Spec
=============================================================================
