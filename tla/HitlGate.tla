------------------------------- MODULE HitlGate -------------------------------
(***************************************************************************)
(* The console cycle: run_c2_cycle of app/main.py asks an operator through *)
(* prompt_operator_decision (app/ui/console.py), lets LatencyBoundedGate   *)
(* of core/gate.py wait for the answer, and commands the effector through  *)
(* app/adapters/usv_rest.py.                                               *)
(*                                                                         *)
(* One cycle is two tasks of an event loop, the gate and the prompt, that  *)
(* share a queue; each has a timer of the same length, the gate's is armed *)
(* first.  The terminal, the effector and the network between run beside   *)
(* them.  Several consoles may run and share the effector and the trail.   *)
(*                                                                         *)
(* The interlock is built from the policy file for every cycle: its active *)
(* set is empty whenever it is asked, and is left out.  The stub and GPIO  *)
(* effectors answer inside the call; they are the case of a network that   *)
(* never fails.  n numbers the cycles; in the code it is the COA id.       *)
(***************************************************************************)
EXTENDS Naturals, Sequences

CONSTANTS
  Console,      \* consoles
  Tiers,        \* tiers a scenario's COA has after apply_defaults
  None,         \* no plan, answer, verdict
  HttpFaults,   \* may a request or its response be lost or late?
  AuditFaults,  \* may an audit append raise?
  Crashes,      \* may a console die (or be interrupted) in a cycle?
  MaxCycles     \* bound: cycles of all consoles

ASSUME ConstantsAssumption ==
  /\ Tiers \subseteq 0 .. 2 /\ MaxCycles \in Nat
  /\ {HttpFaults, AuditFaults, Crashes} \subseteq BOOLEAN

VARIABLES
  pc,        \* where a console's cycle is
  plan,      \* its course of action
  fired,     \* the gate's timer has fired
  prompt,    \* the prompt task: off, reading, done
  line,      \* the line the operator typed
  queue,     \* operator_input_queue
  verdict,   \* the gate's verdict
  wire,      \* requests sent and not yet served
  mode,      \* mocks/usv.py _state: mode, and the cycle that set it
  log,       \* the audit trail
  cycles,    \* history: cycles so far
  consent    \* history: cycles whose operator said yes before the gate's timer

cycle == <<pc, plan, fired, prompt, line, queue, verdict>>
vars == <<cycle, wire, mode, log, cycles, consent>>

-----------------------------------------------------------------------------
Plan == [n: 1 .. MaxCycles, tier: 0 .. 2, safe: BOOLEAN]

\* A typed line: a word of approval, any other, or the word "timeout", which
\* the prompt also uses for itself.
Answer == {"yes", "no", "timeout"}

Verdict == {"APPROVED", "REJECTED_FAST", "REJECTED_OPERATOR", "TIMED_OUT_FALLBACK"}
ASSUME NoneAssumption == None \notin Plan \union Answer \union Verdict

Command == {"navigate", "emergency_stop"}
RequestTo == [n: 1 .. MaxCycles, cmd: Command]

Init ==
  /\ pc = [c \in Console |-> "idle"] /\ plan = [c \in Console |-> None]
  /\ fired = [c \in Console |-> FALSE] /\ prompt = [c \in Console |-> "off"]
  /\ line = [c \in Console |-> None] /\ queue = [c \in Console |-> None]
  /\ verdict = [c \in Console |-> None]
  /\ wire = {} /\ mode = [is |-> "idle", by |-> 0]
  /\ log = <<>> /\ cycles = 0 /\ consent = {}

\* A record of cycle plan[c]; what is the verdict or the effector's receipt.
Sealed(c, act, what) ==
  Append(log, [act |-> act, n |-> plan[c].n, what |-> what])

\* Mutant: the verdict of a cycle is still there in the next.
End_VerdictKept(c) ==
  /\ pc' = [pc EXCEPT ![c] = "idle"] /\ plan' = [plan EXCEPT ![c] = None]
  /\ fired' = [fired EXCEPT ![c] = FALSE] /\ prompt' = [prompt EXCEPT ![c] = "off"]
  /\ line' = [line EXCEPT ![c] = None] /\ queue' = [queue EXCEPT ![c] = None]
  /\ UNCHANGED verdict

\* The cycle ends, by a return, an exception or the end of the process.
End(c) ==
  /\ pc' = [pc EXCEPT ![c] = "idle"] /\ plan' = [plan EXCEPT ![c] = None]
  /\ fired' = [fired EXCEPT ![c] = FALSE] /\ prompt' = [prompt EXCEPT ![c] = "off"]
  /\ line' = [line EXCEPT ![c] = None] /\ queue' = [queue EXCEPT ![c] = None]
  /\ verdict' = [verdict EXCEPT ![c] = None]

-----------------------------------------------------------------------------
(* run_c2_cycle up to the gate.                                            *)

\* Without a finding the cycle is over (one record, no COA): it is not begun
\* here.  With one, the COA is sealed (left out of log: nothing depends on it), the
\* prompt task started, and the gate decides at once or waits.  auto is --yes or
\* --no, None when the terminal is read.
Open(c, p, auto) ==
  /\ pc[c] = "idle" /\ p.n = cycles + 1
  /\ cycles' = cycles + 1
  /\ \/ /\ plan' = [plan EXCEPT ![c] = p]
        /\ verdict' = [verdict EXCEPT ![c] =
             IF ~ p.safe THEN "REJECTED_FAST" ELSE IF p.tier = 0 THEN "APPROVED" ELSE None]
        /\ pc' = [pc EXCEPT ![c] = IF verdict'[c] = None THEN "gate" ELSE "join"]
        /\ prompt' = [prompt EXCEPT ![c] = IF auto = None THEN "reading" ELSE "done"]
        /\ queue' = [queue EXCEPT ![c] = auto]
        /\ consent' = IF auto = "yes" THEN consent \union {p.n} ELSE consent
        /\ UNCHANGED <<fired, line>>
     \/ AuditFaults /\ UNCHANGED <<cycle, consent>>
  /\ UNCHANGED <<wire, mode, log>>

-----------------------------------------------------------------------------
(* prompt_operator_decision                                                *)

\* External: the operator types a line.
Type(c, a) ==
  /\ prompt[c] = "reading" /\ line[c] = None
  /\ line' = [line EXCEPT ![c] = a]
  /\ consent' = IF a = "yes" /\ ~ fired[c] THEN consent \union {plan[c].n} ELSE consent
  /\ UNCHANGED <<pc, plan, fired, prompt, queue, verdict, wire, mode, log, cycles>>

Prompted(c, put) ==
  /\ prompt' = [prompt EXCEPT ![c] = "done"]
  /\ queue' = [queue EXCEPT ![c] = put]
  /\ UNCHANGED <<pc, plan, fired, line, verdict, wire, mode, log, cycles, consent>>

\* The line is taken off the terminal; "timeout" puts nothing in the queue.
PromptAnswers(c) ==
  /\ prompt[c] = "reading" /\ line[c] # None
  /\ Prompted(c, IF line[c] = "timeout" THEN None ELSE line[c])

\* Mutant: the prompt waits for the terminal without a timer.
PromptExpires_Never(c) == FALSE

\* The prompt's timer, armed after the gate's if the gate waits.  A line that
\* was typed and not yet taken is lost.
PromptExpires(c) ==
  /\ prompt[c] = "reading"
  /\ pc[c] = "gate" => fired[c]
  /\ Prompted(c, None)

-----------------------------------------------------------------------------
(* LatencyBoundedGate.evaluate                                             *)

GateTimer(c) ==
  /\ pc[c] = "gate" /\ ~ fired[c]
  /\ fired' = [fired EXCEPT ![c] = TRUE]
  /\ UNCHANGED <<pc, plan, prompt, line, queue, verdict, wire, mode, log, cycles, consent>>

\* Mutant: an answer that is in the queue when the timer fires is still taken.
Verdict_QueueFirst(c) ==
  IF queue[c] = "yes" THEN "APPROVED"
  ELSE IF queue[c] = "no" THEN "REJECTED_OPERATOR" ELSE "TIMED_OUT_FALLBACK"

\* wait_for cancels the wait when the timer has fired, also if an answer came
\* in meanwhile.
VerdictOf(c) ==
  IF fired[c] THEN "TIMED_OUT_FALLBACK"
  ELSE IF queue[c] = "yes" THEN "APPROVED" ELSE "REJECTED_OPERATOR"

Evaluate(c) ==
  /\ pc[c] = "gate"
  /\ fired[c] \/ queue[c] # None
  /\ verdict' = [verdict EXCEPT ![c] = VerdictOf(c)]
  /\ pc' = [pc EXCEPT ![c] = "join"]
  /\ UNCHANGED <<plan, fired, prompt, line, queue, wire, mode, log, cycles, consent>>

-----------------------------------------------------------------------------
(* run_c2_cycle from the gate on.                                          *)

\* Mutant: an answer that is not a yes also goes to the effector.
Commands_Denied == {"APPROVED", "REJECTED_OPERATOR", "TIMED_OUT_FALLBACK"}

\* The verdicts that lead to a command.
Commands == {"APPROVED", "TIMED_OUT_FALLBACK"}

\* The cycle waits for the prompt task, then seals the decision.
Join(c) ==
  /\ pc[c] = "join" /\ prompt[c] = "done"
  /\ \/ /\ log' = Sealed(c, "gate_decision", verdict[c])
        /\ IF verdict[c] \in Commands
           THEN /\ pc' = [pc EXCEPT ![c] = "send"]
                /\ UNCHANGED <<plan, fired, prompt, line, queue, verdict>>
           ELSE End(c)
     \/ AuditFaults /\ End(c) /\ UNCHANGED log
  /\ UNCHANGED <<wire, mode, cycles, consent>>

\* Mutant: a timeout is answered with a dispatch.
CommandOf_Navigate(c) == "navigate"

CommandOf(c) == IF verdict[c] = "TIMED_OUT_FALLBACK" THEN "emergency_stop" ELSE "navigate"

Send(c) ==
  /\ pc[c] = "send"
  /\ wire' = wire \union {[n |-> plan[c].n, cmd |-> CommandOf(c)]}
  /\ pc' = [pc EXCEPT ![c] = "call"]
  /\ UNCHANGED <<plan, fired, prompt, line, queue, verdict, mode, log, cycles, consent>>

\* httpx raises: no connection, a status that is an error, no answer in time.
CallFails(c) ==
  /\ HttpFaults /\ pc[c] = "call"
  /\ End(c)
  /\ UNCHANGED <<wire, mode, log, cycles, consent>>

\* Mutant: the command is not recorded.
Record_Skipped(c) ==
  /\ pc[c] = "record" /\ End(c) /\ UNCHANGED <<wire, mode, log, cycles, consent>>

Record(c) ==
  /\ pc[c] = "record"
  /\ \/ log' = IF verdict[c] = "APPROVED" THEN Sealed(c, "dispatch", "navigating")
               ELSE Sealed(c, "station_keep", "station_keep")
     \/ AuditFaults /\ UNCHANGED log
  /\ End(c)
  /\ UNCHANGED <<wire, mode, cycles, consent>>

Crash(c) ==
  /\ Crashes /\ pc[c] # "idle"
  /\ End(c)
  /\ UNCHANGED <<wire, mode, log, cycles, consent>>

-----------------------------------------------------------------------------
(* The effector (mocks/usv.py) and the network.                            *)

\* Mutant: an emergency stop leaves the mode alone.
ModeAfter_StopIgnored(r) ==
  IF r.cmd = "navigate" THEN [is |-> "navigating", by |-> r.n] ELSE mode

ModeAfter(r) ==
  [is |-> IF r.cmd = "navigate" THEN "navigating" ELSE "station_keep", by |-> r.n]

\* The request is served, whoever still waits for it.
Serve(r) ==
  /\ wire' = wire \ {r}
  /\ mode' = ModeAfter(r)
  /\ \/ pc' = [c \in Console |->
                 IF pc[c] = "call" /\ plan[c].n = r.n THEN "record" ELSE pc[c]]
     \/ HttpFaults /\ UNCHANGED pc
  /\ UNCHANGED <<plan, fired, prompt, line, queue, verdict, log, cycles, consent>>

Drop(r) ==
  /\ HttpFaults
  /\ wire' = wire \ {r}
  /\ UNCHANGED <<cycle, mode, log, cycles, consent>>

-----------------------------------------------------------------------------
\* What a console does once it can.
Step(c) ==
  \/ PromptAnswers(c) \/ PromptExpires(c) \/ GateTimer(c) \/ Evaluate(c)
  \/ Join(c) \/ Send(c) \/ CallFails(c) \/ Record(c)

Next ==
  \/ \E c \in Console :
       \/ \E p \in [n: {cycles + 1} \cap (1 .. MaxCycles), tier: Tiers, safe: BOOLEAN], auto \in {None, "yes", "no"} :
            Open(c, p, auto)
       \/ \E a \in Answer : Type(c, a)
       \/ Step(c) \/ Crash(c)
  \/ \E r \in wire : Serve(r) \/ Drop(r)

Spec == Init /\ [][Next]_vars

\* Timers fire, an event loop runs what is ready, httpx gives up waiting, the
\* effector serves what reaches it.  The operator may never type anything.
FairSpec ==
  /\ Spec
  /\ \A c \in Console : WF_vars(Step(c))
  /\ \A r \in RequestTo : WF_vars(r \in wire /\ Serve(r))

-----------------------------------------------------------------------------
(* Properties.                                                             *)

LogRecord ==
  [act: {"gate_decision", "dispatch", "station_keep"}, n: 1 .. MaxCycles,
   what: Verdict \union {"navigating", "station_keep"}]

\* The variables have their types; a cycle has a plan and a prompt, and a verdict
\* from the gate on.
TypeOK ==
  /\ pc \in [Console -> {"idle", "gate", "join", "send", "call", "record"}]
  /\ plan \in [Console -> Plan \union {None}]
  /\ fired \in [Console -> BOOLEAN]
  /\ prompt \in [Console -> {"off", "reading", "done"}]
  /\ line \in [Console -> Answer \union {None}]
  /\ queue \in [Console -> {"yes", "no", None}]
  /\ verdict \in [Console -> Verdict \union {None}]
  /\ wire \subseteq RequestTo
  /\ mode \in [is: {"idle", "navigating", "station_keep"}, by: 0 .. MaxCycles]
  /\ log \in Seq(LogRecord)
  /\ cycles \in 0 .. MaxCycles /\ consent \subseteq 1 .. MaxCycles
  /\ \A c \in Console :
       /\ pc[c] = "idle" <=> plan[c] = None
       /\ pc[c] = "idle" <=> prompt[c] = "off"
       /\ pc[c] \in {"idle", "gate"} <=> verdict[c] = None

Decided(n, v) ==
  \E i \in 1 .. Len(log) : log[i].act = "gate_decision" /\ log[i].n = n /\ log[i].what = v

Navigated == {r.n : r \in {r \in wire : r.cmd = "navigate"}}
               \union (IF mode.is = "navigating" THEN {mode.by} ELSE {})

\* The effector is sent somewhere, now or by a request that is still on its way,
\* only for a cycle whose approval is sealed: also when the append raises, the
\* console dies, the answer comes late or another console commands meanwhile.
NavigatesOnApproval == \A n \in Navigated : Decided(n, "APPROVED")

\* Above tier 0 an approval is that of an operator who answered before the gate's
\* time was up: an answer that crosses the timeout counts for nothing.
ApprovedInTime ==
  \A c \in Console :
    verdict[c] = "APPROVED" /\ plan[c].tier # 0 => plan[c].n \in consent

Quiet == \A c \in Console : pc[c] = "idle"

Last(acts, i) == log[i].act \in acts /\ \A j \in (i + 1) .. Len(log) : log[j].act \notin acts

\* Between cycles the last command in the trail is the one the effector obeyed
\* last: nothing moved or stopped it that is not recorded.
EffectorAsRecorded ==
  Quiet /\ mode.is # "idle" =>
    \E i \in 1 .. Len(log) :
      /\ Last({"dispatch", "station_keep"}, i)
      /\ log[i].n = mode.by /\ log[i].what = mode.is

\* Between cycles, when the last sealed decision was a timeout, the effector keeps
\* station: wherever an earlier cycle sent it, it has been told to stop.
TimeoutStops ==
  Quiet => \A i \in 1 .. Len(log) :
             Last({"gate_decision"}, i) /\ log[i].what = "TIMED_OUT_FALLBACK"
               => mode.is = "station_keep"

\* Every cycle ends, though the operator may never answer, the timers race and
\* requests get lost.
CycleEnds == \A c \in Console : pc[c] # "idle" ~> pc[c] = "idle"

\* A timeout brings the effector to station keeping.
TimeoutReachesEffector ==
  \A c \in Console : verdict[c] = "TIMED_OUT_FALLBACK" ~> mode.is = "station_keep"
=============================================================================
