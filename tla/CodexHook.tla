------------------------------ MODULE CodexHook ------------------------------
(***************************************************************************)
(* The hooks of a Codex session, one process for each of its events: the   *)
(* plugin's script, which looks for the CLI, and `beforedone hook codex',  *)
(* which records the event in the ledger and, when the agent stops,        *)
(* answers whether it may.                                                 *)
(*                                                                         *)
(* An event is stamped before the ledger's lock is awaited, so that the    *)
(* order of the ledger is not the order of time.  Codex is external: it    *)
(* awaits its Stop hook, sets stop_hook_active when it goes on because     *)
(* that hook blocked, and kills a hook that takes too long.                *)
(***************************************************************************)
EXTENDS Integers, Sequences, FiniteSets

CONSTANTS
  Hooks,      \* the hook processes; one also stands for its event's id
  None,       \* no value
  MaxTime,    \* bound on the clock
  HookFaults  \* what may go wrong: "cli" no CLI, or an incompatible one, is
              \* found, "input" the input is not one JSON object, "repo" there
              \* is no repository, "io" the event cannot be recorded, "kill"
              \* Codex ends the process

(* hook_event_name.  ToolUse stands for PreToolUse and PostToolUse, which  *)
(* are treated alike, as is the end of a session; SubagentStart for every  *)
(* start that names an agent, SessionStart for every one that does not.    *)
HookNames == {"SessionStart", "SubagentStart", "UserPromptSubmit", "ToolUse",
              "SubagentStop", "Stop"}

ASSUME HookAssumption ==
  /\ None \notin HookNames
  /\ MaxTime \in Nat \ {0}
  /\ HookFaults \subseteq {"cli", "input", "repo", "io", "kill"}

VARIABLES
  now,         \* the clock
  events,      \* the ledger
  phase,       \* how far a hook process is
  name,        \* its hook_event_name
  active,      \* its stop_hook_active
  stamp,       \* its event's occurred_at
  answer,      \* what it has written
  turn,        \* the agent's turn: "running", "continued" because a Stop was
               \* blocked, or "ended"
  blocks       \* history: stops blocked since the last prompt

hookVars == <<phase, name, active, stamp, answer, turn, blocks>>
vars     == <<now, events, hookVars>>

(* "done" has answered what it was asked, "refused" has been asked nothing.*)
Ended      == {"done", "refused", "killed"}
HookPhases == {"idle", "begun", "stamped", "gate"} \cup Ended

(* "quiet" is an empty object or no output, "message" an object with a     *)
(* systemMessage, "error" an exit code without an object.                  *)
Outputs == {"none", "quiet", "message", "block", "error"}

(* What is kept of an event: its id, when it occurred, whether it begins a *)
(* session of the agent itself, and whose failing check it claims to be,   *)
(* which no event of Codex does.                                           *)
Normalized(h) ==
  [id |-> h, at |-> stamp[h], root |-> name[h] = "SessionStart", claims |-> {}]

Init ==
  /\ now = 1
  /\ events = <<>>
  /\ phase = [h \in Hooks |-> "idle"]
  /\ name = [h \in Hooks |-> None]
  /\ active = [h \in Hooks |-> FALSE]
  /\ stamp = [h \in Hooks |-> 0]
  /\ answer = [h \in Hooks |-> "none"]
  /\ turn = "ended"
  /\ blocks = 0

Tick ==
  /\ now < MaxTime
  /\ now' = now + 1
  /\ UNCHANGED <<events, hookVars>>

-----------------------------------------------------------------------------
(* Codex starts the hook.  A prompt of the user begins a turn, also when   *)
(* the last one has been interrupted.                                      *)
Fire(h, n) ==
  /\ phase[h] = "idle"
  /\ n \in {"Stop", "UserPromptSubmit"} =>
       \A g \in Hooks : name[g] = "Stop" => phase[g] \in Ended
  /\ n = "Stop" => turn # "ended"
  /\ phase' = [phase EXCEPT ![h] = "begun"]
  /\ name' = [name EXCEPT ![h] = n]
  /\ active' = [active EXCEPT ![h] = (n = "Stop" /\ turn = "continued")]
  /\ IF n = "UserPromptSubmit"
     THEN turn' = "running" /\ blocks' = 0
     ELSE UNCHANGED <<turn, blocks>>
  /\ UNCHANGED <<now, events, stamp, answer>>

(* NormalizeCodex                                                          *)
Stamp(h) ==
  /\ phase[h] = "begun"
  /\ phase' = [phase EXCEPT ![h] = "stamped"]
  /\ stamp' = [stamp EXCEPT ![h] = now]
  /\ UNCHANGED <<now, events, name, active, answer, turn, blocks>>

(* The hook ends before it knows of an event.  Codex goes on: only a block *)
(* keeps an agent from stopping.                                           *)
Refuse(h, what) ==
  /\ phase[h] = "begun"
  /\ phase' = [phase EXCEPT ![h] = "refused"]
  /\ answer' = [answer EXCEPT ![h] = what]
  /\ turn' = IF name[h] = "Stop" THEN "ended" ELSE turn
  /\ UNCHANGED <<now, events, name, active, stamp, blocks>>

(* The plugin's script finds no CLI, or its version is not the CLI's.      *)
NoCompatibleCLI(h) == "cli" \in HookFaults /\ Refuse(h, "message")

(* The input cannot be read, is too long, or is not one JSON object.       *)
RefuseInput(h) == "input" \in HookFaults /\ Refuse(h, "error")

(* The process writes its answer and exits; Codex acts on a Stop's.        *)
Answer(h, what) ==
  /\ phase' = [phase EXCEPT ![h] = "done"]
  /\ answer' = [answer EXCEPT ![h] = what]
  /\ IF name[h] = "Stop"
     THEN /\ turn' = IF what = "block" THEN "continued" ELSE "ended"
          /\ blocks' = IF what = "block" THEN blocks + 1 ELSE blocks
     ELSE UNCHANGED <<turn, blocks>>

AskGate(h) ==
  phase' = [phase EXCEPT ![h] = "gate"] /\ UNCHANGED <<answer, turn, blocks>>

(* Faults: a stop that is not the first is treated as the first; a stop is *)
(* judged although it could not be recorded.                               *)
AnswerWithoutGuard(h, recorded) ==
  IF name[h] = "Stop"
  THEN IF recorded = "yes" THEN AskGate(h) ELSE Answer(h, "block")
  ELSE Answer(h, "quiet")

AnswerUnrecorded(h, recorded) ==
  IF name[h] = "Stop" /\ ~active[h] THEN AskGate(h) ELSE Answer(h, "quiet")

(* What codexWithValidationBudget answers, once the event is recorded or   *)
(* is not.  Outside a repository nothing is recorded and nothing is lost.  *)
AnswerOrGate(h, recorded) ==
  CASE name[h] = "Stop" /\ ~active[h] ->
         IF recorded = "yes" THEN AskGate(h) ELSE Answer(h, "block")
    [] name[h] = "SubagentStop" \/ (name[h] = "Stop" /\ active[h]) ->
         Answer(h, IF recorded = "lost" THEN "message" ELSE "quiet")
    [] OTHER ->
         Answer(h, IF recorded = "lost" THEN "error" ELSE "quiet")

(* AppendEvent has stored the event.                                       *)
Record(h) ==
  /\ phase[h] = "stamped"
  /\ events' = Append(events, Normalized(h))
  /\ AnswerOrGate(h, "yes")
  /\ UNCHANGED <<now, name, active, stamp>>

(* EnsureRuntime, NormalizeCodex or AppendEvent fails; the last may have   *)
(* stored the event before it does.                                        *)
LoseEvent(h) ==
  /\ "io" \in HookFaults
  /\ phase[h] \in {"begun", "stamped"}
  /\ \/ UNCHANGED events
     \/ phase[h] = "stamped" /\ events' = Append(events, Normalized(h))
  /\ AnswerOrGate(h, "lost")
  /\ UNCHANGED <<now, name, active, stamp>>

(* repository.Discover fails.                                              *)
NoRepository(h) ==
  /\ "repo" \in HookFaults
  /\ phase[h] = "begun"
  /\ AnswerOrGate(h, "nowhere")
  /\ UNCHANGED <<now, events, name, active, stamp>>

(* config.Load and gate.EvaluateWithBudget: a block, a warning or neither. *)
JudgeStop(h, what) ==
  /\ phase[h] = "gate"
  /\ Answer(h, what)
  /\ UNCHANGED <<now, events, name, active, stamp>>

(* Codex ends a hook that takes too long, or does not get its answer, and  *)
(* goes on without.  Nothing waits for the other hooks: a killed one just  *)
(* goes no further.                                                        *)
KillHook(h) ==
  /\ "kill" \in HookFaults
  /\ name[h] = "Stop"
  /\ phase[h] \in {"begun", "stamped", "gate"}
  /\ phase' = [phase EXCEPT ![h] = "killed"]
  /\ turn' = "ended"
  /\ UNCHANGED <<now, events, name, active, stamp, answer, blocks>>

Work(h) ==
  \/ NoCompatibleCLI(h)
  \/ RefuseInput(h)
  \/ Stamp(h)
  \/ Record(h)
  \/ LoseEvent(h)
  \/ NoRepository(h)
  \/ \E what \in {"quiet", "message", "block"} : JudgeStop(h, what)

HookNext ==
  \E h \in Hooks : (\E n \in HookNames : Fire(h, n)) \/ Work(h) \/ KillHook(h)

Next == Tick \/ HookNext

Spec == Init /\ [][Next]_vars

-----------------------------------------------------------------------------
HookTypeOK ==
  /\ now \in 1 .. MaxTime
  /\ phase \in [Hooks -> HookPhases]
  /\ name \in [Hooks -> HookNames \cup {None}]
  /\ active \in [Hooks -> BOOLEAN]
  /\ stamp \in [Hooks -> 0 .. now]
  /\ answer \in [Hooks -> Outputs]
  /\ turn \in {"running", "continued", "ended"}
  /\ blocks \in Nat

Recorded(h) == \E i \in DOMAIN events : events[i].id = h

(* TestStopBlocksOnlyFirstAttemptWhenEvidenceIsMissing: whatever is lost,  *)
(* killed or judged, a turn is blocked once at most.                       *)
BlockedOnce == blocks <= 1

(* codex.go:105: a first stop that the hook was asked about is let through *)
(* only if it is on record, whatever fails.  One that goes through without *)
(* was never asked about, and then the answer says so (cli.go:634, the     *)
(* plugin's script, the error of a refused input), or it was not answered. *)
StopOnRecord ==
  \A h \in Hooks :
    name[h] = "Stop" /\ ~active[h] /\ phase[h] \in Ended /\ ~Recorded(h) =>
      \/ answer[h] = "block"
      \/ phase[h] = "refused" /\ answer[h] # "quiet"
      \/ phase[h] = "killed" /\ answer[h] = "none"
=============================================================================
