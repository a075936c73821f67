--------------------------- MODULE CodexHookProofs ---------------------------
(***************************************************************************)
(* A turn of Codex is blocked once at most, and a first stop that the hook *)
(* was asked about goes through only if it is on record, for every number  *)
(* of hooks.                                                               *)
(*                                                                         *)
(* That a stop is the first is told by stop_hook_active, which Codex sets  *)
(* when the hook is started.  The invariant says that this is still true   *)
(* when the hook answers: of the hooks that wait to answer a stop there is *)
(* one at most, and the turn has not moved since it was started.           *)
(***************************************************************************)
EXTENDS CodexHook, SequenceTheorems, TLAPS

(* Other adapters append to the ledger too.                                *)
Ledger == \E E : events \in Seq(E)

Waiting(h) == name[h] = "Stop" /\ phase[h] \in {"begun", "stamped", "gate"}

OneWaits == \A g, h \in Hooks : Waiting(g) /\ Waiting(h) => g = h

FlagHolds ==
  \A h \in Hooks : Waiting(h) => turn # "ended" /\ (active[h] <=> turn = "continued")

GateIsFirst ==
  \A h \in Hooks : phase[h] = "gate" => name[h] = "Stop" /\ ~active[h] /\ Recorded(h)

FreshTurn == turn = "running" => blocks = 0

AnsweredAtEnd == \A h \in Hooks : answer[h] # "none" => phase[h] \in {"done", "refused"}

HookIInv ==
  /\ HookTypeOK
  /\ Ledger
  /\ OneWaits /\ FlagHolds /\ GateIsFirst /\ FreshTurn /\ AnsweredAtEnd
  /\ BlockedOnce /\ StopOnRecord

(* Before the first hook nothing waits and nothing was answered.           *)
THEOREM HookInit == Init => HookIInv
<1> SUFFICES ASSUME Init PROVE HookIInv
  OBVIOUS
<1> USE HookAssumption DEF Init
<1>1. HookTypeOK
  BY DEF HookTypeOK, HookPhases, Ended, Outputs
<1>2. Ledger
  <2>1. events \in Seq({})
    OBVIOUS
  <2> QED
    BY <2>1 DEF Ledger
<1>3. OneWaits /\ FlagHolds /\ GateIsFirst /\ FreshTurn /\ AnsweredAtEnd
  BY DEF OneWaits, FlagHolds, GateIsFirst, FreshTurn, AnsweredAtEnd, Waiting
<1>4. BlockedOnce /\ StopOnRecord
  BY DEF BlockedOnce, StopOnRecord, Ended
<1> QED
  BY <1>1, <1>2, <1>3, <1>4 DEF HookIInv

(* The ledger only grows.                                                  *)
LEMMA LedgerGrows ==
  ASSUME Ledger, NEW e, events' = Append(events, e)
  PROVE  /\ Ledger'
         /\ \A h \in Hooks : Recorded(h) => Recorded(h)'
         /\ Recorded(e.id)'
<1>1. PICK E : events \in Seq(E)
  BY DEF Ledger
<1> DEFINE F == E \cup {e}
<1>2. events \in Seq(F) /\ e \in F
  BY <1>1, SeqMonotonic
<1> HIDE DEF F
<1>3. /\ events' \in Seq(F)
      /\ DOMAIN events = 1 .. Len(events)
      /\ DOMAIN events' = 1 .. Len(events) + 1
      /\ Len(events) \in Nat
      /\ \A i \in 1 .. Len(events) : events'[i] = events[i]
      /\ events'[Len(events) + 1] = e
  BY <1>2
<1>4. ASSUME NEW h \in Hooks, Recorded(h) PROVE Recorded(h)'
  <2>1. PICK i \in DOMAIN events : events[i].id = h
    BY <1>4 DEF Recorded
  <2>2. i \in DOMAIN events' /\ events'[i].id = h
    BY <1>3, <2>1
  <2> QED
    BY <2>2 DEF Recorded
<1>5. Recorded(e.id)'
  <2>1. Len(events) + 1 \in DOMAIN events' /\ events'[Len(events) + 1].id = e.id
    BY <1>3
  <2> QED
    BY <2>1 DEF Recorded
<1> QED
  BY <1>3, <1>4, <1>5 DEF Ledger

-----------------------------------------------------------------------------
(* A hook that was asked answers.  It blocks no stop but a first one, and  *)
(* lets no first one through that is not on record.                        *)
LEMMA AnswerKeeps ==
  ASSUME HookIInv, NEW h \in Hooks, phase[h] \in {"begun", "stamped", "gate"},
         NEW what \in {"quiet", "message", "block", "error"}, Answer(h, what),
         what = "block" /\ name[h] = "Stop" => ~active[h],
         name[h] = "Stop" /\ ~active[h] /\ what # "block" => Recorded(h)',
         Ledger', \A g \in Hooks : Recorded(g) => Recorded(g)',
         UNCHANGED <<now, name, active, stamp>>
  PROVE  HookIInv'
<1> USE DEF HookIInv, Answer
<1>1. /\ phase' = [phase EXCEPT ![h] = "done"]
      /\ answer' = [answer EXCEPT ![h] = what]
      /\ phase'[h] = "done" /\ answer'[h] = what
      /\ \A g \in Hooks \ {h} : phase'[g] = phase[g] /\ answer'[g] = answer[g]
  BY DEF HookTypeOK
<1>2. name[h] = "Stop" =>
        /\ turn \in {"running", "continued"} /\ (active[h] <=> turn = "continued")
        /\ turn' = IF what = "block" THEN "continued" ELSE "ended"
        /\ blocks' = IF what = "block" THEN blocks + 1 ELSE blocks
  BY DEF FlagHolds, Waiting, HookTypeOK
<1>3. name[h] # "Stop" => UNCHANGED <<turn, blocks>>
  OBVIOUS
<1>4. HookTypeOK'
  <2>1. turn' \in {"running", "continued", "ended"} /\ blocks' \in Nat
    BY <1>2, <1>3 DEF HookTypeOK
  <2>2. phase' \in [Hooks -> HookPhases] /\ answer' \in [Hooks -> Outputs]
    BY <1>1 DEF HookTypeOK, HookPhases, Ended, Outputs
  <2> QED
    BY <2>1, <2>2 DEF HookTypeOK
<1>5. \A g \in Hooks : Waiting(g)' => g # h /\ Waiting(g)
  BY <1>1 DEF Waiting
<1>6. OneWaits'
  BY <1>5 DEF OneWaits
<1>7. FlagHolds'
  <2> SUFFICES ASSUME NEW g \in Hooks, Waiting(g)'
               PROVE  turn' # "ended" /\ (active'[g] <=> turn' = "continued")
    BY DEF FlagHolds
  <2>1. g # h /\ Waiting(g)
    BY <1>5
  <2>2. name[h] # "Stop"
    BY <2>1 DEF OneWaits, Waiting
  <2> QED
    BY <2>1, <2>2, <1>3 DEF FlagHolds
<1>8. GateIsFirst' /\ AnsweredAtEnd'
  BY <1>1 DEF GateIsFirst, AnsweredAtEnd
<1>9. FreshTurn' /\ BlockedOnce'
  <2>1. CASE name[h] = "Stop" /\ what = "block"
    <3>1. turn = "running" /\ blocks = 0
      BY <1>2, <2>1 DEF FreshTurn
    <3> QED
      BY <1>2, <2>1, <3>1 DEF FreshTurn, BlockedOnce
  <2>2. CASE name[h] = "Stop" /\ what # "block"
    BY <1>2, <2>2 DEF FreshTurn, BlockedOnce
  <2>3. CASE name[h] # "Stop"
    BY <1>3, <2>3 DEF FreshTurn, BlockedOnce
  <2> QED
    BY <2>1, <2>2, <2>3
<1>10. StopOnRecord'
  <2> SUFFICES ASSUME NEW g \in Hooks, name[g] = "Stop", ~active[g], phase'[g] \in Ended,
                      ~Recorded(g)'
               PROVE  \/ answer'[g] = "block"
                      \/ phase'[g] = "refused" /\ answer'[g] # "quiet"
                      \/ phase'[g] = "killed" /\ answer'[g] = "none"
    BY DEF StopOnRecord
  <2>1. CASE g = h
    BY <1>1, <2>1
  <2>2. CASE g # h
    BY <1>1, <2>2 DEF StopOnRecord
  <2> QED
    BY <2>1, <2>2
<1> QED
  BY <1>4, <1>6, <1>7, <1>8, <1>9, <1>10

(* A first stop that is on record goes to the gate.                        *)
LEMMA AskKeeps ==
  ASSUME HookIInv, NEW h \in Hooks, phase[h] \in {"begun", "stamped"}, AskGate(h),
         name[h] = "Stop", ~active[h], Recorded(h)',
         Ledger', \A g \in Hooks : Recorded(g) => Recorded(g)',
         UNCHANGED <<now, name, active, stamp>>
  PROVE  HookIInv'
<1> USE DEF HookIInv, AskGate
<1>1. /\ phase' = [phase EXCEPT ![h] = "gate"]
      /\ phase'[h] = "gate"
      /\ \A g \in Hooks \ {h} : phase'[g] = phase[g]
  BY DEF HookTypeOK
<1>2. HookTypeOK'
  BY <1>1 DEF HookTypeOK, HookPhases, Ended
<1>3. \A g \in Hooks : Waiting(g)' => Waiting(g)
  BY <1>1 DEF Waiting
<1>4. OneWaits' /\ FlagHolds'
  BY <1>3 DEF OneWaits, FlagHolds
<1>5. GateIsFirst'
  BY <1>1 DEF GateIsFirst
<1>6. AnsweredAtEnd'
  BY <1>1 DEF AnsweredAtEnd
<1>7. FreshTurn' /\ BlockedOnce' /\ StopOnRecord'
  BY <1>1 DEF FreshTurn, BlockedOnce, StopOnRecord, Ended
<1> QED
  BY <1>2, <1>4, <1>5, <1>6, <1>7

(* codexWithValidationBudget, once the event is recorded or is not.        *)
LEMMA AnswerOrGateKeeps ==
  ASSUME HookIInv, NEW h \in Hooks, phase[h] \in {"begun", "stamped"},
         NEW recorded \in {"yes", "lost", "nowhere"}, AnswerOrGate(h, recorded),
         recorded = "yes" => Recorded(h)',
         Ledger', \A g \in Hooks : Recorded(g) => Recorded(g)',
         UNCHANGED <<now, name, active, stamp>>
  PROVE  HookIInv'
<1>1. CASE name[h] = "Stop" /\ ~active[h] /\ recorded = "yes"
  BY <1>1, AskKeeps DEF AnswerOrGate
<1>2. CASE name[h] = "Stop" /\ ~active[h] /\ recorded # "yes"
  <2>1. Answer(h, "block")
    BY <1>2 DEF AnswerOrGate
  <2> QED
    BY <1>2, <2>1, AnswerKeeps
<1>3. CASE name[h] # "Stop" \/ active[h]
  <2>1. PICK what \in {"quiet", "message", "error"} : Answer(h, what)
    BY <1>3 DEF AnswerOrGate
  <2> QED
    BY <1>3, <2>1, AnswerKeeps
<1> QED
  BY <1>1, <1>2, <1>3

(* A hook that was asked nothing blocks nothing, and says so.              *)
LEMMA RefuseKeeps ==
  ASSUME HookIInv, NEW h \in Hooks, NEW what \in {"message", "error"}, Refuse(h, what)
  PROVE  HookIInv'
<1> USE DEF HookIInv, Refuse, Ledger
<1>1. /\ phase'[h] = "refused" /\ answer'[h] = what
      /\ \A g \in Hooks \ {h} : phase'[g] = phase[g] /\ answer'[g] = answer[g]
  BY DEF HookTypeOK
<1>2. HookTypeOK'
  <2>1. phase' \in [Hooks -> HookPhases] /\ answer' \in [Hooks -> Outputs]
    BY DEF HookTypeOK, HookPhases, Ended, Outputs
  <2>2. turn' \in {"running", "continued", "ended"}
    BY DEF HookTypeOK
  <2> QED
    BY <2>1, <2>2 DEF HookTypeOK
<1>3. \A g \in Hooks : Waiting(g)' => g # h /\ Waiting(g)
  BY <1>1 DEF Waiting
<1>4. OneWaits'
  BY <1>3 DEF OneWaits
<1>5. FlagHolds'
  <2> SUFFICES ASSUME NEW g \in Hooks, Waiting(g)'
               PROVE  turn' # "ended" /\ (active'[g] <=> turn' = "continued")
    BY DEF FlagHolds
  <2>1. g # h /\ Waiting(g)
    BY <1>3
  <2>2. name[h] # "Stop"
    BY <2>1 DEF OneWaits, Waiting
  <2> QED
    BY <2>1, <2>2 DEF FlagHolds
<1>6. GateIsFirst' /\ AnsweredAtEnd'
  BY <1>1 DEF GateIsFirst, AnsweredAtEnd, Recorded
<1>7. FreshTurn' /\ BlockedOnce'
  BY DEF FreshTurn, BlockedOnce
<1>8. StopOnRecord'
  BY <1>1 DEF StopOnRecord, Recorded
<1> QED
  BY <1>2, <1>4, <1>5, <1>6, <1>7, <1>8

-----------------------------------------------------------------------------
(* Whichever step is taken, the invariant holds after it.                  *)
THEOREM HookStep == HookIInv /\ [Next]_vars => HookIInv'
<1> SUFFICES ASSUME HookIInv, [Next]_vars PROVE HookIInv'
  OBVIOUS
<1>1. ASSUME NEW h \in Hooks, NEW n \in HookNames, Fire(h, n) PROVE HookIInv'
  <2> USE <1>1 DEF HookIInv, Fire, Ledger
  <2>1. /\ phase'[h] = "begun" /\ name'[h] = n
        /\ active'[h] = (n = "Stop" /\ turn = "continued")
        /\ \A g \in Hooks \ {h} :
             phase'[g] = phase[g] /\ name'[g] = name[g] /\ active'[g] = active[g]
    BY DEF HookTypeOK
  <2>2. turn' = (IF n = "UserPromptSubmit" THEN "running" ELSE turn)
        /\ blocks' = (IF n = "UserPromptSubmit" THEN 0 ELSE blocks)
    OBVIOUS
  <2>3. HookTypeOK'
    <3>1. /\ phase' \in [Hooks -> HookPhases] /\ name' \in [Hooks -> HookNames \cup {None}]
          /\ active' \in [Hooks -> BOOLEAN]
      BY DEF HookTypeOK, HookPhases, Ended
    <3>2. turn' \in {"running", "continued", "ended"} /\ blocks' \in Nat
      BY <2>2 DEF HookTypeOK
    <3> QED
      BY <3>1, <3>2 DEF HookTypeOK
  <2>4. n \in {"Stop", "UserPromptSubmit"} => \A g \in Hooks : ~Waiting(g)
    <3>1. ASSUME NEW g \in Hooks, n \in {"Stop", "UserPromptSubmit"} PROVE ~Waiting(g)
      <4>1. name[g] = "Stop" => phase[g] \in Ended
        BY <3>1
      <4> QED
        BY <4>1 DEF Waiting, Ended
    <3> QED
      BY <3>1
  <2>5. \A g \in Hooks \ {h} : Waiting(g)' <=> Waiting(g)
    BY <2>1 DEF Waiting
  <2>6. Waiting(h)' => n = "Stop"
    BY <2>1 DEF Waiting
  <2>7. OneWaits'
    BY <2>4, <2>5, <2>6 DEF OneWaits
  <2>8. FlagHolds'
    <3> SUFFICES ASSUME NEW g \in Hooks, Waiting(g)'
                 PROVE  turn' # "ended" /\ (active'[g] <=> turn' = "continued")
      BY DEF FlagHolds
    <3>1. CASE g = h
      BY <2>1, <2>2, <2>6, <3>1
    <3>2. CASE g # h
      <4>1. Waiting(g) /\ n # "UserPromptSubmit"
        BY <2>4, <2>5, <3>2
      <4> QED
        BY <2>1, <2>2, <3>2, <4>1 DEF FlagHolds
    <3> QED
      BY <3>1, <3>2
  <2>9. GateIsFirst'
    BY <2>1 DEF GateIsFirst, Recorded
  <2>10. FreshTurn' /\ BlockedOnce'
    BY <2>2 DEF FreshTurn, BlockedOnce
  <2>11. AnsweredAtEnd'
    BY <2>1 DEF AnsweredAtEnd
  <2>12. StopOnRecord'
    <3>1. answer[h] = "none"
      BY DEF AnsweredAtEnd
    <3> QED
      BY <2>1, <3>1 DEF StopOnRecord, Recorded, Ended
  <2> QED
    BY <2>3, <2>7, <2>8, <2>9, <2>10, <2>11, <2>12
<1>2. ASSUME NEW h \in Hooks, Stamp(h) PROVE HookIInv'
  <2> USE <1>2 DEF HookIInv, Stamp, Ledger
  <2>1. /\ phase'[h] = "stamped" /\ \A g \in Hooks \ {h} : phase'[g] = phase[g]
    BY DEF HookTypeOK
  <2>2. HookTypeOK'
    BY DEF HookTypeOK, HookPhases, Ended
  <2>3. \A g \in Hooks : Waiting(g)' => Waiting(g)
    BY <2>1 DEF Waiting
  <2>4. OneWaits' /\ FlagHolds'
    BY <2>3 DEF OneWaits, FlagHolds
  <2>5. GateIsFirst' /\ AnsweredAtEnd' /\ StopOnRecord'
    BY <2>1 DEF GateIsFirst, AnsweredAtEnd, StopOnRecord, Recorded, Ended
  <2> QED
    BY <2>2, <2>4, <2>5 DEF FreshTurn, BlockedOnce
<1>3. ASSUME NEW h \in Hooks, phase[h] = "stamped", events' = Append(events, Normalized(h))
      PROVE  /\ Ledger' /\ Recorded(h)'
             /\ \A g \in Hooks : Recorded(g) => Recorded(g)'
  <2>1. Normalized(h).id = h
    BY DEF Normalized
  <2> QED
    BY <1>3, <2>1, LedgerGrows DEF HookIInv
<1>4. ASSUME UNCHANGED events
      PROVE  Ledger' /\ \A g \in Hooks : Recorded(g) => Recorded(g)'
  BY <1>4 DEF HookIInv, Recorded, Ledger
<1>5. ASSUME NEW h \in Hooks, Record(h) PROVE HookIInv'
  BY <1>3, <1>5, AnswerOrGateKeeps DEF Record
<1>6. ASSUME NEW h \in Hooks, LoseEvent(h) PROVE HookIInv'
  <2>1. Ledger' /\ \A g \in Hooks : Recorded(g) => Recorded(g)'
    BY <1>3, <1>4, <1>6 DEF LoseEvent
  <2> QED
    BY <1>6, <2>1, AnswerOrGateKeeps DEF LoseEvent
<1>7. ASSUME NEW h \in Hooks, NoRepository(h) PROVE HookIInv'
  BY <1>4, <1>7, AnswerOrGateKeeps DEF NoRepository
<1>8. ASSUME NEW h \in Hooks, NEW what \in {"quiet", "message", "block"}, JudgeStop(h, what)
      PROVE  HookIInv'
  <2>1. name[h] = "Stop" /\ ~active[h] /\ Recorded(h)
    BY <1>8 DEF JudgeStop, HookIInv, GateIsFirst
  <2> QED
    BY <1>4, <1>8, <2>1, AnswerKeeps DEF JudgeStop
<1>9. ASSUME NEW h \in Hooks, KillHook(h) PROVE HookIInv'
  <2> USE <1>9 DEF HookIInv, KillHook, Ledger
  <2>1. phase'[h] = "killed" /\ \A g \in Hooks \ {h} : phase'[g] = phase[g]
    BY DEF HookTypeOK
  <2>2. HookTypeOK'
    BY DEF HookTypeOK, HookPhases, Ended
  <2>3. \A g \in Hooks : ~Waiting(g)'
    BY <2>1 DEF Waiting, OneWaits
  <2>4. OneWaits' /\ FlagHolds'
    BY <2>3 DEF OneWaits, FlagHolds
  <2>5. GateIsFirst' /\ AnsweredAtEnd' /\ StopOnRecord'
    BY <2>1 DEF GateIsFirst, AnsweredAtEnd, StopOnRecord, Recorded, Ended
  <2> QED
    BY <2>2, <2>4, <2>5 DEF FreshTurn, BlockedOnce
<1>10. ASSUME NEW h \in Hooks, NoCompatibleCLI(h) \/ RefuseInput(h) PROVE HookIInv'
  BY <1>10, RefuseKeeps DEF NoCompatibleCLI, RefuseInput
<1>11. CASE Tick
  <2>1. HookTypeOK'
    BY <1>11, HookAssumption DEF HookIInv, Tick, hookVars, HookTypeOK
  <2> QED
    BY <1>11, <2>1 DEF HookIInv, Tick, hookVars, Ledger, OneWaits, FlagHolds, GateIsFirst, FreshTurn,
       AnsweredAtEnd, BlockedOnce, StopOnRecord, Waiting, Recorded
<1>12. CASE UNCHANGED vars
  BY <1>12 DEF HookIInv, vars, hookVars, HookTypeOK, Ledger, OneWaits, FlagHolds, GateIsFirst, FreshTurn,
     AnsweredAtEnd, BlockedOnce, StopOnRecord, Waiting, Recorded
<1> QED
  BY <1>1, <1>2, <1>5, <1>6, <1>7, <1>8, <1>9, <1>10, <1>11, <1>12
     DEF Next, HookNext, Work

(* The invariant that carries the others.                                  *)
THEOREM HookInductive == Spec => []HookIInv
<1> QED
  BY HookInit, HookStep, PTL DEF Spec

(* However many hooks a turn fires, and whichever are killed, fail or race,*)
(* a turn is blocked once at most.                                         *)
THEOREM BlockedOnceHolds == Spec => []BlockedOnce
<1>1. HookIInv => BlockedOnce
  BY DEF HookIInv
<1> QED
  BY <1>1, HookInductive, PTL

(* A first stop that goes through is in the ledger, unless the hook was    *)
(* not asked about it, and said so, or Codex did not wait for its answer.  *)
THEOREM StopOnRecordHolds == Spec => []StopOnRecord
<1>1. HookIInv => StopOnRecord
  BY DEF HookIInv
<1> QED
  BY <1>1, HookInductive, PTL
=============================================================================
