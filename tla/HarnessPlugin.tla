---------------------------- MODULE HarnessPlugin ----------------------------
(***************************************************************************)
(* The DeepSeek Harness plugin, for one session: what it captures, how it  *)
(* writes that to the ledger, and what it does when a turn is stopping.    *)
(*                                                                         *)
(* Handlers run in one JavaScript thread and interleave where they await   *)
(* the CLI.  Flushes are chained: each begins when the one before it has   *)
(* settled, takes what is pending then, and removes it from the front of   *)
(* the queue once the CLI has acknowledged the whole batch.  The harness   *)
(* awaits the handler of a stopping turn, unless the turn is aborted; the  *)
(* handler of an aborted turn may so run beside that of the next one.      *)
(*                                                                         *)
(* Captured events are numbered in the order in which they are enqueued.   *)
(* `adapter ingest' appends a batch whole or not at all, and not at all if *)
(* one of its events is in the ledger already (appendEventBatch).          *)
(***************************************************************************)
EXTENDS Integers, Sequences, FiniteSets

CONSTANTS
  MaxTurns,    \* bound on turns
  MaxStops,    \* bound on how often turns may stop
  MaxEvents,   \* bound on captured events, the stopping ones included
  MaxFlushes,  \* bound on flushes waiting in the chain
  Outcomes,    \* how `adapter ingest' may end:
               \*   "stored"  with the batch in the ledger, and saying so
               \*   "unsure"  with the batch in the ledger, but timed out,
               \*             killed or with its output lost
               \*   "failed"  with the ledger as it was
  Verdicts     \* how `gate' may end: "allow", "block" or "error"

ASSUME PluginAssumption ==
  /\ {MaxTurns, MaxStops, MaxEvents, MaxFlushes} \subseteq Nat
  /\ Outcomes \subseteq {"stored", "unsure", "failed"}
  /\ Verdicts \subseteq {"allow", "block", "error"}

Turns == 1 .. MaxTurns

(* Who asked for a flush: session/flush or the plugin's unloading, a       *)
(* stopping turn, or the end of the session.                               *)
Request == [by: {"flush", "stop", "final", "unload"}, turn: 0 .. MaxTurns]

VARIABLES
  session,   \* "open", "disposed", "unloading" or "forgotten"
  made,      \* number of events enqueued so far
  pending,   \* state.pending
  chain,     \* state.flushChain: the flush under way and those behind it
  batch,     \* what the flush under way has handed to the CLI
  ledger,    \* the session's events in the ledger
  last,      \* number of the last turn to start
  open,      \* whether that turn has not ended
  stop,      \* phase of the handler of a stopping turn
  aborted,   \* turns whose signal is aborted
  steered,   \* state.steeredTurns
  stops,     \* number of stops so far
  marks,     \* history: the stopping event of a turn's last stop
  forced,    \* history: how often a turn was steered on
  answer     \* history: how a turn's last stop ended

capture == <<made, pending>>
flush   == <<chain, batch, ledger>>
turn    == <<last, open, stop, aborted, steered, stops, marks, forced, answer>>
vars    == <<session, capture, flush, turn>>

StopPhases == {"idle", "flushing", "gating"}

Answers == {"none", "allowed", "steered", "unresolved", "aborted"}

Init ==
  /\ session = "open"
  /\ made = 0
  /\ pending = <<>>
  /\ chain = <<>>
  /\ batch = <<>>
  /\ ledger = <<>>
  /\ last = 0
  /\ open = FALSE
  /\ stop = [t \in Turns |-> "idle"]
  /\ aborted = {}
  /\ steered = {}
  /\ stops = 0
  /\ marks = [t \in Turns |-> 0]
  /\ forced = [t \in Turns |-> 0]
  /\ answer = [t \in Turns |-> "none"]

-----------------------------------------------------------------------------
(* enqueue: no two events of the model have one id.                        *)
Enqueue ==
  /\ made < MaxEvents
  /\ made' = made + 1
  /\ pending' = Append(pending, made + 1)

(* flushState puts one more flush behind those there are.                  *)
Ask(by, t) ==
  /\ Len(chain) < MaxFlushes
  /\ chain' = Append(chain, [by |-> by, turn |-> t])

(* agent/session-start, or a session/event that is projected to one of     *)
(* ours: a user message, a tool call or a tool result.                     *)
Capture ==
  /\ session = "open"
  /\ Enqueue
  /\ UNCHANGED <<session, flush, turn>>

(* session/event turn/start                                                *)
TurnStart ==
  /\ session = "open"
  /\ ~open
  /\ last < MaxTurns
  /\ last' = last + 1
  /\ open' = TRUE
  /\ UNCHANGED <<session, capture, flush, stop, aborted, steered, stops, marks,
                 forced, answer>>

(* session/event turn/end: what was known of the turn is forgotten.        *)
TurnEnd ==
  /\ session = "open"
  /\ open
  /\ stop[last] = "idle" \/ last \in aborted
  /\ open' = FALSE
  /\ steered' = steered \ {last}
  /\ UNCHANGED <<session, capture, flush, last, stop, aborted, stops, marks,
                 forced, answer>>

(* session/flush                                                           *)
SessionFlush ==
  /\ session = "open"
  /\ Ask("flush", 0)
  /\ UNCHANGED <<session, capture, batch, ledger, turn>>

(* agent/turn-stopping, up to the first await.                             *)
TurnStopping ==
  /\ session = "open"
  /\ open
  /\ stop[last] = "idle"
  /\ last \notin aborted
  /\ stops < MaxStops
  /\ Enqueue
  /\ Ask("stop", last)
  /\ stop' = [stop EXCEPT ![last] = "flushing"]
  /\ stops' = stops + 1
  /\ marks' = [marks EXCEPT ![last] = made + 1]
  /\ answer' = [answer EXCEPT ![last] = "none"]
  /\ UNCHANGED <<session, batch, ledger, last, open, aborted, steered, forced>>

(* The turn's signal is aborted: the user interrupts the agent.            *)
Abort ==
  /\ open
  /\ last \notin aborted
  /\ aborted' = aborted \cup {last}
  /\ UNCHANGED <<session, capture, flush, last, open, stop, steered, stops,
                 marks, forced, answer>>

(* session/disposed: the last event, and a flush of its own.               *)
Dispose ==
  /\ session = "open"
  /\ Enqueue
  /\ Ask("final", 0)
  /\ session' = "disposed"
  /\ UNCHANGED <<batch, ledger, turn>>

(* The plugin is unloaded: one more flush.                                 *)
Unload ==
  /\ session \in {"open", "disposed"}
  /\ Ask("unload", 0)
  /\ session' = "unloading"
  /\ UNCHANGED <<capture, batch, ledger, turn>>

-----------------------------------------------------------------------------
(* What follows the gate, or an error before it.                           *)

End(t, how) ==
  /\ stop' = [stop EXCEPT ![t] = "idle"]
  /\ answer' = [answer EXCEPT ![t] = how]

(* Fault: only the answer of the gate makes the turn known as steered.     *)
NotAcceptedUnmarked(t) ==
  IF t \notin steered
  THEN /\ steered' = IF stop[t] = "gating" THEN steered \cup {t} ELSE steered
       /\ forced' = [forced EXCEPT ![t] = @ + 1]
       /\ End(t, "steered")
  ELSE /\ End(t, "unresolved")
       /\ UNCHANGED <<steered, forced>>

(* Completion cannot be accepted: the turn is steered on, but only once.   *)
NotAccepted(t) ==
  IF t \notin steered
  THEN /\ steered' = steered \cup {t}
       /\ forced' = [forced EXCEPT ![t] = @ + 1]
       /\ End(t, "steered")
  ELSE /\ End(t, "unresolved")
       /\ UNCHANGED <<steered, forced>>

(* Faults: a failure is not told from an abort; it is logged and no more.  *)
FailedNotAborted(t) == NotAccepted(t)

FailedLogged(t) ==
  End(t, IF t \in aborted THEN "aborted" ELSE "unresolved")
  /\ UNCHANGED <<steered, forced>>

(* flushState or evaluateGate threw.                                       *)
Failed(t) ==
  IF t \in aborted
  THEN End(t, "aborted") /\ UNCHANGED <<steered, forced>>
  ELSE NotAccepted(t)

(* Fault: the gate is asked even if the flush before it failed.            *)
AskGate(t, flushed) ==
  stop' = [stop EXCEPT ![t] = "gating"] /\ UNCHANGED <<answer, steered, forced>>

(* A stopping turn goes on with the gate once its flush has succeeded.     *)
Resume(t, flushed) ==
  IF flushed
  THEN stop' = [stop EXCEPT ![t] = "gating"]
       /\ UNCHANGED <<answer, steered, forced>>
  ELSE Failed(t)

(* The flush at the head of the chain has settled.                         *)
Settle(ok) ==
  LET by == Head(chain).by
      t  == Head(chain).turn IN
  /\ chain' = Tail(chain)
  /\ batch' = <<>>
  /\ session' = IF by = "unload" \/ (by = "final" /\ session = "disposed")
                THEN "forgotten" ELSE session
  /\ IF by = "stop" THEN Resume(t, ok)
     ELSE UNCHANGED <<stop, answer, steered, forced>>
  /\ UNCHANGED <<made, last, open, aborted, stops, marks>>

(* Nothing is pending: the flush is done.                                  *)
FlushNothing ==
  /\ chain # <<>>
  /\ batch = <<>>
  /\ pending = <<>>
  /\ Settle(TRUE)
  /\ UNCHANGED <<pending, ledger>>

(* What is pending is handed to `adapter ingest'.                          *)
Ingest ==
  /\ chain # <<>>
  /\ batch = <<>>
  /\ pending # <<>>
  /\ batch' = pending
  /\ UNCHANGED <<session, capture, chain, ledger, turn>>

InLedger(s) == \E i \in DOMAIN s, j \in DOMAIN ledger : s[i] = ledger[j]

(* Fault: the queue is emptied, with what was enqueued meanwhile.          *)
DropAll(ok) == pending' = IF ok THEN <<>> ELSE pending

(* pending.splice: an acknowledged batch leaves the queue, and what was    *)
(* enqueued meanwhile stays.                                               *)
DropBatch(ok) ==
  pending' = IF ok THEN SubSeq(pending, Len(batch) + 1, Len(pending)) ELSE pending

(* `adapter ingest' has ended.  A batch with an event that is in the       *)
(* ledger is rejected.  An abort of the turn that asked for the flush      *)
(* counts as a failure, whatever has been stored.                          *)
EndIngest(o) ==
  LET stored == o # "failed" /\ ~InLedger(batch)
      interrupted == Head(chain).by = "stop" /\ Head(chain).turn \in aborted
      ok == stored /\ o = "stored" /\ ~interrupted IN
  /\ batch # <<>>
  /\ ledger' = IF stored THEN ledger \o batch ELSE ledger
  /\ DropBatch(ok)
  /\ Settle(ok)

(* Fault: an error of the gate starts the stop again.                      *)
StopAgain(t, v) ==
  /\ stop[t] = "gating"
  /\ IF v = "error"
     THEN /\ stop' = [stop EXCEPT ![t] = "flushing"]
          /\ Ask("stop", t)
          /\ UNCHANGED <<answer, steered, forced>>
     ELSE /\ IF v = "allow" THEN End(t, "allowed") /\ UNCHANGED <<steered, forced>>
             ELSE NotAccepted(t)
          /\ UNCHANGED chain
  /\ UNCHANGED <<session, capture, batch, ledger, last, open, aborted, stops, marks>>

(* `gate' has ended.                                                       *)
EndGate(t, v) ==
  /\ stop[t] = "gating"
  /\ IF t \in aborted \/ v = "error" THEN Failed(t)
     ELSE IF v = "allow"
     THEN End(t, "allowed") /\ UNCHANGED <<steered, forced>>
     ELSE NotAccepted(t)
  /\ UNCHANGED <<session, capture, flush, last, open, aborted, stops, marks>>

-----------------------------------------------------------------------------
Harness ==
  \/ Capture
  \/ TurnStart
  \/ TurnEnd
  \/ SessionFlush
  \/ TurnStopping
  \/ Abort
  \/ Dispose
  \/ Unload

Flushing ==
  \/ FlushNothing
  \/ Ingest
  \/ \E o \in Outcomes : EndIngest(o)

Gating(t) == \E v \in Verdicts : EndGate(t, v)

Next ==
  \/ Harness
  \/ Flushing
  \/ \E t \in Turns : Gating(t)

Spec == Init /\ [][Next]_vars

(* Every call of the CLI ends: it is timed out if it does not.             *)
FairSpec == Spec /\ WF_vars(Flushing) /\ \A t \in Turns : WF_vars(Gating(t))

-----------------------------------------------------------------------------
(* Every variable has the values the program can give it, and what the CLI *)
(* is writing is the front of what is pending, where splice removes it.    *)
TypeOK ==
  /\ session \in {"open", "disposed", "unloading", "forgotten"}
  /\ made \in 0 .. MaxEvents
  /\ pending \in Seq(1 .. made)
  /\ chain \in Seq(Request)
  /\ batch \in Seq(1 .. made)
  /\ Len(batch) <= Len(pending) /\ \A i \in 1 .. Len(batch) : batch[i] = pending[i]
  /\ chain = <<>> => batch = <<>>
  /\ ledger \in Seq(1 .. made)
  /\ last \in 0 .. MaxTurns
  /\ open \in BOOLEAN
  /\ open => last > 0
  /\ stop \in [Turns -> StopPhases]
  /\ aborted \subseteq Turns
  /\ steered \subseteq Turns
  /\ stops \in 0 .. MaxStops
  /\ marks \in [Turns -> 0 .. made]
  /\ forced \in [Turns -> Nat]
  /\ answer \in [Turns -> Answers]

(* Whatever fails, is interrupted or is enqueued while the CLI runs, the   *)
(* ledger has the session's events in the order in which they happened,    *)
(* none of them skipped and none recorded twice.                           *)
LedgerInOrder == ledger = [i \in 1 .. Len(ledger) |-> i]

(* A completion that is accepted on evidence leaves no gap behind: every   *)
(* event up to the stop itself is in the ledger.                           *)
AllowedIsRecorded ==
  \A t \in Turns : answer[t] = "allowed" => marks[t] <= Len(ledger)

(* README.md:344: "the same turn is never forced more than once", however  *)
(* its stops fail, are aborted or overlap the end of the turn.             *)
ForcedOnce == \A t \in Turns : forced[t] <= 1

(* Nothing is waved through: a stop that the gate did not allow ends the   *)
(* turn only after the agent was sent back once, or by an abort.           *)
UnresolvedWasForced ==
  \A t \in Turns : answer[t] = "unresolved" => forced[t] = 1

(* The agent is never left waiting: every stop gets its answer.            *)
StopsEnd == \A t \in Turns : stop[t] # "idle" ~> stop[t] = "idle"

(* integrations/deepseek-harness/README.md:77: "Events are buffered per    *)
(* session and written ... at `session/flush' and completion boundaries":  *)
(* a flush hands over nothing that the ledger refuses, as it refuses any   *)
(* batch with an event it has.                                             *)
BufferCanBeWritten == ~InLedger(batch)

-----------------------------------------------------------------------------
(* The inductive invariant behind the four safety properties.              *)

(* How many events have been acknowledged.                                 *)
Acknowledged == made - Len(pending)

(* Pending are the last events; the ledger has the first ones, at least    *)
(* those that were acknowledged.                                           *)
QueueFollows ==
  /\ Len(pending) <= made
  /\ pending = [i \in 1 .. Len(pending) |-> Acknowledged + i]
  /\ LedgerInOrder
  /\ Acknowledged <= Len(ledger)
  /\ Len(ledger) <= made

Stopping(i) == i \in DOMAIN chain /\ chain[i].by = "stop"

(* A stopping turn has one flush in the chain, which writes its stop.      *)
FlushesAreOfStops ==
  /\ \A i \in DOMAIN chain : Stopping(i) =>
       chain[i].turn \in Turns /\ stop[chain[i].turn] = "flushing"
  /\ \A i, j \in DOMAIN chain :
       Stopping(i) /\ Stopping(j) /\ chain[i].turn = chain[j].turn => i = j
  /\ batch # <<>> /\ Stopping(1) =>
       marks[chain[1].turn] <= Acknowledged + Len(batch)

(* The gate is asked when the stop is in the ledger.                       *)
GatedIsRecorded ==
  \A t \in Turns :
    stop[t] = "gating" \/ answer[t] = "allowed" => marks[t] <= Len(ledger)

Current(t) == t = last /\ open

(* A turn that was forced is known to be, unless it has ended; then what   *)
(* is left of its handler was aborted.                                     *)
SteeredIsKnown ==
  \A t \in Turns :
    /\ forced[t] <= 1
    /\ t \in steered => forced[t] = 1
    /\ forced[t] = 1 /\ Current(t) => t \in steered
    /\ t > last => forced[t] = 0 /\ stop[t] = "idle"
    /\ stop[t] # "idle" => Current(t) \/ t \in aborted
    /\ answer[t] = "unresolved" => forced[t] = 1

IInv ==
  /\ TypeOK
  /\ QueueFollows
  /\ FlushesAreOfStops
  /\ GatedIsRecorded
  /\ SteeredIsKnown

=============================================================================
