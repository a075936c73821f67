----------------------------- MODULE PiExtension -----------------------------
(***************************************************************************)
(* The Pi extension that `beforedone setup pi' generates: the guard that   *)
(* bounds automatic corrections, for one session.  Pi loads it, or not,    *)
(* when it starts.                                                         *)
(*                                                                         *)
(* When the agent has settled, a handler records the event, asks the gate, *)
(* and sends one corrective user message if completion is blocked.  It     *)
(* awaits the CLI twice, and inputs, further runs of the agent and late    *)
(* answers interleave there.  The guard is a variable of the extension,    *)
(* and every value it takes is appended to the session's branch, from      *)
(* which it is restored when a session starts: after a crash, or when the  *)
(* user goes back to an earlier entry and continues from there.  Appending *)
(* an entry and sending a message may both fail.                           *)
(*                                                                         *)
(* Pi itself is external.  A branch holds the guard's values ("free" and   *)
(* "used"), the user's inputs ("human") and the corrections ("sent"), each *)
(* at the moment it was given; other entries are left out.                 *)
(***************************************************************************)
EXTENDS Integers, SequencesExt

CONSTANTS
  MaxSettles,    \* bound on how often the agent settles
  MaxInputs,     \* bound on inputs of the user and of other extensions
  MaxRestores    \* bound on session starts after the first

ASSUME PiAssumption == {MaxSettles, MaxInputs, MaxRestores} \subseteq Nat

(* The occasions on which the agent settles, as they come.                 *)
Settles == 1 .. MaxSettles

Entries == {"human", "free", "used", "sent"}

VARIABLES
  loaded,    \* whether Pi has loaded the extension
  branch,    \* the session's current branch
  used,      \* stopState.corrective_continuation_used
  own,       \* ownCorrectionPending
  coming,    \* corrections sent whose input event has not come
  working,   \* whether the agent is at work
  ingests,   \* ingestQueue: the handlers whose event is to be recorded
  settling,  \* settling of the agent_settled handlers
  told,      \* how each of them ended
  inputs,    \* number of inputs so far
  restores,  \* number of session starts so far
  unwritten, \* history: the guard's last value could not be appended
  spoiled    \* history: since the user's last input a session was started or
             \* the guard could not be appended

guard   == <<used, own, coming>>
handler == <<ingests, settling, told>>
counts  == <<inputs, restores>>
piHistory == <<unwritten, spoiled>>
piVars  == <<loaded, branch, guard, working, handler, counts, piHistory>>

PiInit ==
  /\ loaded = FALSE
  /\ branch = <<>>
  /\ used = FALSE
  /\ own = FALSE
  /\ coming = 0
  /\ working = FALSE
  /\ ingests = <<>>
  /\ settling = [i \in Settles |-> "none"]
  /\ told = [i \in Settles |-> "none"]
  /\ inputs = 0
  /\ restores = 0
  /\ unwritten = FALSE
  /\ spoiled = FALSE

(* persistStopState appends the guard's new value u to b, unless that      *)
(* fails (w = FALSE).                                                      *)
Persist(b, u, w) ==
  /\ branch' = IF w THEN Append(b, IF u THEN "used" ELSE "free") ELSE b
  /\ unwritten' = ~w

-----------------------------------------------------------------------------
(* input: someone else's, or the user's.                                   *)

(* An extension's input shares the guard that is in use.                   *)
Shares(source) == source = "extension" /\ (own \/ used)

TakeInput(source, w) ==
  /\ loaded
  /\ own' = FALSE
  /\ working' = TRUE
  /\ IF Shares(source)
     THEN w /\ UNCHANGED <<branch, used, piHistory>>
     ELSE /\ used' = FALSE
          /\ Persist(IF source = "human" THEN Append(branch, "human") ELSE branch,
                     FALSE, w)
          /\ spoiled' = (~w \/ (spoiled /\ source # "human"))

Input(source, w) ==
  /\ inputs < MaxInputs
  /\ inputs' = inputs + 1
  /\ TakeInput(source, w)
  /\ UNCHANGED <<loaded, coming, handler, restores>>

(* The user goes on without the extension.                                 *)
InputUnseen ==
  /\ ~loaded
  /\ inputs < MaxInputs
  /\ inputs' = inputs + 1
  /\ branch' = Append(branch, "human")
  /\ UNCHANGED <<loaded, guard, working, handler, restores, piHistory>>

(* The input event of a correction, which is an extension's input.         *)
CorrectionInput(w) ==
  /\ coming > 0
  /\ coming' = coming - 1
  /\ TakeInput("extension", w)
  /\ UNCHANGED <<loaded, handler, counts>>

-----------------------------------------------------------------------------
(* agent_settled                                                           *)

AgentSettled(i) ==
  /\ working
  /\ settling[i] = "none" /\ \A j \in 1 .. i - 1 : settling[j] # "none"
  /\ working' = FALSE
  /\ settling' = [settling EXCEPT ![i] = "recording"]
  /\ ingests' = Append(ingests, i)
  /\ UNCHANGED <<loaded, branch, guard, told, counts, piHistory>>

End(i, how) ==
  /\ settling' = [settling EXCEPT ![i] = "done"]
  /\ told' = [told EXCEPT ![i] = how]

(* The guard has been used.                                                *)
Refuse(i) ==
  /\ used
  /\ End(i, "refused")
  /\ UNCHANGED <<branch, guard, piHistory>>

(* The guard cannot be appended: nothing is sent.                          *)
Unguarded(i) ==
  /\ ~used
  /\ used' = TRUE
  /\ Persist(branch, TRUE, FALSE)
  /\ spoiled' = TRUE
  /\ End(i, "unguarded")
  /\ UNCHANGED <<own, coming>>

(* Fault: the message is sent before the guard is appended.                *)
SendFirst(i) ==
  /\ ~used
  /\ used' = TRUE
  /\ branch' = branch \o <<"sent", "used">>
  /\ own' = TRUE
  /\ coming' = coming + 1
  /\ End(i, "sent")
  /\ unwritten' = FALSE
  /\ UNCHANGED spoiled

(* The guard is appended, then the message is sent.                        *)
Send(i) ==
  /\ ~used
  /\ used' = TRUE
  /\ branch' = branch \o <<"used", "sent">>
  /\ unwritten' = FALSE
  /\ own' = TRUE
  /\ coming' = coming + 1
  /\ End(i, "sent")
  /\ UNCHANGED spoiled

(* Faults: the guard is given back and not appended; it stays used.        *)
SendFailedQuietly(i, w) ==
  /\ ~used
  /\ w
  /\ used' = FALSE
  /\ Persist(branch, TRUE, TRUE)
  /\ own' = FALSE
  /\ End(i, "unsent")
  /\ UNCHANGED <<coming, spoiled>>

SendFailedUsed(i, w) ==
  /\ ~used
  /\ w
  /\ used' = TRUE
  /\ Persist(branch, TRUE, TRUE)
  /\ own' = FALSE
  /\ End(i, "unsent")
  /\ UNCHANGED <<coming, spoiled>>

(* sendUserMessage throws: the guard is given back, and that is appended   *)
(* too, unless it fails.                                                   *)
SendFailed(i, w) ==
  /\ ~used
  /\ used' = FALSE
  /\ Persist(Append(branch, "used"), FALSE, w)
  /\ spoiled' = (spoiled \/ ~w)
  /\ own' = FALSE
  /\ End(i, "unsent")
  /\ UNCHANGED coming

(* requestOneCorrection, completion being blocked.                         *)
RequestOneCorrection(i) ==
  \/ Refuse(i)
  \/ Unguarded(i)
  \/ Send(i)
  \/ \E w \in BOOLEAN : SendFailed(i, w)

(* persist: stopping events are recorded in the order they came.           *)
Ingest(i) ==
  /\ ingests # <<>> /\ Head(ingests) = i
  /\ ingests' = Tail(ingests)
  /\ UNCHANGED <<loaded, working, counts>>

(* The stopping event has been recorded, and the gate is asked.            *)
Recorded(i) ==
  /\ Ingest(i)
  /\ settling' = [settling EXCEPT ![i] = "gating"]
  /\ UNCHANGED <<branch, guard, told, piHistory>>

(* Fault: the handler goes on after a failure to record.                   *)
GoesOn(i) ==
  /\ Ingest(i)
  /\ used
  /\ told' = [told EXCEPT ![i] = "refused"]
  /\ settling' = [settling EXCEPT ![i] = "gating"]
  /\ UNCHANGED <<branch, guard, piHistory>>

NotRecorded(i) == Ingest(i) /\ RequestOneCorrection(i)

GateAllows(i) ==
  /\ settling[i] = "gating"
  /\ End(i, "allowed")
  /\ UNCHANGED <<loaded, ingests, branch, guard, working, counts, piHistory>>

(* The gate blocks, or cannot be evaluated.                                *)
GateBlocks(i) ==
  /\ settling[i] = "gating"
  /\ RequestOneCorrection(i)
  /\ UNCHANGED <<loaded, ingests, working, counts>>

-----------------------------------------------------------------------------
(* session_start                                                           *)

(* restoreStopState: the last of the guard's values on the branch.         *)
Restored(b) ==
  \E k \in DOMAIN b : b[k] = "used" /\ \A m \in k + 1 .. Len(b) : b[m] # "free"

Restore(n, there) ==
  /\ loaded' = there
  /\ restores < MaxRestores
  /\ n \in 0 .. Len(branch)
  /\ restores' = restores + 1
  /\ branch' = SubSeq(branch, 1, n)
  /\ used' = (there /\ Restored(branch'))
  /\ coming' = 0
  /\ working' = FALSE
  /\ unwritten' = FALSE
  /\ spoiled' = TRUE
  /\ UNCHANGED inputs

(* Pi was killed: the extension's variables and its handlers are gone.     *)
(* The extension is loaded if it is there.                                 *)
Restart(n, there) ==
  /\ Restore(n, there)
  /\ ingests' = <<>>
  /\ own' = FALSE
  /\ settling' = [i \in Settles |-> IF settling[i] = "none" THEN "none" ELSE "done"]
  /\ told' = [i \in Settles |->
                IF settling[i] \in {"recording", "gating"} THEN "lost" ELSE told[i]]

(* The user continues from an earlier entry; a handler may still wait.     *)
Rewind(n) ==
  /\ Restore(n, loaded)
  /\ UNCHANGED <<own, handler>>

-----------------------------------------------------------------------------
PiNext(there) ==
  \/ \E s \in {"human", "extension"}, w \in BOOLEAN : Input(s, w)
  \/ InputUnseen
  \/ \E w \in BOOLEAN : CorrectionInput(w)
  \/ \E i \in Settles :
       AgentSettled(i) \/ Recorded(i) \/ NotRecorded(i) \/ GateAllows(i) \/ GateBlocks(i)
  \/ \E n \in 0 .. Len(branch) : Restart(n, there) \/ Rewind(n)

PiSpec == PiInit /\ [][\E there \in BOOLEAN : PiNext(there)]_piVars

-----------------------------------------------------------------------------
(* Every variable has the values the program can give it; a handler that   *)
(* has ended has told how, and no other has; the queue holds those that    *)
(* wait for it, once.                                                      *)
PiTypeOK ==
  /\ branch \in Seq(Entries)
  /\ {loaded, used, own, working, unwritten, spoiled} \subseteq BOOLEAN
  /\ coming \in Nat
  /\ settling \in [Settles -> {"none", "recording", "gating", "done"}]
  /\ told \in [Settles -> {"none", "allowed", "refused", "unguarded", "sent",
                           "unsent", "lost"}]
  /\ \A i \in Settles : settling[i] = "done" <=> told[i] # "none"
  /\ ingests \in Seq(Settles)
  /\ ToSet(ingests) = {i \in Settles : settling[i] = "recording"} /\ IsInjective(ingests)
  /\ inputs \in 0 .. MaxInputs
  /\ restores \in 0 .. MaxRestores

(* The corrections on the branch since the user's last input.              *)
Corrections ==
  {k \in DOMAIN branch :
     /\ branch[k] = "sent"
     /\ \A m \in k .. Len(branch) : branch[m] # "human"}

(* pi.go:111: the guard "permits at most one automatic correction until    *)
(* interactive or RPC input resets it", on every branch, whatever answers  *)
(* come late, other extensions say, cannot be written or is cut short.     *)
OneCorrection == Cardinality(Corrections) <= 1

(* What a session start would restore is what the extension goes by, so    *)
(* that a restart neither forgets a correction nor invents one, whatever   *)
(* was said meanwhile without the extension.                               *)
GuardOnBranch == loaded /\ ~unwritten => used = Restored(branch)

(* A blocked completion is told that its correction is used up only if one *)
(* was sent since the user's last input; the exceptions are a session that *)
(* was started and a guard that could not be written meanwhile.            *)
CorrectionNotWasted ==
  [][\A i \in Settles :
       told[i] = "none" /\ told'[i] = "refused" => spoiled \/ Corrections # {}]_piVars

=============================================================================
