----------------------------- MODULE MCIncident -----------------------------
(* Small numbers of processes for Replay and Incident.                     *)
EXTENDS Replay

Mix(time, hooks, runs, imports, reports) ==
  [time |-> time, hooks |-> hooks, runs |-> runs, imports |-> imports, reports |-> reports]

(* A turn that is stopped twice; one report of what a hook and an adapter  *)
(* recorded, of events around a check, of an event that comes too late for *)
(* it, or of two checks and an event; two reports beside one check.        *)
Several == {Mix(1, 3, 0, 0, 0), Mix(2, 1, 0, 1, 1), Mix(3, 0, 1, 2, 1),
            Mix(4, 0, 1, 1, 1), Mix(2, 0, 2, 1, 1), Mix(2, 0, 1, 0, 2)}

(* From MakeDirectory on a report neither reads nor writes what hooks,     *)
(* checks and adapters change, and no property relates the two.  Their     *)
(* steps commute, so that the others, who can always finish what they      *)
(* have begun within the bound of the clock, may as well have finished it. *)
Settled ==
  /\ ~More("time")
  /\ \A h \in Hooks : phase[h] \in {"idle"} \cup Ended
  /\ \A r \in Runs : run[r].phase \in {"idle", "published"} \/ run[r].start = now

OthersFirst ==
  (\E p \in Creates : step'[p] \notin {"idle", "receipts"}) =>
    Settled /\ UNCHANGED <<vars, runVars>>

(* A replay reads the case beside two reports; what it does afterwards     *)
(* concerns no other, and may as well come last.                           *)
ReplaysLast ==
  /\ replayVars' # replayVars =>
       /\ events = <<>> /\ Settled
       /\ \A h \in Hooks : phase[h] = "idle"
       /\ \A r \in Runs : run[r].phase = "idle"
       /\ \/ \A v \in Replays : replay[v].phase \in {"idle", "open", "reading"}
          \/ \A p \in Creates : step[p] \in {"done", "failed"}
  /\ allVars' # allVars =>
       head = 0 /\ \A v \in Replays : replay[v].phase \notin {"named", "running"}
=============================================================================
