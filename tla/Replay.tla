------------------------------- MODULE Replay -------------------------------
(***************************************************************************)
(* `beforedone replay': the case that a report left is loaded, and, with   *)
(* `verify --execute', the checks that are configured now are run one      *)
(* after another in a detached worktree.  Reports may overwrite the case   *)
(* while it is read, and commits may be made meanwhile.                    *)
(***************************************************************************)
EXTENDS Incident

CONSTANTS
  Checks,    \* the checks of the configuration, which has at least one
  Replays,   \* runs of `beforedone replay'
  MaxCommits \* bound on the commits made meanwhile

ASSUME ReplayAssumption ==
  /\ Checks \subseteq Nat /\ Checks # {} /\ IsFiniteSet(Checks) /\ Required \subseteq Checks
  /\ MaxCommits \in Nat

VARIABLES
  head,    \* HEAD of the user's worktree: how many commits were made
  replay,  \* how far a run is, and what it was called for
  loaded,  \* the reports whose text it has read: the beginning and the rest
  commit,  \* the commit it names, and the one that is in its worktree
  exits,   \* history: how the verifier of each check ended
  overall  \* the verdict so far

replayVars == <<head, replay, loaded, commit, exits, overall>>
replayAll  == <<allVars, replayVars>>

\* A verifier exits with zero or not, is out of time, or cannot be started.
Exits == {"none", "zero", "nonzero", "late", "unstarted"}

ReplayInit ==
  /\ IncidentInit
  /\ head = 0
  /\ replay = [v \in Replays |-> [phase |-> "idle", call |-> "analyze", checks |-> {}]]
  /\ loaded = [v \in Replays |-> [begin |-> <<>>, rest |-> <<>>]]
  /\ commit = [v \in Replays |-> [named |-> 0, checkedOut |-> 0]]
  /\ exits = [v \in Replays |-> [c \in Checks |-> "none"]]
  /\ overall = [v \in Replays |-> "INCONCLUSIVE"]

Proceed(v, from, to) ==
  replay[v].phase = from /\ replay' = [replay EXCEPT ![v].phase = to]

-----------------------------------------------------------------------------
CallReplay(v) ==
  /\ replay[v].phase = "idle"
  /\ \E call \in {"analyze", "dry", "execute"} :
       replay' = [replay EXCEPT ![v].phase = "open", ![v].call = call]
  /\ UNCHANGED <<head, loaded, commit, exits, overall>>

\* LoadCase reads the alias piece by piece ...
ReadBegin(v) ==
  /\ Proceed(v, "open", "reading")
  /\ loaded' = [loaded EXCEPT ![v].begin = case]
  /\ UNCHANGED <<head, commit, exits, overall>>

\* ... and what it has read is checked as a whole.  Where the pieces are of
\* two texts, they may or may not fit together.
ReadRest(v) ==
  /\ loaded' = [loaded EXCEPT ![v].rest = case]
  /\ \/ /\ loaded[v].begin # <<>> /\ LoadCase(case)
        /\ Proceed(v, "reading", IF replay[v].call = "analyze" THEN "done" ELSE "loaded")
     \/ /\ ~(loaded[v].begin = case /\ LoadCase(case))
        /\ Proceed(v, "reading", "failed")
  /\ UNCHANGED <<head, commit, exits, overall>>

\* One check is selected, or all of the configuration are; rev-parse HEAD.
NameCommit(v) ==
  /\ replay[v].phase = "loaded"
  /\ \E checks \in {Checks} \cup {{c} : c \in Checks} :
       replay' = [replay EXCEPT ![v].checks = checks,
                    ![v].phase = IF replay[v].call = "dry" THEN "done" ELSE "named"]
  /\ commit' = [commit EXCEPT ![v].named = head]
  /\ UNCHANGED <<head, loaded, exits, overall>>

\* worktree add --detach HEAD
AddWorktree(v) ==
  /\ Proceed(v, "named", "running")
  /\ commit' = [commit EXCEPT ![v].checkedOut = head]
  /\ overall' = [overall EXCEPT ![v] = "PASS"]
  /\ UNCHANGED <<head, loaded, exits>>

Judged(exit) == CASE exit = "zero" -> "PASS" [] exit = "nonzero" -> "FAIL" [] OTHER -> "INCONCLUSIVE"

\* Fault: the last verdict that is no PASS.
OverallLast(current, judged) == IF judged = "PASS" THEN current ELSE judged

Overall(current, judged) ==
  IF judged = "FAIL" THEN "FAIL"
  ELSE IF judged = "INCONCLUSIVE" /\ current # "FAIL" THEN "INCONCLUSIVE" ELSE current

Unrun(v) == {c \in replay[v].checks : exits[v][c] = "none"}

RunPlan(v) ==
  /\ Proceed(v, "running", "running") /\ Unrun(v) # {}
  /\ \E exit \in Exits \ {"none"} :
       /\ exits' = [exits EXCEPT ![v][Min(Unrun(v))] = exit]
       /\ overall' = [overall EXCEPT ![v] = Overall(@, Judged(exit))]
  /\ UNCHANGED <<head, loaded, commit>>

\* The worktree is removed.
EndReplay(v) ==
  /\ Unrun(v) = {} /\ Proceed(v, "running", "done")
  /\ UNCHANGED <<head, loaded, commit, exits, overall>>

\* Git fails, or the run is killed, which leaves the worktree.
StopReplay(v) ==
  /\ \E from \in {"loaded", "named", "running"} : Proceed(v, from, "failed")
  /\ UNCHANGED <<head, loaded, commit, exits, overall>>

MakeCommit ==
  /\ head < MaxCommits /\ head' = head + 1
  /\ UNCHANGED <<replay, loaded, commit, exits, overall>>

ReplayStep ==
  \/ \E v \in Replays :
       \/ CallReplay(v) \/ ReadBegin(v) \/ ReadRest(v) \/ NameCommit(v)
       \/ AddWorktree(v) \/ RunPlan(v) \/ EndReplay(v) \/ StopReplay(v)
  \/ MakeCommit

ReplayNext ==
  \/ IncidentNext /\ UNCHANGED replayVars
  \/ ReplayStep /\ UNCHANGED allVars

ReplaySpec == ReplayInit /\ [][ReplayNext]_replayAll

-----------------------------------------------------------------------------
\* SECURITY.md:70-74 and README.md:428: what a replay that is over says rests
\* on one case that a report had written as a whole, with its incident, before
\* it; its verdict is a FAIL exactly if a verifier exited non-zero, and a PASS
\* only if every one that was asked for exited with zero, in the commit that
\* is named.  Two exceptions: the case was replaced while it was read, and HEAD
\* moved between its being named and checked out.
ReplaySound ==
  \A v \in Replays : replay[v].phase = "done" =>
    LET ended == {exits[v][c] : c \in replay[v].checks} IN
    /\ \E p \in Creates :
         /\ files[p] = 3 /\ loaded[v].rest = <<p>>
         /\ loaded[v].begin = <<p>> \/ \E q \in Creates \ {p} : Head(loaded[v].begin) = q
    /\ replay[v].call = "execute" =>
         /\ overall[v] = "FAIL" <=> "nonzero" \in ended
         /\ overall[v] = "PASS" <=> ended = {"zero"}
         /\ commit[v].named = head => commit[v].checkedOut = commit[v].named
    /\ replay[v].call # "execute" => ended \subseteq {"none"} /\ overall[v] # "PASS"
=============================================================================
