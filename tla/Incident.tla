------------------------------ MODULE Incident ------------------------------
(***************************************************************************)
(* `beforedone incident': a report of what the ledger and the latest       *)
(* receipts say, written while hooks append events, checks publish         *)
(* receipts and other reports are made.  Nothing is locked: the ledger is  *)
(* read once, then the receipts one by one, then a directory is filled,    *)
(* two aliases are overwritten in place and old directories are removed.   *)
(***************************************************************************)
EXTENDS CodexHook, Divergence, SequencesExt

CONSTANTS
  Required,   \* the required checks, in the order of their ids
  Runs,       \* runs of `beforedone check'; one also stands for its receipt
  Imports,    \* events of other adapters
  Creates,    \* runs of `beforedone incident'; one also stands for its files
  Retain,     \* reports.retain
  Mixes,      \* bounds: how many hooks, checks, imported events and reports
              \* there may be together, and until when
  Faults      \* what may go wrong: "receipt" a receipt cannot be read or
              \* verified, "stop" a report fails or is killed

ASSUME IncidentAssumption ==
  /\ Required \subseteq Nat /\ IsFiniteSet(Required)
  /\ Retain \in Nat
  /\ Mixes \subseteq [{"hooks", "runs", "imports", "reports", "time"} -> Nat]
  /\ Faults \subseteq {"receipt", "stop"}

VARIABLES
  run,         \* the runs of checks: how far, of what, when, with what verdict
  latest,      \* receipts/latest-<check>.json: at most one run
  imported,    \* the adapter events that are in the ledger
  step,        \* how far a report is
  seen,        \* how much of the ledger it has read
  unread,      \* the checks whose receipts it has yet to read
  observed,    \* the receipts it has verified
  verdict,     \* its verdict so far
  supported,   \* history: the checks it has found passed and fresh
  divergence,  \* its first observable divergence
  files,       \* the files it has written in its directory
  dirs,        \* the directories of incidents/, the longest unmodified first
  case,        \* latest-replay-case.json: the reports whose text it begins and
               \* goes on with
  shown,       \* latest-incident.json, likewise
  torn,        \* history: the case was truncated while it was being written
  doomed       \* the directories that it has yet to remove

runVars      == <<run, latest, imported>>
reading      == <<seen, unread, observed, verdict, supported, divergence>>
artifacts    == <<files, dirs, case, shown, torn, doomed>>
incidentVars == <<step, reading, artifacts>>
allVars      == <<vars, runVars, incidentVars>>

Verdicts == {"PASS", "INCONCLUSIVE", "FAIL"}

IncidentInit ==
  /\ Init
  /\ run = [r \in Runs |-> [phase |-> "idle", check |-> 0, start |-> 0,
                            finish |-> 0, verdict |-> "PASS"]]
  /\ latest = [c \in Required |-> {}]
  /\ imported = {}
  /\ step = [p \in Creates |-> "idle"]
  /\ seen = [p \in Creates |-> 0]
  /\ unread = [p \in Creates |-> {}]
  /\ observed = [p \in Creates |-> {}]
  /\ verdict = [p \in Creates |-> "PASS"]
  /\ supported = [p \in Creates |-> {}]
  /\ divergence = [p \in Creates |-> At("unlocated", {}, {}, {})]
  /\ files = [p \in Creates |-> 0]
  /\ dirs = <<>>
  /\ case = <<>>
  /\ shown = <<>>
  /\ torn = FALSE
  /\ doomed = [p \in Creates |-> <<>>]

Started ==
  [time    |-> now,
   hooks   |-> Cardinality({h \in Hooks : phase[h] # "idle"}),
   runs    |-> Cardinality({r \in Runs : run[r].phase # "idle"}),
   imports |-> Cardinality(imported),
   reports |-> Cardinality({p \in Creates : step[p] # "idle"})]

More(kind) ==
  LET started == Started IN
  \E mix \in Mixes : \A k \in DOMAIN mix :
    started[k] + (IF k = kind THEN 1 ELSE 0) <= mix[k]

-----------------------------------------------------------------------------
(* The others: hooks, runs of checks (CompletionEvidence says how a run    *)
(* comes by its verdict) and adapters, whose events may claim anything.    *)

(* Processes of a kind differ in nothing but their names, which are given  *)
(* out in one order.                                                       *)
Fresh(x, names) == x \in names /\ x = CHOOSE y \in names : TRUE

StartHook(h) ==
  /\ Fresh(h, {g \in Hooks : phase[g] = "idle"}) /\ More("hooks")
  /\ \E n \in HookNames : Fire(h, n)
  /\ UNCHANGED <<runVars, incidentVars>>

RunHook(h) == (Work(h) \/ KillHook(h)) /\ UNCHANGED <<runVars, incidentVars>>

Wait == More("time") /\ Tick /\ UNCHANGED <<runVars, incidentVars>>

StartRun(r) ==
  /\ Fresh(r, {q \in Runs : run[q].phase = "idle"}) /\ More("runs")
  /\ \E c \in Required :
       run' = [run EXCEPT ![r].phase = "begun", ![r].check = c, ![r].start = now]
  /\ UNCHANGED <<vars, latest, imported, incidentVars>>

(* A verifier takes time.                                                  *)
EndRun(r) ==
  /\ run[r].phase = "begun" /\ run[r].start < now
  /\ \E v \in Verdicts :
       run' = [run EXCEPT ![r].phase = "ended", ![r].finish = now, ![r].verdict = v]
  /\ UNCHANGED <<vars, latest, imported, incidentVars>>

PublishRun(r) ==
  /\ run[r].phase = "ended"
  /\ run' = [run EXCEPT ![r].phase = "published"]
  /\ latest' = [latest EXCEPT ![run[r].check] = {r}]
  /\ UNCHANGED <<vars, imported, incidentVars>>

(* What an event can claim: a claim that fits no check that has ended      *)
(* is as good as none.                                                     *)
Claims ==
  LET ended == {r \in Runs : run[r].phase \in {"ended", "published"}} IN
  {{}} \cup {{[check |-> run[r].check, names |-> names]} :
               r \in ended, names \in {{}} \cup {{q} : q \in ended}}

(* An event that claims nothing may begin a session.                       *)
ImportEvent(i) ==
  /\ Fresh(i, Imports \ imported) /\ More("imports")
  /\ imported' = imported \cup {i}
  /\ \E at \in 1 .. now, root \in BOOLEAN, claims \in Claims :
       /\ root => claims = {}
       /\ events' = Append(events, [id |-> i, at |-> at, root |-> root, claims |-> claims])
  /\ UNCHANGED <<now, hookVars, run, latest, incidentVars>>

-----------------------------------------------------------------------------
(* CreateWithTranscript                                                    *)

Advance(p, from, to) == step[p] = from /\ step' = [step EXCEPT ![p] = to]

(* ReadEvents                                                              *)
ReadLedger(p) ==
  /\ Advance(p, "idle", "receipts")
  /\ Fresh(p, {q \in Creates : step[q] = "idle"}) /\ More("reports")
  /\ seen' = [seen EXCEPT ![p] = Len(events)]
  /\ unread' = [unread EXCEPT ![p] = Required]
  /\ UNCHANGED <<vars, runVars, observed, verdict, supported, divergence, artifacts>>

Timeline(p) == LatestSession(Sorted(SubSeq(events, 1, seen[p])))

Receipt(r) == [id |-> r, check |-> run[r].check, verdict |-> run[r].verdict,
               start |-> run[r].start, finish |-> run[r].finish]

Rank == [v \in Verdicts |-> CASE v = "FAIL" -> 2 [] v = "INCONCLUSIVE" -> 1 [] OTHER -> 0]

(* Fault: the last of them.                                                *)
LastVerdict(current, candidate) == IF candidate = "PASS" THEN current ELSE candidate

StrongerVerdict(current, candidate) ==
  IF Rank[candidate] > Rank[current] THEN candidate ELSE current

(* One round of the loop in assessReceipts has come to v.                  *)
Assess(p, v) ==
  /\ unread' = [unread EXCEPT ![p] = @ \ {Min(@)}]
  /\ verdict' = [verdict EXCEPT ![p] = StrongerVerdict(@, v)]
  /\ UNCHANGED <<vars, runVars, step, seen, divergence, artifacts>>

ReadReceipt(p) ==
  /\ step[p] = "receipts" /\ unread[p] # {}
  /\ LET c == Min(unread[p]) IN
     \E r \in latest[c], fresh \in BOOLEAN :
       /\ run[r].verdict # "PASS" => ~fresh
       /\ observed' = [observed EXCEPT ![p] = @ \cup {Receipt(r)}]
       /\ supported' = [supported EXCEPT ![p] = IF fresh THEN @ \cup {c} ELSE @]
       /\ Assess(p, IF run[r].verdict = "PASS" /\ ~fresh THEN "INCONCLUSIVE" ELSE run[r].verdict)

NoReceipt(p) ==
  /\ step[p] = "receipts" /\ unread[p] # {}
  /\ latest[Min(unread[p])] # {} => "receipt" \in Faults
  /\ Assess(p, "INCONCLUSIVE")
  /\ UNCHANGED <<observed, supported>>

(* Fault: the directory is listed once more.                               *)
Appended(p) == Append(dirs, p)

(* What a directory's modification does to the order of dirs, in which it  *)
(* is once at most.                                                        *)
Touched(p) == Append(RemoveFirst(dirs, p), p)

(* The report is complete in memory; its directory is made.                *)
MakeDirectory(p) ==
  /\ unread[p] = {}
  /\ Advance(p, "receipts", "files")
  /\ verdict' = [verdict EXCEPT ![p] = IF Required = {} THEN "INCONCLUSIVE" ELSE @]
  /\ divergence' = [divergence EXCEPT ![p] = Locate(Timeline(p), observed[p])]
  /\ dirs' = Touched(p)
  /\ UNCHANGED <<vars, runVars, seen, unread, observed, supported, files, case,
                 shown, torn, doomed>>

HasDirectory(p) == \E i \in DOMAIN dirs : dirs[i] = p

(* incident.json, replay-case.json and report.html, in this order.         *)
WriteFile(p) ==
  /\ step[p] = "files" /\ HasDirectory(p) /\ files[p] < 3
  /\ files' = [files EXCEPT ![p] = @ + 1]
  /\ dirs' = Touched(p)
  /\ UNCHANGED <<vars, runVars, step, reading, case, shown, torn, doomed>>

(* os.WriteFile opens an alias truncated and then writes at its beginning; *)
(* what another has written since the truncation may reach further.        *)
Over(content, p) == IF content = <<>> THEN {<<p>>} ELSE {<<p>>, <<p>> \o content}

TruncateCase(p) ==
  /\ files[p] = 3
  /\ Advance(p, "files", "case")
  /\ case' = <<>>
  /\ torn' = (\E q \in Creates : step[q] = "case")
  /\ UNCHANGED <<vars, runVars, reading, files, dirs, shown, doomed>>

WriteCase(p) ==
  /\ Advance(p, "case", "written")
  /\ case' \in Over(case, p)
  /\ UNCHANGED <<vars, runVars, reading, files, dirs, shown, torn, doomed>>

TruncateIncident(p) ==
  /\ Advance(p, "written", "incident")
  /\ shown' = <<>>
  /\ UNCHANGED <<vars, runVars, reading, files, dirs, case, torn, doomed>>

WriteIncident(p) ==
  /\ Advance(p, "incident", "list")
  /\ shown' \in Over(shown, p)
  /\ UNCHANGED <<vars, runVars, reading, files, dirs, case, torn, doomed>>

(* Fault: one directory too many stays.                                    *)
OldButOne(ds) == IF Retain = 0 \/ Len(ds) <= Retain + 1 THEN <<>>
                 ELSE SubSeq(ds, 1, Len(ds) - Retain - 1)

(* The directories that prune removes.                                     *)
Old(ds) == IF Retain = 0 \/ Len(ds) <= Retain THEN <<>> ELSE SubSeq(ds, 1, Len(ds) - Retain)

ListOld(p) ==
  /\ Advance(p, "list", "prune")
  /\ doomed' = [doomed EXCEPT ![p] = Old(dirs)]
  /\ UNCHANGED <<vars, runVars, reading, files, dirs, case, shown, torn>>

RemoveOld(p) ==
  /\ step[p] = "prune" /\ doomed[p] # <<>>
  /\ dirs' = RemoveFirst(dirs, Head(doomed[p]))
  /\ doomed' = [doomed EXCEPT ![p] = Tail(@)]
  /\ UNCHANGED <<vars, runVars, step, reading, files, case, shown, torn>>

Finish(p) ==
  /\ doomed[p] = <<>>
  /\ Advance(p, "prune", "done")
  /\ UNCHANGED <<vars, runVars, reading, artifacts>>

(* A file cannot be written in a directory that has been removed.          *)
LoseDirectory(p) ==
  /\ ~HasDirectory(p) /\ files[p] < 3
  /\ Advance(p, "files", "failed")
  /\ UNCHANGED <<vars, runVars, reading, artifacts>>

(* The write fails or the process is killed.  Elsewhere a report that      *)
(* fails or is killed is one that goes no further: nobody waits for it.    *)
StopCreate(p) ==
  /\ "stop" \in Faults
  /\ Advance(p, "case", "failed")
  /\ torn' = TRUE
  /\ UNCHANGED <<vars, runVars, reading, files, dirs, case, shown, doomed>>

Create(p) ==
  \/ ReadLedger(p) \/ ReadReceipt(p) \/ NoReceipt(p) \/ MakeDirectory(p)
  \/ WriteFile(p) \/ LoseDirectory(p) \/ TruncateCase(p) \/ WriteCase(p)
  \/ TruncateIncident(p) \/ WriteIncident(p)
  \/ ListOld(p) \/ RemoveOld(p) \/ Finish(p) \/ StopCreate(p)

IncidentNext ==
  \/ Wait
  \/ \E h \in Hooks : StartHook(h) \/ RunHook(h)
  \/ \E r \in Runs : StartRun(r) \/ EndRun(r) \/ PublishRun(r)
  \/ \E i \in Imports : ImportEvent(i)
  \/ \E p \in Creates : Create(p)

IncidentSpec == IncidentInit /\ [][IncidentNext]_allVars

-----------------------------------------------------------------------------
(* replay.LoadCase, of the text of an alias: it refuses what is empty or    *)
(* goes on after the case, and a divergence that names the wrong events.   *)
LoadCase(content) ==
  /\ Len(content) = 1
  /\ LET d == divergence[content[1]] IN
     CASE d.precision = "exact_event" -> d.event # {} /\ d.from = {} /\ d.to = {}
       [] d.precision = "time_window" -> d.event = {} /\ d.from # {} /\ d.to # {}
       [] OTHER                       -> d.event = {} /\ d.from = {} /\ d.to = {}

Steps == {"idle", "receipts", "files", "case", "written", "incident", "list",
          "prune", "done", "failed"}

IncidentTypeOK ==
  /\ HookTypeOK
  /\ \A r \in Runs :
       /\ run[r].phase \in {"idle", "begun", "ended", "published"}
       /\ run[r].check \in Required \cup {0}
       /\ run[r].start <= now /\ run[r].finish <= now
       /\ run[r].phase \in {"ended", "published"} => run[r].start < run[r].finish
  /\ \A c \in Required : \A r \in latest[c] : run[r].phase = "published" /\ run[r].check = c
  /\ step \in [Creates -> Steps]
  /\ \A p \in Creates :
       /\ seen[p] \in 0 .. Len(events)
       /\ \A r \in observed[p] : r = Receipt(r.id) /\ r.check \in Required \ unread[p]
       /\ files[p] \in 0 .. 3
  /\ \A i, j \in DOMAIN dirs : dirs[i] = dirs[j] => i = j

Concluded(p) == step[p] \notin {"idle", "receipts", "failed"}

(* README.md:400, "the earliest divergence supported by the available      *)
(* evidence": whatever the order in which events reached the ledger, a     *)
(* report names the earliest event tied to a failing receipt it verified,  *)
(* else the narrowest window around the first failure, else nothing.       *)
DivergenceIsEarliest ==
  \A p \in Creates : Concluded(p) =>
    EarliestSupported(Members(Timeline(p)), observed[p], divergence[p])

(* incident.go:156: no late event of a subagent and no session that was    *)
(* recorded out of order hides what followed the last session's start.     *)
SessionKept ==
  \A p \in Creates : Concluded(p) =>
    LET read     == Members(SubSeq(events, 1, seen[p]))
        roots    == {e \in read : e.root}
        timeline == Members(Timeline(p))
    IN /\ {e \in read : \A r \in roots : r.at < e.at} \subseteq timeline
       /\ \A e \in timeline, r \in roots : r.at <= e.at
       /\ roots # {} => roots \cap timeline # {}

(* A report is a PASS only if every required check was found passed and    *)
(* fresh, and a FAIL exactly if some receipt says so, whatever is          *)
(* published or lost while it reads.                                       *)
VerdictIsSupported ==
  \A p \in Creates : Concluded(p) =>
    /\ verdict[p] = "PASS" <=> Required # {} /\ supported[p] = Required
    /\ verdict[p] = "FAIL" <=> Failures(observed[p]) # {}

(* TestAnalyzeAndDryRunExecuteNoCommands: `replay analyze' loads the case  *)
(* that was written last, unless two were written at once or one was not   *)
(* finished; the next report mends that.                                   *)
LatestCaseLoads ==
  (/\ ~torn
   /\ \A p \in Creates : step[p] # "case"
   /\ \E p \in Creates : step[p] \in {"written", "incident", "list", "prune", "done"})
  => LoadCase(case)

(* README.md:496: no more directories remain than are retained, but for    *)
(* those of reports that are being made or came to nothing.                *)
Retained ==
  Retain # 0 =>
    Len(dirs) <= Retain + Cardinality({p \in Creates : step[p] \notin {"idle", "done"}})
=============================================================================
