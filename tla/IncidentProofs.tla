--------------------------- MODULE IncidentProofs ---------------------------
(***************************************************************************)
(* What holds of reports and replays for any number of hooks, checks,      *)
(* adapters' events, reports, replays and required checks, whoever is      *)
(* killed and whatever is lost.                                            *)
(***************************************************************************)
EXTENDS Replay, CodexHookProofs, DivergenceProofs, DataLemmas, SequenceTheorems,
        FiniteSetTheorems, TLAPS

(* The ledger: hooks append to it as CodexHookProofs has it, adapters too. *)
LedgerHolds == HookIInv /\ \E E : Timed(E) /\ events \in Seq(E)

(* Checks: a receipt that is published stays as it is.                     *)
RunsHold ==
  /\ run \in [Runs -> [phase : {"idle", "begun", "ended", "published"},
                       check : Required \cup {0}, start : Nat, finish : Nat,
                       verdict : Verdicts]]
  /\ \A r \in Runs :
       /\ run[r].phase # "idle" => run[r].check \in Required
       /\ run[r].start <= now /\ run[r].finish <= now
       /\ run[r].phase \in {"ended", "published"} => run[r].start < run[r].finish
  /\ latest \in [Required -> SUBSET Runs]
  /\ \A c \in Required : \A r \in latest[c] : run[r].phase = "published" /\ run[r].check = c

(* What a report reads: the verdict so far is of the receipts read so far. *)
Reads(p) ==
  /\ seen[p] \in 0 .. Len(events)
  /\ unread[p] \subseteq Required /\ supported[p] \subseteq Required \ unread[p]
  /\ \A r \in observed[p] :
       /\ r.id \in Runs /\ run[r.id].phase = "published"
       /\ r = Receipt(r.id) /\ r.check \in Required \ unread[p]
  /\ verdict[p] \in Verdicts
  /\ verdict[p] = "FAIL" <=> Failures(observed[p]) # {}
  /\ step[p] = "idle" => verdict[p] = "PASS" /\ supported[p] = {} /\ observed[p] = {}
  /\ step[p] = "receipts" => (verdict[p] = "PASS" <=> supported[p] = Required \ unread[p])
  /\ step[p] \notin {"idle", "receipts"} =>
       (verdict[p] = "PASS" <=> Required # {} /\ supported[p] = Required)

ReadsHold ==
  /\ step \in [Creates -> Steps]
  /\ \A f \in {seen, unread, observed, verdict, supported} : DOMAIN f = Creates
  /\ \A p \in Creates : Reads(p)

(* What a report found stays what the ledger it has read and its receipts  *)
(* say.                                                                    *)
DivergenceHolds ==
  /\ DOMAIN divergence = Creates
  /\ \A p \in Creates : step[p] \notin {"idle", "receipts"} =>
       divergence[p] = Locate(Timeline(p), observed[p])

(* A report's text is in the alias only after its files are complete, and  *)
(* the alias is one text unless it is being written or was torn.           *)
Written == {p \in Creates : step[p] \in {"written", "incident", "list", "prune", "done"}}
Writing == {p \in Creates : step[p] = "case"}

CaseHolds ==
  /\ files \in [Creates -> 0 .. 3]
  /\ \A p \in Written \cup Writing : files[p] = 3
  /\ case \in Seq(Written)
  /\ torn \in BOOLEAN
  /\ ~torn =>
       /\ \A p, q \in Writing : p = q
       /\ Writing # {} => case = <<>>
       /\ Writing = {} /\ Written # {} => \E q \in Written : case = <<q>>

(* Directories: however those that prune have divided them up, the rest is *)
(* what may stay, but for one of each report that is being made or failed. *)
Distinct(s) == \A i, j \in DOMAIN s : s[i] = s[j] => i = j
Doomed(P)   == UNION {Members(doomed[p]) : p \in P}
Unpruned    == {p \in Creates : step[p] \notin {"idle", "receipts", "done"}}
Pruning     == {p \in Creates : step[p] = "prune"}

DirsHold ==
  /\ IsFiniteSet({p \in Creates : step[p] # "idle"})
  /\ dirs \in Seq(Creates) /\ Distinct(dirs)
  /\ doomed \in [Creates -> Seq(Creates)]
  /\ Retain # 0 =>
       \A P \in SUBSET Pruning :
         Cardinality(Members(dirs) \ Doomed(P)) <= Retain + Cardinality(Unpruned \ P)

IncidentIInv ==
  LedgerHolds /\ RunsHold /\ ReadsHold /\ DivergenceHolds /\ CaseHolds /\ DirsHold

-----------------------------------------------------------------------------
(* The others.                                                             *)

(* The ledger only grows.                                                  *)
LEMMA TimedGrows ==
  ASSUME NEW E, Timed(E), events \in Seq(E), NEW e, e.at \in Nat, events' = Append(events, e)
  PROVE  /\ \E F : Timed(F) /\ events' \in Seq(F)
         /\ Len(events') = Len(events) + 1 /\ Len(events) \in Nat
         /\ \A n \in 0 .. Len(events) : SubSeq(events', 1, n) = SubSeq(events, 1, n)
<1> DEFINE F == E \cup {e}
<1>1. Timed(F) /\ events \in Seq(F) /\ e \in F
  BY SeqMonotonic DEF Timed
<1> HIDE DEF F
<1>2. events' \in Seq(F) /\ Len(events') = Len(events) + 1 /\ Len(events) \in Nat
  BY <1>1
<1>3. ASSUME NEW n \in 0 .. Len(events) PROVE SubSeq(events', 1, n) = SubSeq(events, 1, n)
  <2>1. \A i \in 1 .. n : events[i] \in F /\ events'[i] = events[i]
    BY <1>1, <1>2
  <2>2. /\ SubSeq(events, 1, n) \in Seq(F)
        /\ Len(SubSeq(events, 1, n)) = n
        /\ \A i \in 1 .. n : SubSeq(events, 1, n)[i] = events[i]
    BY <1>2, <2>1
  <2>3. /\ SubSeq(events', 1, n) \in Seq(F)
        /\ Len(SubSeq(events', 1, n)) = n
        /\ \A i \in 1 .. n : SubSeq(events', 1, n)[i] = events'[i]
    BY <1>2, <2>1
  <2> QED
    BY <2>1, <2>2, <2>3, SeqEqual
<1> QED
  BY <1>1, <1>2, <1>3

(* What the others' steps leave to the reports.                            *)
OthersKeep ==
  /\ now <= now'
  /\ Len(events) <= Len(events') /\ Len(events) \in Nat /\ Len(events') \in Nat
  /\ \A n \in 0 .. Len(events) : SubSeq(events', 1, n) = SubSeq(events, 1, n)
  /\ \A r \in Runs : run[r].phase = "published" => run'[r] = run[r]
  /\ UNCHANGED incidentVars

LEMMA HooksKeep ==
  ASSUME IncidentIInv, [Next]_vars, UNCHANGED <<runVars, incidentVars>>
  PROVE  LedgerHolds' /\ RunsHold' /\ OthersKeep
<1>1. HookIInv /\ HookIInv'
  BY HookStep DEF IncidentIInv, LedgerHolds
<1>2. PICK E : Timed(E) /\ events \in Seq(E)
  BY DEF IncidentIInv, LedgerHolds
<1>3. now \in Nat /\ now' \in Nat /\ now <= now'
  <2>1. now \in Nat /\ now' \in Nat
    BY <1>1 DEF HookIInv, HookTypeOK
  <2>2. now' = now \/ now' = now + 1
    BY DEF Next, HookNext, Tick, Fire, Work, NoCompatibleCLI, RefuseInput, Refuse, Stamp, Record, LoseEvent, NoRepository, JudgeStop,
       KillHook, vars
  <2> QED
    BY <2>1, <2>2
<1>4. events' = events \/ \E h \in Hooks : events' = Append(events, Normalized(h))
  BY DEF Next, HookNext, Tick, Fire, Work, NoCompatibleCLI, RefuseInput, Refuse, Stamp, Record, LoseEvent, NoRepository, JudgeStop,
     KillHook, vars
<1>5. \A h \in Hooks : Normalized(h).at \in Nat
  BY <1>1 DEF HookIInv, HookTypeOK, Normalized
<1>6. (\E F : Timed(F) /\ events' \in Seq(F)) /\ Len(events) <= Len(events')
      /\ Len(events) \in Nat /\ Len(events') \in Nat
      /\ \A n \in 0 .. Len(events) : SubSeq(events', 1, n) = SubSeq(events, 1, n)
  <2>1. CASE events' = events
    BY <1>2, <2>1
  <2>2. CASE \E h \in Hooks : events' = Append(events, Normalized(h))
    BY <1>2, <1>5, <2>2, TimedGrows
  <2> QED
    BY <1>4, <2>1, <2>2
<1>7. RunsHold'
  BY <1>3 DEF IncidentIInv, RunsHold, runVars
<1> QED
  BY <1>1, <1>3, <1>6, <1>7 DEF LedgerHolds, OthersKeep, runVars

LEMMA OthersLeave ==
  ASSUME IncidentIInv, OthersKeep, LedgerHolds', RunsHold'
  PROVE  IncidentIInv'
<1> USE DEF OthersKeep
<1>1. UNCHANGED <<step, seen, unread, observed, verdict, supported, divergence,
                  files, dirs, case, shown, torn, doomed>>
  BY DEF incidentVars, reading, artifacts
<1>2. ReadsHold'
  <2>1. ASSUME NEW p \in Creates PROVE Reads(p)'
    <3>1. Reads(p)
      BY DEF IncidentIInv, ReadsHold
    <3>2. seen[p] \in 0 .. Len(events')
      BY <3>1 DEF Reads
    <3>3. \A r \in observed[p] : run'[r.id] = run[r.id]
      BY <3>1 DEF Reads
    <3> QED
      BY <1>1, <3>1, <3>2, <3>3 DEF Reads, Receipt
  <2> QED
    BY <1>1, <2>1 DEF IncidentIInv, ReadsHold
<1>3. DivergenceHolds'
  <2>1. \A p \in Creates : Timeline(p)' = Timeline(p)
    BY <1>1 DEF IncidentIInv, ReadsHold, Reads, Timeline
  <2> QED
    BY <1>1, <2>1 DEF IncidentIInv, DivergenceHolds
<1>4. CaseHolds'
  BY <1>1 DEF IncidentIInv, CaseHolds, Written, Writing
<1>5. DirsHold'
  <2>1. Unpruned' = Unpruned /\ Pruning' = Pruning /\ \A P : Doomed(P)' = Doomed(P)
    BY <1>1 DEF Unpruned, Pruning, Doomed
  <2> QED
    BY <1>1, <2>1 DEF IncidentIInv, DirsHold, Distinct
<1> QED
  BY <1>2, <1>3, <1>4, <1>5 DEF IncidentIInv

LEMMA RunsKeep ==
  ASSUME IncidentIInv, NEW r \in Runs, StartRun(r) \/ EndRun(r) \/ PublishRun(r)
  PROVE  LedgerHolds' /\ RunsHold' /\ OthersKeep
<1>1. RunsHold /\ UNCHANGED <<vars, imported, incidentVars>>
  BY DEF IncidentIInv, StartRun, EndRun, PublishRun
<1>2. now \in Nat /\ UNCHANGED <<now, events>>
  BY <1>1 DEF IncidentIInv, LedgerHolds, HookIInv, HookTypeOK, vars
<1>3. LedgerHolds'
  <2>1. HookIInv'
    BY <1>1, HookStep DEF IncidentIInv, LedgerHolds
  <2> QED
    BY <1>2, <2>1 DEF IncidentIInv, LedgerHolds
<1>4. Len(events) \in Nat
  BY DEF IncidentIInv, LedgerHolds
<1> DEFINE Told == [phase : {"idle", "begun", "ended", "published"},
                    check : Required \cup {0}, start : Nat, finish : Nat, verdict : Verdicts]
<1>5. run \in [Runs -> Told] /\ run[r] \in Told
  BY <1>1 DEF RunsHold
<1>6. PICK t \in Told :
        /\ run' = [run EXCEPT ![r] = t] /\ run[r].phase # "published"
        /\ t.check \in Required /\ t.start <= now /\ t.finish <= now
        /\ t.phase \in {"ended", "published"} => t.start < t.finish
        /\ \/ latest' = latest
           \/ t.phase = "published" /\ latest' = [latest EXCEPT ![t.check] = {r}]
  <2>1. CASE StartRun(r)
    <3>1. PICK c \in Required :
            run' = [run EXCEPT ![r] = [run[r] EXCEPT !.phase = "begun", !.check = c, !.start = now]]
      BY <1>5, <2>1 DEF StartRun
    <3>2. run[r].phase = "idle" /\ run[r].finish <= now /\ latest' = latest
      BY <1>1, <2>1 DEF StartRun, Fresh, RunsHold
    <3> DEFINE u == [run[r] EXCEPT !.phase = "begun", !.check = c, !.start = now]
    <3>3. u \in Told /\ u.phase = "begun" /\ u.check = c /\ u.start <= now /\ u.finish <= now
      <4>1. u \in Told /\ u.phase = "begun" /\ u.check = c
        BY <1>2, <1>5
      <4>2. u.start = now /\ u.finish = run[r].finish
        BY <1>5
      <4> HIDE DEF u
      <4> QED
        BY <1>2, <3>2, <4>1, <4>2
    <3>4. run' = [run EXCEPT ![r] = u]
      BY <3>1
    <3> HIDE DEF u, Told
    <3> QED
      BY <3>2, <3>3, <3>4
  <2>2. CASE EndRun(r)
    <3>1. PICK v \in Verdicts :
            run' = [run EXCEPT ![r] = [run[r] EXCEPT !.phase = "ended", !.finish = now, !.verdict = v]]
      BY <1>5, <2>2 DEF EndRun
    <3>2. run[r].phase = "begun" /\ run[r].start < now /\ latest' = latest
      BY <2>2 DEF EndRun
    <3>3. run[r].check \in Required /\ run[r].start <= now
      BY <1>1, <3>2 DEF RunsHold
    <3> DEFINE u == [run[r] EXCEPT !.phase = "ended", !.finish = now, !.verdict = v]
    <3>4. /\ u \in Told /\ u.phase = "ended" /\ u.check = run[r].check
          /\ u.start <= now /\ u.finish <= now /\ u.start < u.finish
      <4>1. u \in Told /\ u.phase = "ended" /\ u.check = run[r].check
        BY <1>2, <1>5
      <4>2. u.start = run[r].start /\ u.finish = now
        BY <1>5
      <4> HIDE DEF u
      <4> QED
        BY <1>2, <3>2, <3>3, <4>1, <4>2
    <3>5. run' = [run EXCEPT ![r] = u]
      BY <3>1
    <3> HIDE DEF u, Told
    <3> QED
      BY <3>2, <3>3, <3>4, <3>5
  <2>3. CASE PublishRun(r)
    <3>1. /\ run' = [run EXCEPT ![r] = [run[r] EXCEPT !.phase = "published"]]
          /\ latest' = [latest EXCEPT ![run[r].check] = {r}]
          /\ run[r].phase = "ended"
      BY <1>5, <2>3 DEF PublishRun
    <3>2. /\ run[r].check \in Required /\ run[r].start <= now /\ run[r].finish <= now
          /\ run[r].start < run[r].finish
      BY <1>1, <3>1 DEF RunsHold
    <3> DEFINE u == [run[r] EXCEPT !.phase = "published"]
    <3>3. /\ u \in Told /\ u.phase = "published" /\ u.check = run[r].check
          /\ u.start = run[r].start /\ u.finish = run[r].finish
      BY <1>5
    <3>4. run' = [run EXCEPT ![r] = u]
      BY <3>1
    <3> HIDE DEF u, Told
    <3> QED
      BY <3>1, <3>2, <3>3, <3>4
  <2> QED
    BY <2>1, <2>2, <2>3
<1>7. /\ run' \in [Runs -> Told] /\ run'[r] = t
      /\ \A q \in Runs \ {r} : run'[q] = run[q]
  BY <1>5, <1>6
<1>8. RunsHold'
  <2>1. \A q \in Runs :
          /\ run'[q].phase # "idle" => run'[q].check \in Required
          /\ run'[q].start <= now /\ run'[q].finish <= now
          /\ run'[q].phase \in {"ended", "published"} => run'[q].start < run'[q].finish
    BY <1>1, <1>6, <1>7 DEF RunsHold
  <2>2. latest' \in [Required -> SUBSET Runs]
    BY <1>1, <1>6 DEF RunsHold
  <2>3. \A c \in Required : \A q \in latest'[c] :
          run'[q].phase = "published" /\ run'[q].check = c
    BY <1>1, <1>6, <1>7 DEF RunsHold
  <2> QED
    BY <1>2, <1>7, <2>1, <2>2, <2>3 DEF RunsHold
<1> QED
  BY <1>1, <1>2, <1>3, <1>4, <1>6, <1>7, <1>8 DEF OthersKeep

LEMMA ImportsKeep ==
  ASSUME IncidentIInv, NEW i \in Imports, ImportEvent(i)
  PROVE  LedgerHolds' /\ RunsHold' /\ OthersKeep
<1>1. HookIInv /\ UNCHANGED <<now, hookVars, run, latest, incidentVars>>
  BY DEF IncidentIInv, LedgerHolds, ImportEvent
<1>2. now \in Nat
  BY <1>1 DEF HookIInv, HookTypeOK
<1>3. PICK e : e.at \in Nat /\ events' = Append(events, e)
  <2>1. PICK at \in 1 .. now, root \in BOOLEAN, claims \in Claims :
          events' = Append(events, [id |-> i, at |-> at, root |-> root, claims |-> claims])
    BY DEF ImportEvent
  <2> QED
    BY <1>2, <2>1
<1>4. PICK E : Timed(E) /\ events \in Seq(E)
  BY DEF IncidentIInv, LedgerHolds
<1>5. /\ \E F : Timed(F) /\ events' \in Seq(F)
      /\ Len(events') = Len(events) + 1 /\ Len(events) \in Nat
      /\ \A n \in 0 .. Len(events) : SubSeq(events', 1, n) = SubSeq(events, 1, n)
  BY <1>3, <1>4, TimedGrows
<1>6. HookIInv'
  <2>1. Ledger' /\ \A h \in Hooks : Recorded(h) => Recorded(h)'
    BY <1>1, <1>3, LedgerGrows DEF HookIInv
  <2>2. HookTypeOK' /\ OneWaits' /\ FlagHolds' /\ FreshTurn' /\ AnsweredAtEnd' /\ BlockedOnce'
    BY <1>1 DEF HookIInv, hookVars, HookTypeOK, OneWaits, FlagHolds, FreshTurn, AnsweredAtEnd,
                BlockedOnce, Waiting
  <2>3. GateIsFirst' /\ StopOnRecord'
    BY <1>1, <2>1 DEF HookIInv, hookVars, GateIsFirst, StopOnRecord
  <2> QED
    BY <2>1, <2>2, <2>3 DEF HookIInv
<1>7. RunsHold'
  BY <1>1 DEF IncidentIInv, RunsHold
<1> QED
  BY <1>1, <1>2, <1>5, <1>6, <1>7 DEF LedgerHolds, OthersKeep

-----------------------------------------------------------------------------
(* A step of a report.                                                     *)

LEMMA CreateLeaves ==
  ASSUME NEW p \in Creates, Create(p)
  PROVE  UNCHANGED <<now, events, hookVars, run, latest>>
BY DEF Create, Assess, ReadLedger, ReadReceipt, NoReceipt, MakeDirectory, WriteFile, LoseDirectory,
       TruncateCase, WriteCase, TruncateIncident, WriteIncident, ListOld, RemoveOld, Finish,
       StopCreate, vars, runVars

LEMMA StrongerIs ==
  ASSUME NEW u \in Verdicts, NEW v \in Verdicts
  PROVE  /\ StrongerVerdict(u, v) \in Verdicts
         /\ StrongerVerdict(u, v) = "FAIL" <=> u = "FAIL" \/ v = "FAIL"
         /\ StrongerVerdict(u, v) = "PASS" <=> u = "PASS" /\ v = "PASS"
<1>1. Rank["FAIL"] = 2 /\ Rank["INCONCLUSIVE"] = 1 /\ Rank["PASS"] = 0
  BY DEF Rank, Verdicts
<1> QED
  BY <1>1 DEF StrongerVerdict, Verdicts

(* The rest of a report only moves on.                                     *)
MovesOn(p) ==
  /\ UNCHANGED <<seen, unread, observed, verdict, supported, divergence>>
  /\ step[p] \notin {"idle", "receipts"}
  /\ \E s \in Steps \ {"idle", "receipts"} : step' = [step EXCEPT ![p] = s]

LEMMA CreateReadsOrMovesOn ==
  ASSUME ReadsHold, NEW p \in Creates, Create(p)
  PROVE  ReadLedger(p) \/ ReadReceipt(p) \/ NoReceipt(p) \/ MakeDirectory(p) \/ MovesOn(p)
<1> USE DEF Steps, Advance, reading
<1>1. step = [step EXCEPT ![p] = step[p]] /\ step[p] \in Steps
  BY DEF ReadsHold
<1>2. WriteFile(p) \/ RemoveOld(p) => MovesOn(p)
  BY <1>1 DEF WriteFile, RemoveOld, MovesOn
<1>3. LoseDirectory(p) \/ TruncateCase(p) \/ WriteCase(p) \/ TruncateIncident(p)
        \/ WriteIncident(p) \/ ListOld(p) \/ Finish(p) \/ StopCreate(p) => MovesOn(p)
  BY DEF LoseDirectory, TruncateCase, WriteCase, TruncateIncident, WriteIncident, ListOld, Finish,
         StopCreate, MovesOn
<1> QED
  BY <1>2, <1>3 DEF Create

(* One round of assessReceipts.                                            *)
LEMMA RoundKeeps ==
  ASSUME IncidentIInv, NEW p \in Creates, step[p] = "receipts", unread[p] # {}, NEW v \in Verdicts,
         Assess(p, v), UNCHANGED <<run, events>>,
         \/ /\ v = "INCONCLUSIVE"
            /\ UNCHANGED <<observed, supported>>
         \/ \E r \in latest[Min(unread[p])], fresh \in BOOLEAN :
              /\ v = IF run[r].verdict = "PASS" /\ ~fresh THEN "INCONCLUSIVE" ELSE run[r].verdict
              /\ run[r].verdict # "PASS" => ~fresh
              /\ observed' = [observed EXCEPT ![p] = @ \cup {Receipt(r)}]
              /\ supported' =
                   [supported EXCEPT ![p] = IF fresh THEN @ \cup {Min(unread[p])} ELSE @]
  PROVE  ReadsHold'
<1> DEFINE c == Min(unread[p])
<1>1. ReadsHold /\ RunsHold /\ Reads(p)
  BY DEF IncidentIInv, ReadsHold
<1>2. c \in unread[p] /\ c \in Required
  <2>1. unread[p] \in SUBSET Nat
    BY <1>1, IncidentAssumption DEF Reads
  <2> QED
    BY <1>1, <2>1, MinIs DEF Reads
<1> HIDE DEF c
<1>3. /\ UNCHANGED <<step, seen>>
      /\ unread' = [unread EXCEPT ![p] = @ \ {c}]
      /\ verdict' = [verdict EXCEPT ![p] = StrongerVerdict(@, v)]
  BY DEF Assess, c
<1>4. step \in [Creates -> Steps] /\ \A f \in {seen, unread, observed, verdict, supported} : DOMAIN f = Creates
  BY <1>1 DEF ReadsHold
<1>5. CASE v = "INCONCLUSIVE" /\ UNCHANGED <<observed, supported>>
  <2>1. ASSUME NEW q \in Creates, q # p PROVE Reads(q)'
    BY <1>1, <1>3, <1>4, <1>5, <2>1 DEF ReadsHold, Reads, Receipt
  <2>2. unread'[p] = unread[p] \ {c} /\ verdict'[p] = StrongerVerdict(verdict[p], v)
    BY <1>3, <1>4
  <2>3. /\ verdict'[p] \in Verdicts
        /\ verdict'[p] = "FAIL" <=> verdict[p] = "FAIL"
        /\ verdict'[p] # "PASS"
    <3>1. verdict[p] \in Verdicts /\ verdict'[p] = StrongerVerdict(verdict[p], "INCONCLUSIVE")
      BY <1>1, <1>5, <2>2 DEF Reads
    <3>2. "INCONCLUSIVE" \in Verdicts
      BY DEF Verdicts
    <3> QED
      BY <3>1, <3>2, StrongerIs
  <2>4. supported[p] # Required \ unread'[p]
    BY <1>1, <1>2, <2>2 DEF Reads
  <2>5. Reads(p)'
    BY <1>1, <1>3, <1>5, <2>2, <2>3, <2>4 DEF Reads, Receipt
  <2> QED
    BY <1>3, <1>4, <1>5, <2>1, <2>5 DEF ReadsHold
<1>6. ASSUME NEW r \in latest[c], NEW fresh \in BOOLEAN,
             v = IF run[r].verdict = "PASS" /\ ~fresh THEN "INCONCLUSIVE" ELSE run[r].verdict,
             run[r].verdict # "PASS" => ~fresh,
             observed' = [observed EXCEPT ![p] = @ \cup {Receipt(r)}],
             supported' = [supported EXCEPT ![p] = IF fresh THEN @ \cup {c} ELSE @]
      PROVE  ReadsHold'
  <2>1. ASSUME NEW q \in Creates, q # p PROVE Reads(q)'
    BY <1>1, <1>3, <1>4, <1>6, <2>1 DEF ReadsHold, Reads, Receipt
  <2>2. /\ unread'[p] = unread[p] \ {c} /\ verdict'[p] = StrongerVerdict(verdict[p], v)
        /\ observed'[p] = observed[p] \cup {Receipt(r)}
        /\ supported'[p] = IF fresh THEN supported[p] \cup {c} ELSE supported[p]
    BY <1>3, <1>4, <1>6
  <2>3. r \in Runs /\ run[r].phase = "published" /\ run[r].check = c
    BY <1>1, <1>2, <1>6 DEF RunsHold
  <2>4. Receipt(r).id = r /\ Receipt(r).check = c /\ Receipt(r).verdict = run[r].verdict
    BY <2>3 DEF Receipt
  <2>5. verdict'[p] \in Verdicts
    BY <1>1, <2>2, StrongerIs DEF Reads
  <2>6. verdict'[p] = "FAIL" <=> Failures(observed'[p]) # {}
    <3>1. verdict'[p] = "FAIL" <=> verdict[p] = "FAIL" \/ v = "FAIL"
      BY <1>1, <2>2, StrongerIs DEF Reads
    <3>2. v = "FAIL" <=> Receipt(r).verdict = "FAIL"
      BY <1>6, <2>4
    <3>3. Failures(observed'[p]) # {} <=> Failures(observed[p]) # {} \/ Receipt(r).verdict = "FAIL"
      BY <2>2 DEF Failures
    <3> QED
      BY <1>1, <3>1, <3>2, <3>3 DEF Reads
  <2>7. verdict'[p] = "PASS" <=> supported'[p] = Required \ unread'[p]
    <3>1. verdict'[p] = "PASS" <=> verdict[p] = "PASS" /\ v = "PASS"
      BY <1>1, <2>2, StrongerIs DEF Reads
    <3>2. v = "PASS" <=> fresh
      BY <1>6
    <3>3. supported'[p] = Required \ unread'[p] <=> supported[p] = Required \ unread[p] /\ fresh
      BY <1>1, <1>2, <2>2 DEF Reads
    <3> QED
      BY <1>1, <3>1, <3>2, <3>3 DEF Reads
  <2>8. \A o \in observed'[p] :
          /\ o.id \in Runs /\ run'[o.id].phase = "published"
          /\ o = Receipt(o.id)' /\ o.check \in Required \ unread'[p]
    <3>1. \A o \in observed[p] :
            /\ o.id \in Runs /\ run[o.id].phase = "published"
            /\ o = Receipt(o.id) /\ o.check \in Required \ unread[p]
      BY <1>1 DEF Reads
    <3>2. \A s : Receipt(s)' = Receipt(s)
      BY DEF Receipt
    <3> QED
      BY <1>2, <2>2, <2>3, <2>4, <3>1, <3>2
  <2>9. unread'[p] \subseteq Required /\ supported'[p] \subseteq Required \ unread'[p]
    BY <1>1, <1>2, <2>2 DEF Reads
  <2>10. step'[p] = "receipts" /\ seen'[p] \in 0 .. Len(events')
    BY <1>1, <1>3 DEF Reads
  <2>11. Reads(p)'
    BY <2>5, <2>6, <2>7, <2>8, <2>9, <2>10 DEF Reads
  <2> QED
    BY <1>3, <1>4, <1>6, <2>1, <2>11 DEF ReadsHold
<1> QED
  BY <1>5, <1>6 DEF c

LEMMA CreateReads ==
  ASSUME IncidentIInv, NEW p \in Creates, Create(p)
  PROVE  ReadsHold'
<1>1. ReadsHold /\ UNCHANGED <<events, run>>
  BY CreateLeaves DEF IncidentIInv
<1>2. /\ step \in [Creates -> Steps]
      /\ \A f \in {seen, unread, observed, verdict, supported} : DOMAIN f = Creates
      /\ \A q \in Creates : Reads(q)
      /\ \A s : Receipt(s)' = Receipt(s)
  BY <1>1 DEF ReadsHold, Receipt
<1>3. CASE ReadLedger(p)
  <2>1. /\ step' = [step EXCEPT ![p] = "receipts"] /\ step[p] = "idle"
        /\ seen' = [seen EXCEPT ![p] = Len(events)]
        /\ unread' = [unread EXCEPT ![p] = Required]
        /\ UNCHANGED <<observed, verdict, supported>>
    BY <1>3 DEF ReadLedger, Advance
  <2>2. ASSUME NEW q \in Creates, q # p PROVE Reads(q)'
    BY <1>1, <1>2, <2>1, <2>2 DEF Reads
  <2>3. Reads(p)'
    <3>1. verdict[p] = "PASS" /\ supported[p] = {} /\ observed[p] = {} /\ Failures(observed[p]) = {}
      BY <1>2, <2>1 DEF Reads
    <3>2. Len(events) \in Nat
      BY DEF IncidentIInv, LedgerHolds
    <3> QED
      BY <1>1, <1>2, <2>1, <3>1, <3>2 DEF Reads, Steps, Verdicts
  <2>4. step' \in [Creates -> Steps]
    BY <1>2, <2>1 DEF Steps
  <2> QED
    BY <1>2, <2>1, <2>2, <2>3, <2>4 DEF ReadsHold
<1>4. CASE ReadReceipt(p)
  <2> DEFINE c == Min(unread[p])
  <2>1. PICK r \in latest[c], fresh \in BOOLEAN :
          /\ run[r].verdict # "PASS" => ~fresh
          /\ observed' = [observed EXCEPT ![p] = @ \cup {Receipt(r)}]
          /\ supported' = [supported EXCEPT ![p] = IF fresh THEN @ \cup {c} ELSE @]
          /\ Assess(p, IF run[r].verdict = "PASS" /\ ~fresh THEN "INCONCLUSIVE" ELSE run[r].verdict)
    BY <1>4 DEF ReadReceipt
  <2>2. step[p] = "receipts" /\ unread[p] # {}
    BY <1>4 DEF ReadReceipt
  <2>3. r \in Runs
    <3>1. unread[p] \in SUBSET Nat
      BY <1>2, IncidentAssumption DEF Reads
    <3>2. c \in Required
      BY <1>2, <2>2, <3>1, MinIs DEF Reads
    <3> QED
      BY <2>1, <3>2 DEF IncidentIInv, RunsHold
  <2> DEFINE v == IF run[r].verdict = "PASS" /\ ~fresh THEN "INCONCLUSIVE" ELSE run[r].verdict
  <2>4. v \in Verdicts /\ Assess(p, v)
    BY <2>1, <2>3 DEF IncidentIInv, RunsHold, Verdicts
  <2>5. v = IF run[r].verdict = "PASS" /\ ~fresh THEN "INCONCLUSIVE" ELSE run[r].verdict
    OBVIOUS
  <2> HIDE DEF v
  <2> QED
    BY <1>1, <2>1, <2>2, <2>4, <2>5, RoundKeeps
<1>5. CASE NoReceipt(p)
  <2>1. step[p] = "receipts" /\ unread[p] # {} /\ Assess(p, "INCONCLUSIVE")
        /\ UNCHANGED <<observed, supported>>
    BY <1>5 DEF NoReceipt
  <2>2. "INCONCLUSIVE" \in Verdicts
    BY DEF Verdicts
  <2> QED
    BY <1>1, <2>1, <2>2, RoundKeeps
<1>6. CASE MakeDirectory(p)
  <2>1. /\ step' = [step EXCEPT ![p] = "files"] /\ step[p] = "receipts" /\ unread[p] = {}
        /\ verdict' = [verdict EXCEPT ![p] = IF Required = {} THEN "INCONCLUSIVE" ELSE @]
        /\ UNCHANGED <<seen, unread, observed, supported>>
    BY <1>6 DEF MakeDirectory, Advance
  <2>2. ASSUME NEW q \in Creates, q # p PROVE Reads(q)'
    BY <1>1, <1>2, <2>1, <2>2 DEF Reads
  <2>3. Reads(p)'
    <3>1. verdict[p] = "PASS" <=> supported[p] = Required
      BY <1>2, <2>1 DEF Reads
    <3>2. Required = {} => Failures(observed[p]) = {}
      BY <1>2 DEF Reads, Failures
    <3>3. verdict'[p] = IF Required = {} THEN "INCONCLUSIVE" ELSE verdict[p]
      BY <1>2, <2>1
    <3>4. step'[p] = "files"
      BY <1>2, <2>1
    <3>5. /\ verdict'[p] \in Verdicts
          /\ verdict'[p] = "FAIL" <=> Failures(observed[p]) # {}
          /\ verdict'[p] = "PASS" <=> Required # {} /\ supported[p] = Required
      BY <1>2, <3>1, <3>2, <3>3 DEF Reads, Verdicts
    <3> QED
      BY <1>1, <1>2, <2>1, <3>4, <3>5 DEF Reads
  <2>4. step' \in [Creates -> Steps]
    BY <1>2, <2>1 DEF Steps
  <2> QED
    BY <1>2, <2>1, <2>2, <2>3, <2>4 DEF ReadsHold
<1>7. CASE MovesOn(p)
  <2>1. PICK s \in Steps \ {"idle", "receipts"} : step' = [step EXCEPT ![p] = s]
    BY <1>7 DEF MovesOn
  <2>2. step' \in [Creates -> Steps] /\ step'[p] = s /\ \A q \in Creates \ {p} : step'[q] = step[q]
    BY <1>2, <2>1
  <2>3. UNCHANGED <<seen, unread, observed, verdict, supported>> /\ step[p] \notin {"idle", "receipts"}
    BY <1>7 DEF MovesOn
  <2>4. \A q \in Creates : Reads(q)'
    BY <1>1, <1>2, <2>2, <2>3 DEF Reads
  <2> QED
    BY <1>2, <2>2, <2>3, <2>4 DEF ReadsHold
<1> QED
  BY <1>1, <1>3, <1>4, <1>5, <1>6, <1>7, CreateReadsOrMovesOn

LEMMA CreateLocates ==
  ASSUME IncidentIInv, NEW p \in Creates, Create(p)
  PROVE  DivergenceHolds'
<1>1. /\ ReadsHold /\ DivergenceHolds /\ UNCHANGED events
      /\ DOMAIN divergence = Creates /\ step \in [Creates -> Steps]
      /\ \A f \in {seen, observed} : DOMAIN f = Creates
  BY CreateLeaves DEF IncidentIInv, ReadsHold, DivergenceHolds
<1>2. \A q \in Creates : seen'[q] = seen[q] => Timeline(q)' = Timeline(q)
  BY <1>1 DEF Timeline
<1>3. CASE ReadLedger(p) \/ ReadReceipt(p) \/ NoReceipt(p)
  <2>1. /\ UNCHANGED divergence /\ step'[p] = "receipts"
        /\ \A q \in Creates \ {p} :
             step'[q] = step[q] /\ seen'[q] = seen[q] /\ observed'[q] = observed[q]
    BY <1>1, <1>3 DEF ReadLedger, Advance, ReadReceipt, NoReceipt, Assess
  <2> QED
    BY <1>1, <1>2, <2>1 DEF DivergenceHolds
<1>4. CASE MakeDirectory(p)
  <2>1. /\ divergence' = [divergence EXCEPT ![p] = Locate(Timeline(p), observed[p])]
        /\ UNCHANGED <<seen, observed>>
        /\ \A q \in Creates \ {p} : step'[q] = step[q]
    BY <1>1, <1>4 DEF MakeDirectory, Advance
  <2> QED
    BY <1>1, <1>2, <2>1 DEF DivergenceHolds
<1>5. CASE MovesOn(p)
  <2>1. UNCHANGED <<seen, observed, divergence>>
        /\ \A q \in Creates : step'[q] \notin {"idle", "receipts"} => step[q] \notin {"idle", "receipts"}
    BY <1>1, <1>5 DEF MovesOn
  <2> QED
    BY <1>1, <1>2, <2>1 DEF DivergenceHolds
<1> QED
  BY <1>1, <1>3, <1>4, <1>5, CreateReadsOrMovesOn

LEMMA CreateWrites ==
  ASSUME IncidentIInv, NEW p \in Creates, Create(p)
  PROVE  CaseHolds'
<1>1. /\ CaseHolds /\ step \in [Creates -> Steps]
      /\ files \in [Creates -> 0 .. 3] /\ case \in Seq(Written)
  BY DEF IncidentIInv, ReadsHold, CaseHolds
<1>2. ASSUME UNCHANGED <<files, case, torn>>, Written' = Written, Writing' = Writing
      PROVE  CaseHolds'
  BY <1>1, <1>2 DEF CaseHolds
<1>3. CASE ReadLedger(p) \/ ReadReceipt(p) \/ NoReceipt(p) \/ MakeDirectory(p) \/ LoseDirectory(p)
             \/ TruncateIncident(p) \/ WriteIncident(p) \/ ListOld(p) \/ RemoveOld(p) \/ Finish(p)
  <2>1. UNCHANGED <<files, case, torn>>
    BY <1>3 DEF ReadLedger, ReadReceipt, NoReceipt, Assess, MakeDirectory, LoseDirectory,
                TruncateIncident, WriteIncident, ListOld, RemoveOld, Finish, artifacts
  <2>2. \A q \in Creates :
          /\ step'[q] = "case" <=> step[q] = "case"
          /\ step'[q] \in {"written", "incident", "list", "prune", "done"} <=>
               step[q] \in {"written", "incident", "list", "prune", "done"}
    BY <1>1, <1>3 DEF ReadLedger, ReadReceipt, NoReceipt, Assess, MakeDirectory, LoseDirectory,
                      TruncateIncident, WriteIncident, ListOld, RemoveOld, Finish, Advance
  <2>3. Written' = Written /\ Writing' = Writing
    BY <2>2 DEF Written, Writing
  <2> QED
    BY <1>2, <2>1, <2>3
<1>4. CASE WriteFile(p)
  <2>1. /\ files' = [files EXCEPT ![p] = @ + 1] /\ files[p] \in 0 .. 2
        /\ step[p] = "files" /\ UNCHANGED <<step, case, torn>>
    BY <1>1, <1>4 DEF WriteFile
  <2>2. Written' = Written /\ Writing' = Writing /\ p \notin Written \cup Writing
    BY <2>1 DEF Written, Writing
  <2>3. files' \in [Creates -> 0 .. 3] /\ \A q \in Creates \ {p} : files'[q] = files[q]
    BY <1>1, <2>1
  <2>4. \A q \in Written \cup Writing : files'[q] = 3
    BY <1>1, <2>2, <2>3 DEF CaseHolds, Written, Writing
  <2> QED
    BY <1>1, <2>1, <2>2, <2>3, <2>4 DEF CaseHolds
<1>5. CASE TruncateCase(p)
  <2>1. /\ files[p] = 3 /\ UNCHANGED files /\ case' = <<>>
        /\ torn' = \E q \in Creates : step[q] = "case"
        /\ step[p] = "files" /\ step' = [step EXCEPT ![p] = "case"]
    BY <1>5 DEF TruncateCase, Advance
  <2>2. Written' = Written /\ Writing' = Writing \cup {p}
    BY <1>1, <2>1 DEF Written, Writing
  <2>3. torn' = (Writing # {})
    BY <2>1 DEF Writing
  <2>4. \A q \in Written' \cup Writing' : files'[q] = 3
    BY <1>1, <2>1, <2>2 DEF CaseHolds
  <2>5. case' \in Seq(Written')
    BY <2>1
  <2> QED
    BY <1>1, <2>1, <2>2, <2>3, <2>4, <2>5 DEF CaseHolds
<1>6. CASE WriteCase(p)
  <2>1. /\ UNCHANGED <<files, torn>> /\ case' \in Over(case, p)
        /\ step[p] = "case" /\ step' = [step EXCEPT ![p] = "written"]
    BY <1>6 DEF WriteCase, Advance
  <2>2. Written' = Written \cup {p} /\ Writing' = Writing \ {p} /\ p \in Writing
    BY <1>1, <2>1 DEF Written, Writing
  <2>3. case' \in Seq(Written')
    <3>1. case \in Seq(Written') /\ <<p>> \in Seq(Written')
      BY <1>1, <2>2, SeqMonotonic
    <3>2. <<p>> \o case \in Seq(Written')
      BY <3>1
    <3> QED
      BY <2>1, <3>1, <3>2 DEF Over
  <2>4. \A q \in Written' \cup Writing' : files'[q] = 3
    BY <1>1, <2>1, <2>2 DEF CaseHolds
  <2>5. ~torn' => Writing' = {} /\ case' = <<p>>
    BY <1>1, <2>1, <2>2 DEF CaseHolds, Over
  <2> QED
    BY <1>1, <2>1, <2>2, <2>3, <2>4, <2>5 DEF CaseHolds
<1>7. CASE StopCreate(p)
  <2>1. /\ UNCHANGED <<files, case>> /\ torn' = TRUE
        /\ step[p] = "case" /\ step' = [step EXCEPT ![p] = "failed"]
    BY <1>7 DEF StopCreate, Advance
  <2>2. Written' = Written /\ Writing' = Writing \ {p}
    BY <1>1, <2>1 DEF Written, Writing
  <2> QED
    BY <1>1, <2>1, <2>2 DEF CaseHolds
<1> QED
  BY <1>3, <1>4, <1>5, <1>6, <1>7 DEF Create

-----------------------------------------------------------------------------
(* The directories.                                                        *)

LEMMA MembersAre ==
  ASSUME NEW S, NEW s \in Seq(S)
  PROVE  /\ Members(s) \subseteq S
         /\ IsFiniteSet(Members(s)) /\ Cardinality(Members(s)) <= Len(s)
         /\ Distinct(s) => Cardinality(Members(s)) = Len(s)
<1>1. /\ DOMAIN s = 1 .. Len(s) /\ Len(s) \in Nat
      /\ \A i \in 1 .. Len(s) : s[i] \in S
  OBVIOUS
<1>2. IsFiniteSet(1 .. Len(s)) /\ Cardinality(1 .. Len(s)) = Len(s)
  <2>1. \A n \in Nat : IsFiniteSet(1 .. n) /\ Cardinality(1 .. n) = n
    <3>1. \A a, b \in Int :
            IsFiniteSet(a .. b) /\ Cardinality(a .. b) = IF a > b THEN 0 ELSE b - a + 1
      BY FS_Interval
    <3> QED
      BY <3>1
  <2> QED
    BY <1>1, <2>1
<1> DEFINE f == [i \in 1 .. Len(s) |-> s[i]]
<1>3. f \in Surjection(1 .. Len(s), Members(s))
  BY <1>1 DEF Surjection, Members
<1>4. IsFiniteSet(Members(s)) /\ Cardinality(Members(s)) <= Len(s)
      /\ (Cardinality(Members(s)) = Len(s) <=> f \in Injection(1 .. Len(s), Members(s)))
  BY <1>2, <1>3, FS_Surjection
<1>5. Distinct(s) => f \in Injection(1 .. Len(s), Members(s))
  <2>1. f \in [1 .. Len(s) -> Members(s)] /\ \A i \in 1 .. Len(s) : f[i] = s[i]
    BY <1>1 DEF Members
  <2> HIDE DEF f
  <2>2. ASSUME Distinct(s) PROVE \A i, j \in 1 .. Len(s) : f[i] = f[j] => i = j
    BY <1>1, <2>1, <2>2 DEF Distinct
  <2> QED
    BY <2>1, <2>2 DEF Injection, IsInjective
<1>6. Members(s) \subseteq S
  BY <1>1 DEF Members
<1> QED
  BY <1>4, <1>5, <1>6

(* RemoveFirst of the community modules, of a sequence without repetition. *)
LEMMA RemoveFirstIs ==
  ASSUME NEW S, NEW s \in Seq(S), Distinct(s), NEW x
  PROVE  /\ RemoveFirst(s, x) \in Seq(S) /\ Distinct(RemoveFirst(s, x))
         /\ Members(RemoveFirst(s, x)) = Members(s) \ {x}
<1> DEFINE I == {i \in 1 .. Len(s) : s[i] = x}
           t == RemoveFirst(s, x)
<1>1. /\ DOMAIN s = 1 .. Len(s) /\ Len(s) \in Nat
      /\ \A i \in 1 .. Len(s) : s[i] \in S
  OBVIOUS
<1>2. CASE I = {}
  <2>1. t = s
    BY <1>2 DEF RemoveFirst
  <2> QED
    BY <1>1, <1>2, <2>1 DEF Members
<1>3. CASE I # {}
  <2> DEFINE n == Len(s)
             k == Min(I)
  <2>1. k \in I
    <3>1. I \in SUBSET Nat
      BY <1>1
    <3> QED
      BY <1>3, <3>1, MinIs
  <2>2. t = SubSeq(s, 1, k - 1) \o SubSeq(s, k + 1, n)
    BY <1>3 DEF RemoveFirst, SelectInSeq, RemoveAt
  <2> HIDE DEF t, k
  <2>3. k \in 1 .. n /\ s[k] = x
    BY <2>1
  <2>4. /\ SubSeq(s, 1, k - 1) \in Seq(S) /\ Len(SubSeq(s, 1, k - 1)) = k - 1
        /\ \A i \in 1 .. k - 1 : SubSeq(s, 1, k - 1)[i] = s[i]
    BY <1>1, <2>3
  <2>5. /\ SubSeq(s, k + 1, n) \in Seq(S) /\ Len(SubSeq(s, k + 1, n)) = n - k
        /\ \A i \in 1 .. n - k : SubSeq(s, k + 1, n)[i] = s[k + i]
    <3>1. k + 1 \in 1 .. n + 1 /\ n \in k .. n /\ \A i \in k + 1 .. n : s[i] \in S
      BY <1>1, <2>3
    <3>2. /\ SubSeq(s, k + 1, n) \in Seq(S)
          /\ Len(SubSeq(s, k + 1, n)) = IF k + 1 <= n THEN n - (k + 1) + 1 ELSE 0
          /\ \A i \in 1 .. n - (k + 1) + 1 : SubSeq(s, k + 1, n)[i] = s[k + 1 + i - 1]
      BY <1>1, <2>3, <3>1, SubSeqProperties
    <3>3. n - (k + 1) + 1 = n - k /\ (k + 1 <= n \/ n - k = 0)
      <4>1. k \in Nat /\ n \in Nat /\ k <= n
        BY <1>1, <2>3
      <4> QED
        BY <4>1
    <3>4. \A i \in 1 .. n - k : k + 1 + i - 1 = k + i
      BY <1>1, <2>3
    <3> QED
      BY <3>2, <3>3, <3>4
  <2>6. /\ t \in Seq(S) /\ Len(t) = n - 1
        /\ \A i \in 1 .. n - 1 : t[i] = IF i < k THEN s[i] ELSE s[i + 1]
    <3> DEFINE a == SubSeq(s, 1, k - 1)
               b == SubSeq(s, k + 1, n)
    <3>1. /\ a \in Seq(S) /\ Len(a) = k - 1 /\ \A i \in 1 .. k - 1 : a[i] = s[i]
          /\ b \in Seq(S) /\ Len(b) = n - k /\ \A i \in 1 .. n - k : b[i] = s[k + i]
          /\ t = a \o b
      BY <2>2, <2>4, <2>5
    <3> HIDE DEF a, b
    <3>2. /\ a \o b \in Seq(S) /\ Len(a \o b) = Len(a) + Len(b)
          /\ \A i \in 1 .. Len(a) + Len(b) :
               (a \o b)[i] = IF i <= Len(a) THEN a[i] ELSE b[i - Len(a)]
      BY <3>1, ConcatProperties
    <3>3. ASSUME NEW i \in 1 .. n - 1 PROVE t[i] = IF i < k THEN s[i] ELSE s[i + 1]
      <4>1. i < k => i \in 1 .. k - 1 /\ i <= Len(a)
        BY <1>1, <2>3, <3>1
      <4>2. ~(i < k) => i - (k - 1) \in 1 .. n - k /\ k + (i - (k - 1)) = i + 1 /\ ~(i <= Len(a))
        BY <1>1, <2>3, <3>1
      <4>3. i \in 1 .. Len(a) + Len(b)
        BY <1>1, <2>3, <3>1
      <4> QED
        BY <3>1, <3>2, <4>1, <4>2, <4>3
    <3> QED
      BY <1>1, <2>3, <3>1, <3>2, <3>3
  <2> DEFINE old(i) == IF i < k THEN i ELSE i + 1
  <2>7. \A i \in 1 .. n - 1 : old(i) \in 1 .. n /\ old(i) # k /\ t[i] = s[old(i)]
    BY <1>1, <2>3, <2>6
  <2>8. \A i, j \in 1 .. n - 1 : old(i) = old(j) => i = j
    BY <1>1, <2>3
  <2>9. \A i \in 1 .. n : i # k => \E j \in 1 .. n - 1 : i = old(j)
    <3> SUFFICES ASSUME NEW i \in 1 .. n, i # k PROVE \E j \in 1 .. n - 1 : i = old(j)
      OBVIOUS
    <3>1. CASE i < k
      BY <1>1, <2>3, <3>1
    <3>2. CASE i > k
      <4>1. i - 1 \in 1 .. n - 1 /\ old(i - 1) = i
        BY <1>1, <2>3, <3>2
      <4> QED
        BY <4>1
    <3> QED
      BY <1>1, <2>3, <3>1, <3>2
  <2> HIDE DEF old
  <2>10. Distinct(t)
    BY <1>1, <2>6, <2>7, <2>8 DEF Distinct
  <2>11. Members(t) = Members(s) \ {x}
    <3>1. \A y \in Members(t) : y \in Members(s) \ {x}
      BY <1>1, <2>3, <2>6, <2>7 DEF Members, Distinct
    <3>2. \A y \in Members(s) \ {x} : y \in Members(t)
      <4>1. ASSUME NEW i \in 1 .. n, s[i] # x PROVE s[i] \in Members(t)
        <5>1. PICK j \in 1 .. n - 1 : i = old(j)
          BY <2>3, <2>9, <4>1
        <5>2. t[j] = s[i] /\ j \in DOMAIN t
          BY <2>6, <2>7, <5>1
        <5> QED
          BY <5>2 DEF Members
      <4> QED
        BY <1>1, <4>1 DEF Members
    <3> QED
      BY <3>1, <3>2
  <2> QED
    BY <2>6, <2>10, <2>11 DEF t
<1> QED
  BY <1>2, <1>3

LEMMA TouchedIs ==
  ASSUME NEW p \in Creates, dirs \in Seq(Creates), Distinct(dirs)
  PROVE  /\ Touched(p) \in Seq(Creates) /\ Distinct(Touched(p))
         /\ Members(Touched(p)) = Members(dirs) \cup {p}
<1> DEFINE r == RemoveFirst(dirs, p)
           t == Append(r, p)
<1>1. r \in Seq(Creates) /\ Distinct(r) /\ Members(r) = Members(dirs) \ {p}
  BY RemoveFirstIs
<1> HIDE DEF r
<1>2. /\ DOMAIN r = 1 .. Len(r) /\ Len(r) \in Nat
      /\ t \in Seq(Creates) /\ DOMAIN t = 1 .. Len(r) + 1
      /\ \A i \in 1 .. Len(r) : t[i] = r[i]
      /\ t[Len(r) + 1] = p
  BY <1>1
<1> HIDE DEF t
<1>3. \A i \in 1 .. Len(r) : t[i] # p
  BY <1>1, <1>2 DEF Members
<1>4. Distinct(t)
  <2>1. \A i \in DOMAIN t : i \in 1 .. Len(r) \/ i = Len(r) + 1
    BY <1>2
  <2> QED
    BY <1>1, <1>2, <1>3, <2>1 DEF Distinct
<1>5. Members(t) = Members(r) \cup {p}
  <2>1. \A i \in DOMAIN t : i \in 1 .. Len(r) \/ i = Len(r) + 1
    BY <1>2
  <2>2. \A i \in 1 .. Len(r) : i \in DOMAIN t
    BY <1>2
  <2>3. Len(r) + 1 \in DOMAIN t
    BY <1>2
  <2> QED
    BY <1>2, <2>1, <2>2, <2>3 DEF Members
<1> QED
  BY <1>1, <1>2, <1>4, <1>5 DEF Touched, r, t

(* What is left of a list of distinct directories without the old ones.    *)
LEMMA OldLeaves ==
  ASSUME dirs \in Seq(Creates), Distinct(dirs), Retain # 0
  PROVE  /\ Old(dirs) \in Seq(Creates)
         /\ IsFiniteSet(Members(dirs) \ Members(Old(dirs)))
         /\ Cardinality(Members(dirs) \ Members(Old(dirs))) <= Retain
<1> DEFINE n   == Len(dirs)
           old == Old(dirs)
<1>1. /\ DOMAIN dirs = 1 .. n /\ n \in Nat /\ Retain \in Nat
      /\ \A i \in 1 .. n : dirs[i] \in Creates
  BY IncidentAssumption
<1>2. /\ IsFiniteSet(Members(dirs)) /\ Cardinality(Members(dirs)) <= n
      /\ Cardinality(Members(dirs)) \in Nat
  BY MembersAre, FS_CardinalityType
<1>3. CASE n <= Retain
  <2>1. old = <<>>
    BY <1>3 DEF Old
  <2>2. Members(dirs) \ Members(old) \in SUBSET Members(dirs)
    OBVIOUS
  <2>3. /\ IsFiniteSet(Members(dirs) \ Members(old))
        /\ Cardinality(Members(dirs) \ Members(old)) <= Cardinality(Members(dirs))
    BY <1>2, <2>2, FS_Subset
  <2>4. Cardinality(Members(dirs) \ Members(old)) \in Nat
    BY <2>3, FS_CardinalityType
  <2> HIDE DEF old
  <2> QED
    BY <1>1, <1>2, <1>3, <2>1, <2>3, <2>4 DEF old
<1>4. CASE ~(n <= Retain)
  <2> DEFINE k == n - Retain
  <2>1. old = SubSeq(dirs, 1, k)
    BY <1>4 DEF Old
  <2>2. k \in 1 .. n /\ n - k = Retain
    BY <1>1, <1>4
  <2> HIDE DEF k
  <2>3. /\ old \in Seq(Creates) /\ Len(old) = k
        /\ \A i \in 1 .. k : old[i] = dirs[i]
    <3> HIDE DEF old
    <3> QED
      BY <1>1, <2>1, <2>2
  <2> DEFINE rest == SubSeq(dirs, k + 1, n)
  <2>4. /\ rest \in Seq(Creates) /\ Len(rest) = Retain
        /\ \A i \in k + 1 .. n : i - k \in 1 .. Retain /\ rest[i - k] = dirs[i]
    <3>1. k + 1 \in Int /\ n \in Int /\ \A i \in k + 1 .. n : dirs[i] \in Creates
      BY <1>1, <2>2
    <3>2. /\ rest \in Seq(Creates)
          /\ Len(rest) = IF k + 1 <= n THEN n - (k + 1) + 1 ELSE 0
          /\ \A i \in 1 .. n - (k + 1) + 1 : rest[i] = dirs[k + 1 + i - 1]
      BY <3>1, SubSeqProperties
    <3>3. k + 1 <= n /\ n - (k + 1) + 1 = Retain
      <4>1. Retain > 0
        BY <1>1
      <4> HIDE DEF n
      <4>2. n \in Nat /\ Retain \in Nat
        BY <1>1
      <4>3. k \in Nat /\ n - k = Retain
        BY <2>2, <4>2
      <4> QED
        BY <4>1, <4>2, <4>3
    <3>4. \A i \in k + 1 .. n : i - k \in 1 .. Retain /\ k + 1 + (i - k) - 1 = i
      BY <1>1, <2>2
    <3> HIDE DEF rest
    <3> QED
      BY <3>2, <3>3, <3>4
  <2> HIDE DEF rest, old
  <2>5. Members(dirs) \ Members(old) \in SUBSET Members(rest)
    <3> SUFFICES ASSUME NEW x \in Members(dirs) \ Members(old) PROVE x \in Members(rest)
      OBVIOUS
    <3>1. PICK i \in 1 .. n : x = dirs[i]
      BY <1>1 DEF Members
    <3>2. i \notin 1 .. k
      BY <2>2, <2>3, <3>1 DEF Members
    <3>3. i \in k + 1 .. n
      BY <1>1, <2>2, <3>1, <3>2
    <3>4. i - k \in DOMAIN rest /\ rest[i - k] = x
      BY <2>4, <3>1, <3>3
    <3> QED
      BY <3>4 DEF Members
  <2>6. IsFiniteSet(Members(rest)) /\ Cardinality(Members(rest)) <= Retain
    BY <2>4, MembersAre
  <2>7. /\ IsFiniteSet(Members(dirs) \ Members(old))
        /\ Cardinality(Members(dirs) \ Members(old)) <= Cardinality(Members(rest))
    BY <2>5, <2>6, FS_Subset
  <2>8. Cardinality(Members(rest)) \in Nat /\ Cardinality(Members(dirs) \ Members(old)) \in Nat
    BY <2>6, <2>7, FS_CardinalityType
  <2> QED
    BY <1>1, <2>3, <2>6, <2>7, <2>8 DEF old
<1> QED
  BY <1>3, <1>4

LEMMA CreatePrunes ==
  ASSUME IncidentIInv, NEW p \in Creates, Create(p)
  PROVE  DirsHold'
<1> DEFINE Begun == {q \in Creates : step[q] # "idle"}
           D     == Members(dirs)
<1>1. /\ step \in [Creates -> Steps] /\ IsFiniteSet(Begun)
      /\ dirs \in Seq(Creates) /\ Distinct(dirs)
      /\ doomed \in [Creates -> Seq(Creates)]
      /\ Retain \in Nat
  BY IncidentAssumption DEF IncidentIInv, ReadsHold, DirsHold
<1>2. \A P : IsFiniteSet(Unpruned \ P) /\ Cardinality(Unpruned \ P) \in Nat
  <2>1. \A P : Unpruned \ P \in SUBSET Begun
    BY DEF Unpruned
  <2> QED
    BY <1>1, <2>1, FS_Subset, FS_CardinalityType
<1>3. IsFiniteSet(D)
  BY <1>1, MembersAre
<1>4. \A P : IsFiniteSet(D \ Doomed(P)) /\ Cardinality(D \ Doomed(P)) \in Nat
  <2>1. \A P : D \ Doomed(P) \in SUBSET D
    OBVIOUS
  <2> HIDE DEF D
  <2> QED
    BY <1>3, <2>1, FS_Subset, FS_CardinalityType
<1>5. IsFiniteSet(Begun')
  <2>1. IsFiniteSet(Begun \cup {p})
    BY <1>1, FS_AddElement
  <2>2. Begun' \in SUBSET (Begun \cup {p})
    BY <1>1 DEF Create, Advance, ReadLedger, ReadReceipt, NoReceipt, Assess, MakeDirectory, WriteFile,
                LoseDirectory, TruncateCase, WriteCase, TruncateIncident, WriteIncident, ListOld,
                RemoveOld, Finish, StopCreate
  <2> HIDE DEF Begun
  <2> QED
    BY <2>1, <2>2, FS_Subset
<1>6. \A P \in SUBSET Pruning : Retain # 0 =>
        Cardinality(D \ Doomed(P)) <= Retain + Cardinality(Unpruned \ P)
  BY DEF IncidentIInv, DirsHold
<1> HIDE DEF Begun, D
<1>7. ASSUME D' = D, dirs' \in Seq(Creates), Distinct(dirs'), UNCHANGED doomed,
             Unpruned' = Unpruned, Pruning' = Pruning
      PROVE  DirsHold'
  <2>1. \A P : Doomed(P)' = Doomed(P)
    BY <1>7 DEF Doomed
  <2> QED
    BY <1>1, <1>5, <1>6, <1>7, <2>1 DEF DirsHold, Begun, D
<1>8. CASE ReadLedger(p) \/ ReadReceipt(p) \/ NoReceipt(p) \/ LoseDirectory(p) \/ TruncateCase(p)
             \/ WriteCase(p) \/ TruncateIncident(p) \/ WriteIncident(p) \/ StopCreate(p)
  <2>1. UNCHANGED <<dirs, doomed>>
    BY <1>8 DEF ReadLedger, ReadReceipt, NoReceipt, Assess, LoseDirectory, TruncateCase, WriteCase,
                TruncateIncident, WriteIncident, StopCreate, artifacts
  <2>2. \A q \in Creates :
          /\ step'[q] \in {"idle", "receipts", "done"} <=> step[q] \in {"idle", "receipts", "done"}
          /\ step'[q] = "prune" <=> step[q] = "prune"
    BY <1>1, <1>8 DEF ReadLedger, ReadReceipt, NoReceipt, Assess, LoseDirectory, TruncateCase,
                      WriteCase, TruncateIncident, WriteIncident, StopCreate, Advance
  <2>3. Unpruned' = Unpruned /\ Pruning' = Pruning
    BY <2>2 DEF Unpruned, Pruning
  <2> QED
    BY <1>1, <1>7, <2>1, <2>3 DEF Distinct, D
<1>9. CASE MakeDirectory(p)
  <2>1. /\ step[p] = "receipts" /\ step' = [step EXCEPT ![p] = "files"]
        /\ dirs' = Touched(p) /\ UNCHANGED doomed
    BY <1>9 DEF MakeDirectory, Advance
  <2>2. dirs' \in Seq(Creates) /\ Distinct(dirs)' /\ D' = D \cup {p}
    BY <1>1, <2>1, TouchedIs DEF D, Distinct
  <2>3. Unpruned' = Unpruned \cup {p} /\ p \notin Unpruned /\ Pruning' = Pruning /\ p \notin Pruning
    BY <1>1, <2>1 DEF Unpruned, Pruning
  <2>4. ASSUME Retain # 0, NEW P \in SUBSET Pruning'
        PROVE  Cardinality(D' \ Doomed(P)') <= Retain + Cardinality(Unpruned' \ P)
    <3>1. Doomed(P)' = Doomed(P)
      BY <2>1 DEF Doomed
    <3>2. /\ IsFiniteSet((D \ Doomed(P)) \cup {p})
          /\ Cardinality((D \ Doomed(P)) \cup {p}) \in Nat
          /\ Cardinality((D \ Doomed(P)) \cup {p}) <= Cardinality(D \ Doomed(P)) + 1
      BY <1>4, FS_AddElement, FS_CardinalityType
    <3>3. D' \ Doomed(P)' \in SUBSET ((D \ Doomed(P)) \cup {p})
      BY <2>2, <3>1
    <3>4. /\ Cardinality(D' \ Doomed(P)') <= Cardinality((D \ Doomed(P)) \cup {p})
          /\ Cardinality(D' \ Doomed(P)') \in Nat
      BY <3>2, <3>3, FS_Subset, FS_CardinalityType
    <3>5. Cardinality(Unpruned' \ P) = Cardinality(Unpruned \ P) + 1
      <4>1. Unpruned' \ P = (Unpruned \ P) \cup {p} /\ p \notin Unpruned \ P
        BY <2>3, <2>4
      <4> QED
        BY <1>2, <4>1, FS_AddElement
    <3>6. Cardinality(D \ Doomed(P)) <= Retain + Cardinality(Unpruned \ P)
      BY <1>6, <2>3, <2>4
    <3> DEFINE a == Cardinality(D' \ Doomed(P)')
               b == Cardinality((D \ Doomed(P)) \cup {p})
               c == Cardinality(D \ Doomed(P))
               u == Cardinality(Unpruned \ P)
               w == Cardinality(Unpruned' \ P)
    <3>7. /\ a \in Nat /\ b \in Nat /\ c \in Nat /\ u \in Nat /\ Retain \in Nat
          /\ a <= b /\ b <= c + 1 /\ w = u + 1 /\ c <= Retain + u
      BY <1>1, <1>2, <1>4, <3>2, <3>4, <3>5, <3>6
    <3> HIDE DEF a, b, c, u, w
    <3>8. a <= Retain + w
      BY <3>7
    <3> QED
      BY <3>8 DEF a, w
  <2> QED
    BY <1>1, <1>5, <2>1, <2>2, <2>4 DEF DirsHold, Begun, D
<1>10. CASE WriteFile(p)
  <2>1. /\ HasDirectory(p) /\ dirs' = Touched(p) /\ UNCHANGED <<step, doomed>>
    BY <1>10 DEF WriteFile
  <2>2. dirs' \in Seq(Creates) /\ Distinct(dirs') /\ D' = D
    <3>1. p \in Members(dirs)
      BY <2>1 DEF HasDirectory, Members
    <3>2. /\ Touched(p) \in Seq(Creates) /\ Distinct(Touched(p))
          /\ Members(Touched(p)) = Members(dirs)
      BY <1>1, <3>1, TouchedIs
    <3> QED
      BY <2>1, <3>2 DEF D
  <2>3. Unpruned' = Unpruned /\ Pruning' = Pruning
    BY <2>1 DEF Unpruned, Pruning
  <2> QED
    BY <1>7, <2>1, <2>2, <2>3
<1>11. CASE ListOld(p)
  <2>1. /\ step[p] = "list" /\ step' = [step EXCEPT ![p] = "prune"]
        /\ doomed' = [doomed EXCEPT ![p] = Old(dirs)] /\ UNCHANGED dirs
    BY <1>11 DEF ListOld, Advance
  <2>2. Unpruned' = Unpruned /\ Pruning' = Pruning \cup {p} /\ p \notin Pruning
    BY <1>1, <2>1 DEF Unpruned, Pruning
  <2>3. D' = D
    BY <2>1 DEF D
  <2>4. Old(dirs) \in Seq(Creates)
    <3>1. CASE Retain = 0
      BY <3>1 DEF Old
    <3>2. CASE Retain # 0
      BY <1>1, <3>2, OldLeaves
    <3> QED
      BY <3>1, <3>2
  <2>5. doomed' \in [Creates -> Seq(Creates)]
    BY <1>1, <2>1, <2>4
  <2>6. ASSUME Retain # 0, NEW P \in SUBSET Pruning'
        PROVE  Cardinality(D' \ Doomed(P)') <= Retain + Cardinality(Unpruned' \ P)
    <3>1. CASE p \notin P
      <4>1. Doomed(P)' = Doomed(P)
        <5>1. \A q \in P : doomed'[q] = doomed[q]
          BY <1>1, <2>1, <2>2, <2>6, <3>1 DEF Pruning
        <5> QED
          BY <5>1 DEF Doomed
      <4>2. P \in SUBSET Pruning
        BY <2>2, <3>1
      <4> QED
        <5>1. D' \ Doomed(P)' = D \ Doomed(P) /\ Unpruned' \ P = Unpruned \ P
          BY <2>2, <2>3, <4>1
        <5>2. Cardinality(D \ Doomed(P)) <= Retain + Cardinality(Unpruned \ P)
          BY <1>6, <2>6, <4>2
        <5> QED
          BY <5>1, <5>2
    <3>2. CASE p \in P
      <4>1. Members(Old(dirs)) \subseteq Doomed(P)'
        BY <1>1, <2>1, <3>2 DEF Doomed
      <4>2. D' \ Doomed(P)' \in SUBSET (D \ Members(Old(dirs)))
        BY <2>3, <4>1
      <4>3. /\ IsFiniteSet(D \ Members(Old(dirs)))
            /\ Cardinality(D \ Members(Old(dirs))) <= Retain
        BY <1>1, <2>6, OldLeaves DEF D
      <4>4. /\ IsFiniteSet(D' \ Doomed(P)')
            /\ Cardinality(D' \ Doomed(P)') <= Cardinality(D \ Members(Old(dirs)))
        BY <4>2, <4>3, FS_Subset
      <4>5. Cardinality(D' \ Doomed(P)') \in Nat /\ Cardinality(D \ Members(Old(dirs))) \in Nat
        BY <4>3, <4>4, FS_CardinalityType
      <4> QED
        <5>1. \A a, b, c \in Nat : a <= b /\ b <= Retain => a <= Retain + c
          BY <1>1
        <5>2. Cardinality(Unpruned' \ P) \in Nat
          BY <1>2, <2>2
        <5> QED
          BY <4>3, <4>4, <4>5, <5>1, <5>2
    <3> QED
      BY <3>1, <3>2
  <2> QED
    BY <1>1, <1>5, <2>1, <2>5, <2>6 DEF DirsHold, Begun, D, Distinct
<1>12. CASE RemoveOld(p)
  <2> DEFINE d == Head(doomed[p])
  <2>1. /\ step[p] = "prune" /\ doomed[p] # <<>>
        /\ dirs' = RemoveFirst(dirs, d)
        /\ doomed' = [doomed EXCEPT ![p] = Tail(@)] /\ UNCHANGED step
    BY <1>12 DEF RemoveOld
  <2>2. dirs' \in Seq(Creates) /\ Distinct(dirs') /\ D' = D \ {d}
    BY <1>1, <2>1, RemoveFirstIs DEF D
  <2>3. Unpruned' = Unpruned /\ Pruning' = Pruning
    BY <2>1 DEF Unpruned, Pruning
  <2>4. Tail(doomed[p]) \in Seq(Creates) /\ Members(doomed[p]) \subseteq Members(Tail(doomed[p])) \cup {d}
    <3> DEFINE s == doomed[p]
    <3>1. s \in Seq(Creates) /\ s # <<>>
      BY <1>1, <2>1
    <3> HIDE DEF s
    <3>2. /\ Tail(s) \in Seq(Creates) /\ Len(s) \in Nat /\ DOMAIN Tail(s) = 1 .. Len(s) - 1
          /\ \A i \in 1 .. Len(s) - 1 : Tail(s)[i] = s[i + 1]
          /\ Head(s) = s[1] /\ DOMAIN s = 1 .. Len(s)
      BY <3>1
    <3>3. ASSUME NEW i \in DOMAIN s PROVE s[i] \in Members(Tail(s)) \cup {Head(s)}
      <4>1. CASE i = 1
        BY <3>2, <4>1
      <4>2. CASE i # 1
        <5>1. i - 1 \in DOMAIN Tail(s) /\ Tail(s)[i - 1] = s[i]
          <6>1. i - 1 \in 1 .. Len(s) - 1 /\ (i - 1) + 1 = i
            BY <3>2, <4>2
          <6> QED
            BY <3>2, <6>1
        <5> QED
          BY <5>1 DEF Members
      <4> QED
        BY <4>1, <4>2
    <3> QED
      BY <3>2, <3>3 DEF Members, s
  <2> HIDE DEF d
  <2>5. doomed' \in [Creates -> Seq(Creates)]
    BY <1>1, <2>1, <2>4
  <2>6. ASSUME Retain # 0, NEW P \in SUBSET Pruning'
        PROVE  Cardinality(D' \ Doomed(P)') <= Retain + Cardinality(Unpruned' \ P)
    <3>1. D' \ Doomed(P)' \in SUBSET (D \ Doomed(P))
      <4>1. ASSUME NEW q \in P PROVE Members(doomed[q]) \subseteq Members(doomed'[q]) \cup {d}
        <5>1. q \in Creates
          BY <2>3, <2>6, <4>1 DEF Pruning
        <5>2. doomed'[q] = IF q = p THEN Tail(doomed[p]) ELSE doomed[q]
          BY <1>1, <2>1, <5>1
        <5> QED
          BY <2>4, <5>2
      <4>2. Doomed(P) \subseteq Doomed(P)' \cup {d}
        BY <4>1 DEF Doomed
      <4> QED
        BY <2>2, <4>2
    <3>2. /\ IsFiniteSet(D' \ Doomed(P)')
          /\ Cardinality(D' \ Doomed(P)') <= Cardinality(D \ Doomed(P))
      BY <1>4, <3>1, FS_Subset
    <3>3. Cardinality(D' \ Doomed(P)') \in Nat
      BY <3>2, FS_CardinalityType
    <3>4. Cardinality(D \ Doomed(P)) <= Retain + Cardinality(Unpruned \ P)
      BY <1>6, <2>3, <2>6
    <3> QED
      <4>1. \A a, b, c \in Nat : a <= b /\ b <= Retain + c => a <= Retain + c
        BY <1>1
      <4>2. Cardinality(D' \ Doomed(P)') <= Retain + Cardinality(Unpruned \ P)
        BY <1>2, <1>4, <3>2, <3>3, <3>4, <4>1
      <4> QED
        BY <2>3, <4>2
  <2> QED
    BY <1>5, <2>2, <2>5, <2>6 DEF DirsHold, Begun, D, Distinct
<1>13. CASE Finish(p)
  <2>1. /\ doomed[p] = <<>> /\ step[p] = "prune" /\ step' = [step EXCEPT ![p] = "done"]
        /\ UNCHANGED <<dirs, doomed>>
    BY <1>13 DEF Finish, Advance, artifacts
  <2>2. /\ Unpruned' = Unpruned \ {p} /\ Pruning' = Pruning \ {p} /\ p \in Pruning
        /\ D' = D /\ \A P : Doomed(P)' = Doomed(P)
    BY <1>1, <2>1 DEF Unpruned, Pruning, D, Doomed
  <2>3. ASSUME Retain # 0, NEW P \in SUBSET Pruning'
        PROVE  Cardinality(D' \ Doomed(P)') <= Retain + Cardinality(Unpruned' \ P)
    <3>1. Doomed(P \cup {p}) = Doomed(P)
      BY <2>1 DEF Doomed, Members
    <3>2. Unpruned \ (P \cup {p}) = Unpruned' \ P /\ P \cup {p} \in SUBSET Pruning
      BY <2>2, <2>3
    <3>3. Cardinality(D \ Doomed(P \cup {p})) <= Retain + Cardinality(Unpruned \ (P \cup {p}))
      BY <1>6, <2>3, <3>2
    <3>4. D' \ Doomed(P)' = D \ Doomed(P \cup {p})
      BY <2>2, <3>1
    <3> QED
      BY <3>2, <3>3, <3>4, Zenon
  <2> QED
    BY <1>1, <1>5, <2>1, <2>3 DEF DirsHold, Begun, D, Distinct
<1> QED
  BY <1>8, <1>9, <1>10, <1>11, <1>12, <1>13 DEF Create

-----------------------------------------------------------------------------
(* The invariant is inductive.                                             *)

LEMMA CreateKeeps ==
  ASSUME IncidentIInv, NEW p \in Creates, Create(p)
  PROVE  IncidentIInv'
<1>1. UNCHANGED <<now, events, hookVars, run, latest>>
  BY CreateLeaves
<1>2. LedgerHolds'
  <2>1. HookIInv'
    BY <1>1, HookStep DEF IncidentIInv, LedgerHolds, vars
  <2> QED
    BY <1>1, <2>1 DEF IncidentIInv, LedgerHolds
<1>3. RunsHold'
  BY <1>1 DEF IncidentIInv, RunsHold
<1> QED
  BY <1>2, <1>3, CreateReads, CreateLocates, CreateWrites, CreatePrunes DEF IncidentIInv

LEMMA IncidentStarts == IncidentInit => IncidentIInv
<1> SUFFICES ASSUME IncidentInit PROVE IncidentIInv
  OBVIOUS
<1> USE DEF IncidentInit
<1>1. LedgerHolds
  <2>1. HookIInv
    BY HookInit
  <2>2. Timed({}) /\ events \in Seq({})
    BY DEF Timed, Init
  <2> QED
    BY <2>1, <2>2 DEF LedgerHolds
<1>2. RunsHold
  <2>1. now \in Nat /\ 0 <= now
    BY DEF Init
  <2> QED
    BY <2>1 DEF RunsHold, Verdicts
<1>3. ReadsHold
  <2>1. 0 \in 0 .. Len(events)
    BY DEF Init
  <2> QED
    BY <2>1 DEF ReadsHold, Reads, Steps, Verdicts, Failures
<1>4. DivergenceHolds
  BY DEF DivergenceHolds
<1>5. CaseHolds
  <2>1. Written = {} /\ Writing = {}
    BY DEF Written, Writing
  <2>2. files \in [Creates -> 0 .. 3] /\ case \in Seq({}) /\ torn = FALSE
    OBVIOUS
  <2> QED
    BY <2>1, <2>2 DEF CaseHolds
<1>6. DirsHold
  <2>1. /\ {p \in Creates : step[p] # "idle"} = {} /\ Unpruned = {} /\ Pruning = {}
        /\ Members(dirs) = {} /\ Distinct(dirs)
    BY DEF Unpruned, Pruning, Members, Distinct
  <2>2. IsFiniteSet({}) /\ Cardinality({}) = 0
    BY FS_EmptySet
  <2>3. \A P : Members(dirs) \ Doomed(P) = {} /\ Unpruned \ P = {}
    BY <2>1
  <2>4. 0 <= Retain + 0
    BY IncidentAssumption
  <2>5. \A P : Cardinality(Members(dirs) \ Doomed(P)) <= Retain + Cardinality(Unpruned \ P)
    BY <2>2, <2>3, <2>4
  <2>6. dirs \in Seq(Creates) /\ doomed \in [Creates -> Seq(Creates)]
    OBVIOUS
  <2> QED
    BY <2>1, <2>2, <2>5, <2>6 DEF DirsHold
<1> QED
  BY <1>1, <1>2, <1>3, <1>4, <1>5, <1>6 DEF IncidentIInv

LEMMA IncidentSteps == IncidentIInv /\ [IncidentNext]_allVars => IncidentIInv'
<1> SUFFICES ASSUME IncidentIInv, [IncidentNext]_allVars PROVE IncidentIInv'
  OBVIOUS
<1>1. CASE Wait \/ (\E h \in Hooks : StartHook(h) \/ RunHook(h)) \/ UNCHANGED allVars
  <2>1. [Next]_vars /\ UNCHANGED <<runVars, incidentVars>>
    BY <1>1 DEF Wait, StartHook, RunHook, Next, HookNext, allVars, Fresh
  <2> QED
    BY <2>1, HooksKeep, OthersLeave
<1>2. CASE \E r \in Runs : StartRun(r) \/ EndRun(r) \/ PublishRun(r)
  BY <1>2, RunsKeep, OthersLeave
<1>3. CASE \E i \in Imports : ImportEvent(i)
  BY <1>3, ImportsKeep, OthersLeave
<1>4. CASE \E p \in Creates : Create(p)
  BY <1>4, CreateKeeps
<1> QED
  BY <1>1, <1>2, <1>3, <1>4 DEF IncidentNext

(* Whatever hooks, checks, imports and reports do beside each other, the   *)
(* invariant holds.                                                        *)
THEOREM IncidentInductive == IncidentSpec => []IncidentIInv
BY IncidentStarts, IncidentSteps, PTL DEF IncidentSpec

-----------------------------------------------------------------------------
(* What the invariant says of a report that has come to its findings.      *)

LEMMA TimelineIs ==
  ASSUME IncidentIInv, NEW p \in Creates
  PROVE  \E E : /\ Timed(E) /\ SubSeq(events, 1, seen[p]) \in Seq(E)
                /\ Timeline(p) \in Seq(E) /\ Ordered(Timeline(p))
<1>1. PICK E : Timed(E) /\ events \in Seq(E)
  BY DEF IncidentIInv, LedgerHolds
<1>2. seen[p] \in 0 .. Len(events)
  BY DEF IncidentIInv, ReadsHold, Reads
<1> DEFINE s == SubSeq(events, 1, seen[p])
<1>3. s \in Seq(E)
  <2>1. \A i \in 1 .. seen[p] : events[i] \in E
    BY <1>1, <1>2
  <2> QED
    BY <1>1, <1>2, <2>1, SubSeqProperties
<1> HIDE DEF s
<1>4. Sorted(s) \in Seq(E) /\ Ordered(Sorted(s))
  BY <1>1, <1>3, SortedSorts
<1>5. LatestSession(Sorted(s)) \in Seq(E) /\ Ordered(LatestSession(Sorted(s)))
  BY <1>1, <1>4, SessionIsTail, SessionIsOrdered
<1> QED
  BY <1>1, <1>3, <1>5 DEF Timeline, s

LEMMA ObservedIs ==
  ASSUME IncidentIInv, NEW p \in Creates
  PROVE  Verified(observed[p])
<1> SUFFICES ASSUME NEW r \in observed[p]
             PROVE  /\ r.start \in Nat /\ r.finish \in Nat /\ r.check \in Nat
                    /\ r.start < r.finish
  BY DEF Verified
<1>1. r.id \in Runs /\ run[r.id].phase = "published" /\ r = Receipt(r.id) /\ r.check \in Required
  BY DEF IncidentIInv, ReadsHold, Reads
<1>2. /\ run[r.id].start \in Nat /\ run[r.id].finish \in Nat
      /\ run[r.id].start < run[r.id].finish
  BY <1>1 DEF IncidentIInv, RunsHold
<1>3. r.start = run[r.id].start /\ r.finish = run[r.id].finish
  BY <1>1 DEF Receipt
<1>4. r.check \in Nat
  BY <1>1, IncidentAssumption
<1> QED
  BY <1>2, <1>3, <1>4

(* A divergence that is located names an event or both sides of a window.  *)
LEMMA LocateNames ==
  ASSUME NEW es, NEW rs
  PROVE  LET d == Locate(es, rs) IN
         \/ d.precision = "exact_event" /\ d.event # {} /\ d.from = {} /\ d.to = {}
         \/ d.precision = "time_window" /\ d.event = {} /\ d.from # {} /\ d.to # {}
         \/ d.precision = "unlocated" /\ d.event = {} /\ d.from = {} /\ d.to = {}
<1> DEFINE hits == {i \in DOMAIN es : \E r \in rs : Associated(es[i], r)}
           w    == Enclosing(es, FirstFailure(rs))
           d    == Locate(es, rs)
<1>1. \/ \E a, b : w = [from |-> {a}, to |-> {b}]
      \/ w = [from |-> {}, to |-> {}]
  BY DEF Enclosing
<1>2. CASE hits # {}
  <2> DEFINE x == es[Min(hits)].id
  <2>1. d = At("exact_event", {x}, {}, {})
    BY <1>2 DEF Locate
  <2> HIDE DEF d, x
  <2>2. d.precision = "exact_event" /\ d.event = {x} /\ d.from = {} /\ d.to = {}
    BY <2>1 DEF At
  <2> QED
    BY <2>2 DEF d
<1>3. CASE hits = {} /\ Failures(rs) # {} /\ (w.from # {} \/ w.to # {})
  <2>1. d = At("time_window", {}, w.from, w.to)
    BY <1>3 DEF Locate
  <2> HIDE DEF d, w
  <2>2. PICK a, b : w = [from |-> {a}, to |-> {b}]
    <3>1. w = [from |-> {}, to |-> {}] => w.from = {} /\ w.to = {}
      OBVIOUS
    <3> QED
      BY <1>1, <1>3, <3>1, Zenon
  <2>3. d = At("time_window", {}, {a}, {b})
    BY <2>1, <2>2
  <2>4. d.precision = "time_window" /\ d.event = {} /\ d.from = {a} /\ d.to = {b}
    BY <2>3 DEF At
  <2> QED
    BY <2>4 DEF d
<1>4. CASE hits = {} /\ ~(Failures(rs) # {} /\ (w.from # {} \/ w.to # {}))
  <2>1. d = At("unlocated", {}, {}, {})
    BY <1>4 DEF Locate
  <2> HIDE DEF d
  <2> QED
    BY <2>1 DEF At, d
<1> QED
  BY <1>2, <1>3, <1>4

LEMMA IncidentFollows ==
  ASSUME IncidentIInv
  PROVE  /\ IncidentTypeOK /\ DivergenceIsEarliest /\ SessionKept /\ VerdictIsSupported
         /\ LatestCaseLoads /\ Retained /\ BlockedOnce /\ StopOnRecord
<1>1. IncidentTypeOK
  BY DEF IncidentIInv, LedgerHolds, HookIInv, RunsHold, ReadsHold, Reads, CaseHolds, DirsHold, Distinct,
         IncidentTypeOK
<1>2. DivergenceIsEarliest
  <2> SUFFICES ASSUME NEW p \in Creates, Concluded(p)
               PROVE  EarliestSupported(Members(Timeline(p)), observed[p], divergence[p])
    BY DEF DivergenceIsEarliest
  <2>1. divergence[p] = Locate(Timeline(p), observed[p])
    BY DEF IncidentIInv, DivergenceHolds, Concluded
  <2> QED
    BY <2>1, TimelineIs, ObservedIs, LocateIsEarliest
<1>3. SessionKept
  <2> SUFFICES ASSUME NEW p \in Creates
               PROVE  LET read     == Members(SubSeq(events, 1, seen[p]))
                          roots    == {e \in read : e.root}
                          timeline == Members(Timeline(p))
                      IN /\ {e \in read : \A r \in roots : r.at < e.at} \subseteq timeline
                         /\ \A e \in timeline, r \in roots : r.at <= e.at
                         /\ roots # {} => roots \cap timeline # {}
    BY DEF SessionKept
  <2>1. PICK E : Timed(E) /\ SubSeq(events, 1, seen[p]) \in Seq(E)
    BY TimelineIs
  <2> QED
    BY <2>1, LastSessionIsKept DEF Timeline
<1>4. VerdictIsSupported
  BY DEF IncidentIInv, ReadsHold, Reads, VerdictIsSupported, Concluded
<1>5. LatestCaseLoads
  <2> SUFFICES ASSUME ~torn, Writing = {}, Written # {} PROVE LoadCase(case)
    BY DEF LatestCaseLoads, Writing, Written
  <2>1. PICK q \in Written : case = <<q>>
    BY DEF IncidentIInv, CaseHolds
  <2>2. divergence[q] = Locate(Timeline(q), observed[q])
    BY DEF IncidentIInv, DivergenceHolds, Written
  <2>3. Len(case) = 1 /\ case[1] = q
    BY <2>1
  <2> QED
    BY <2>2, <2>3, LocateNames DEF LoadCase
<1>6. Retained
  <2> SUFFICES ASSUME Retain # 0
               PROVE  Len(dirs) <= Retain + Cardinality({p \in Creates : step[p] \notin {"idle", "done"}})
    BY DEF Retained
  <2> DEFINE U == {p \in Creates : step[p] \notin {"idle", "done"}}
             B == {p \in Creates : step[p] # "idle"}
  <2>1. Len(dirs) = Cardinality(Members(dirs)) /\ Len(dirs) \in Nat
    BY MembersAre DEF IncidentIInv, DirsHold
  <2>2. Cardinality(Members(dirs) \ Doomed({})) <= Retain + Cardinality(Unpruned \ {})
    BY DEF IncidentIInv, DirsHold
  <2>3. Members(dirs) \ Doomed({}) = Members(dirs) /\ Unpruned \ {} = Unpruned
    BY DEF Doomed
  <2>4. IsFiniteSet(B) /\ U \in SUBSET B /\ Unpruned \in SUBSET U
    BY DEF IncidentIInv, DirsHold, Unpruned
  <2> HIDE DEF U, B
  <2>5. IsFiniteSet(U) /\ Cardinality(U) \in Nat
    BY <2>4, FS_Subset, FS_CardinalityType
  <2>6. Cardinality(Unpruned) \in Nat /\ Cardinality(Unpruned) <= Cardinality(U)
    BY <2>4, <2>5, FS_Subset, FS_CardinalityType
  <2>7. Len(dirs) <= Retain + Cardinality(Unpruned)
    BY <2>1, <2>2, <2>3, Zenon
  <2> QED
    BY <2>1, <2>5, <2>6, <2>7, IncidentAssumption DEF U
<1>7. BlockedOnce /\ StopOnRecord
  BY DEF IncidentIInv, LedgerHolds, HookIInv
<1> QED
  BY <1>1, <1>2, <1>3, <1>4, <1>5, <1>6, <1>7

(* Every variable of the reports, and of what runs beside them, has the    *)
(* values the programs can give it.                                        *)
THEOREM IncidentTypeCorrect == IncidentSpec => []IncidentTypeOK
BY IncidentInductive, IncidentFollows, PTL

(* README.md:400: of what a report had read, whatever the order in which   *)
(* it came, it names the earliest event tied to a failing receipt that it  *)
(* verified, else the narrowest window around the first failure.           *)
THEOREM DivergenceStaysEarliest == IncidentSpec => []DivergenceIsEarliest
BY IncidentInductive, IncidentFollows, PTL

(* incident.go:156: no late event of a subagent and no session that was    *)
(* recorded out of order hides what followed the last session's start.     *)
THEOREM SessionStaysKept == IncidentSpec => []SessionKept
BY IncidentInductive, IncidentFollows, PTL

(* incident.go:191-249: a PASS means that every required check was found   *)
(* passed and fresh, a FAIL that some receipt says so.                     *)
THEOREM VerdictStaysSupported == IncidentSpec => []VerdictIsSupported
BY IncidentInductive, IncidentFollows, PTL

(* incident.go:103-106: the case that was written last can be loaded, unless *)
(* two were written at once or one was not finished.                       *)
THEOREM CaseStaysLoadable == IncidentSpec => []LatestCaseLoads
BY IncidentInductive, IncidentFollows, PTL

(* README.md:496: however many reports prune at once, no more directories  *)
(* remain than are retained, but for those of reports that are being made  *)
(* or came to nothing.                                                     *)
THEOREM DirectoriesStayFew == IncidentSpec => []Retained
BY IncidentInductive, IncidentFollows, PTL

(* codex.go:105: the other adapters, checks and reports beside it change   *)
(* nothing of what is proved of the hook.                                  *)
THEOREM StopsStayRecorded == IncidentSpec => [](BlockedOnce /\ StopOnRecord)
BY IncidentInductive, IncidentFollows, PTL

-----------------------------------------------------------------------------
(* Replays.                                                                *)

(* What a replay read is the case as it is, or of another report; what it  *)
(* rests on, the commits it names and what its verdict says of the         *)
(* verifiers.                                                              *)
Unasked(v) ==
  \/ replay[v].phase \in {"idle", "open", "reading", "loaded", "named"}
  \/ replay[v].phase = "done" /\ replay[v].call # "execute"
Asked(v) == replay[v].phase = "running" \/ (replay[v].phase = "done" /\ replay[v].call = "execute")

ReplayRests(v) ==
  /\ replay[v].phase = "reading" =>
       /\ loaded[v].begin \in Seq(Written)
       /\ \/ loaded[v].begin = case
          \/ loaded[v].begin = <<>> \/ case = <<>> \/ Head(case) # Head(loaded[v].begin)
  /\ replay[v].phase \in {"loaded", "named", "running", "done"} =>
       \E p \in Creates :
         /\ files[p] = 3 /\ loaded[v].rest = <<p>>
         /\ loaded[v].begin = <<p>> \/ \E q \in Creates \ {p} : Head(loaded[v].begin) = q
  /\ replay[v].phase = "loaded" => replay[v].call # "analyze"
  /\ replay[v].phase \in {"named", "running"} => replay[v].call = "execute"
  /\ replay[v].phase = "named" \/ Asked(v) =>
       replay[v].checks # {} /\ commit[v].named <= head
  /\ Unasked(v) => overall[v] = "INCONCLUSIVE" /\ \A c \in Checks : exits[v][c] = "none"
  /\ Asked(v) =>
       /\ commit[v].named <= commit[v].checkedOut /\ commit[v].checkedOut <= head
       /\ overall[v] = "FAIL" <=> \E c \in replay[v].checks : exits[v][c] = "nonzero"
       /\ overall[v] = "PASS" <=> \A c \in replay[v].checks : exits[v][c] \in {"none", "zero"}
       /\ replay[v].phase = "done" => Unrun(v) = {}

ReplayTyped ==
  /\ head \in Nat
  /\ replay \in [Replays -> [phase : {"idle", "open", "reading", "loaded", "named", "running",
                                      "done", "failed"},
                             call : {"analyze", "dry", "execute"}, checks : SUBSET Checks]]
  /\ loaded \in [Replays -> [begin : Seq(Creates), rest : Seq(Creates)]]
  /\ commit \in [Replays -> [named : Nat, checkedOut : Nat]]
  /\ exits \in [Replays -> [Checks -> Exits]]
  /\ overall \in [Replays -> Verdicts]

ReplayIInv == IncidentIInv /\ ReplayTyped /\ \A v \in Replays : ReplayRests(v)

(* What a report's step does to the case.                                  *)
LEMMA CaseMoves ==
  ASSUME IncidentIInv, [IncidentNext]_allVars
  PROVE  /\ Written \subseteq Written'
         /\ \A p \in Creates : files[p] = 3 => files'[p] = 3
         /\ \/ case' = case \/ case' = <<>>
            \/ \E p \in Creates \ Written : case' # <<>> /\ Head(case') = p
<1>1. /\ step \in [Creates -> Steps] /\ files \in [Creates -> 0 .. 3] /\ case \in Seq(Written)
  BY DEF IncidentIInv, ReadsHold, CaseHolds
<1>2. CASE UNCHANGED incidentVars
  BY <1>2 DEF incidentVars, artifacts, Written
<1>3. ASSUME NEW p \in Creates, Create(p)
      PROVE  /\ Written \subseteq Written'
             /\ \A q \in Creates : files[q] = 3 => files'[q] = 3
             /\ \/ case' = case \/ case' = <<>>
                \/ p \notin Written /\ case' # <<>> /\ Head(case') = p
  <2> USE DEF Advance, artifacts
  <2>1. CASE WriteFile(p)
    BY <1>1, <2>1 DEF WriteFile, Written
  <2>2. CASE WriteCase(p)
    <3>1. Written \subseteq Written' /\ UNCHANGED files /\ p \notin Written
      BY <1>1, <2>2 DEF WriteCase, Written
    <3>2. case' \in {<<p>>, <<p>> \o case}
      BY <2>2 DEF WriteCase, Over
    <3>3. Head(<<p>>) = p /\ <<p>> # <<>>
      OBVIOUS
    <3>4. Head(<<p>> \o case) = p /\ <<p>> \o case # <<>>
      <4>1. case \in Seq(Creates) /\ <<p>> \in Seq(Creates)
        BY <1>1, SeqMonotonic DEF Written
      <4> QED
        BY <4>1
    <3> QED
      BY <3>1, <3>2, <3>3, <3>4
  <2>3. CASE ReadLedger(p) \/ ReadReceipt(p) \/ NoReceipt(p) \/ MakeDirectory(p) \/ LoseDirectory(p)
               \/ TruncateCase(p) \/ TruncateIncident(p) \/ WriteIncident(p) \/ ListOld(p)
               \/ RemoveOld(p) \/ Finish(p) \/ StopCreate(p)
    <3>1. UNCHANGED files /\ (case' = case \/ case' = <<>>)
      BY <2>3 DEF ReadLedger, ReadReceipt, NoReceipt, Assess, MakeDirectory, LoseDirectory,
                  TruncateCase, TruncateIncident, WriteIncident, ListOld, RemoveOld, Finish, StopCreate
    <3>2. Written \subseteq Written'
      BY <1>1, <2>3 DEF Written, ReadLedger, ReadReceipt, NoReceipt, Assess, MakeDirectory,
                  LoseDirectory, TruncateCase, TruncateIncident, WriteIncident, ListOld, RemoveOld,
                  Finish, StopCreate
    <3> QED
      BY <3>1, <3>2
  <2> QED
    BY <1>3, <2>1, <2>2, <2>3 DEF Create
<1> QED
  BY <1>2, <1>3 DEF IncidentNext, Wait, StartHook, RunHook, StartRun, EndRun, PublishRun, ImportEvent,
     allVars

LEMMA ReportsKeepReplays ==
  ASSUME ReplayIInv, [IncidentNext]_allVars, UNCHANGED replayVars, NEW v \in Replays
  PROVE  ReplayRests(v)'
<1>1. /\ Written \subseteq Written'
      /\ \A p \in Creates : files[p] = 3 => files'[p] = 3
      /\ \/ case' = case \/ case' = <<>>
         \/ \E p \in Creates \ Written : case' # <<>> /\ Head(case') = p
  BY CaseMoves DEF ReplayIInv
<1>2. ReplayRests(v) /\ UNCHANGED <<head, replay, loaded, commit, exits, overall>>
  BY DEF ReplayIInv, replayVars
<1>3. ASSUME replay[v].phase = "reading"
      PROVE  /\ loaded[v].begin \in Seq(Written')
             /\ \/ loaded[v].begin = case'
                \/ loaded[v].begin = <<>> \/ case' = <<>> \/ Head(case') # Head(loaded[v].begin)
  <2>1. /\ loaded[v].begin \in Seq(Written)
        /\ \/ loaded[v].begin = case
           \/ loaded[v].begin = <<>> \/ case = <<>> \/ Head(case) # Head(loaded[v].begin)
    BY <1>2, <1>3 DEF ReplayRests
  <2>2. loaded[v].begin \in Seq(Written')
    BY <1>1, <2>1, SeqMonotonic
  <2>3. loaded[v].begin # <<>> => Head(loaded[v].begin) \in Written
    BY <2>1
  <2> QED
    BY <1>1, <2>1, <2>2, <2>3
<1>4. \A p \in Creates : files[p] = 3 => files'[p] = 3
  BY <1>1
<1>5. Asked(v)' = Asked(v) /\ Unasked(v)' = Unasked(v) /\ Unrun(v)' = Unrun(v)
  BY <1>2 DEF Asked, Unasked, Unrun
<1> QED
  BY <1>2, <1>3, <1>4, <1>5 DEF ReplayRests

LEMMA OverallIs ==
  ASSUME NEW u \in Verdicts, NEW e \in Exits \ {"none"}
  PROVE  /\ Overall(u, Judged(e)) \in Verdicts
         /\ Overall(u, Judged(e)) = "FAIL" <=> u = "FAIL" \/ e = "nonzero"
         /\ Overall(u, Judged(e)) = "PASS" <=> u = "PASS" /\ e = "zero"
BY DEF Overall, Judged, Verdicts, Exits

LEMMA UnrunIs ==
  ASSUME ReplayTyped, ReplayAssumption, NEW v \in Replays, Unrun(v) # {}
  PROVE  Min(Unrun(v)) \in Checks /\ Min(Unrun(v)) \in Unrun(v)
<1>1. Unrun(v) \in SUBSET Checks
  BY DEF Unrun, ReplayTyped
<1>2. Unrun(v) \in SUBSET Nat
  BY <1>1 DEF ReplayAssumption
<1>3. Min(Unrun(v)) \in Unrun(v)
  BY <1>2, MinIs
<1> QED
  BY <1>1, <1>3

(* A replay's step concerns no other.                                      *)
LEMMA ReplaysKeepTypes ==
  ASSUME ReplayIInv, NEW v \in Replays,
         \/ CallReplay(v) \/ ReadBegin(v) \/ ReadRest(v) \/ NameCommit(v)
         \/ AddWorktree(v) \/ RunPlan(v) \/ EndReplay(v) \/ StopReplay(v)
  PROVE  /\ ReplayTyped' /\ UNCHANGED head
         /\ \A u \in Replays \ {v} :
              /\ replay'[u] = replay[u] /\ loaded'[u] = loaded[u] /\ commit'[u] = commit[u]
              /\ exits'[u] = exits[u] /\ overall'[u] = overall[u]
<1> USE DEF ReplayTyped
<1>1. ReplayTyped
  BY DEF ReplayIInv
<1>2. case \in Seq(Creates)
  <2>1. case \in Seq(Written) /\ Written \subseteq Creates
    BY DEF ReplayIInv, IncidentIInv, CaseHolds, Written
  <2> QED
    BY <2>1, SeqMonotonic
<1> DEFINE R == [phase : {"idle", "open", "reading", "loaded", "named", "running", "done", "failed"},
                 call : {"analyze", "dry", "execute"}, checks : SUBSET Checks]
<1>3. CASE CallReplay(v)
  <2>1. PICK call \in {"analyze", "dry", "execute"} :
          replay' = [replay EXCEPT ![v] = [replay[v] EXCEPT !.phase = "open", !.call = call]]
    BY <1>1, <1>3 DEF CallReplay
  <2>2. [replay[v] EXCEPT !.phase = "open", !.call = call] \in R
    <3>1. replay[v] \in R
      BY <1>1
    <3> HIDE DEF ReplayTyped
    <3> QED
      BY <3>1
  <2>3. UNCHANGED <<head, loaded, commit, exits, overall>>
    BY <1>3 DEF CallReplay
  <2> QED
    BY <1>1, <2>1, <2>2, <2>3
<1>4. CASE ReadBegin(v) \/ ReadRest(v)
  <2>1. /\ UNCHANGED <<head, commit, exits, overall>>
        /\ \E to \in {"reading", "done", "loaded", "failed"} :
             replay' = [replay EXCEPT ![v] = [replay[v] EXCEPT !.phase = to]]
        /\ \E new \in [begin : Seq(Creates), rest : Seq(Creates)] : loaded' = [loaded EXCEPT ![v] = new]
    <3>1. CASE ReadBegin(v)
      <4>1. loaded' = [loaded EXCEPT ![v] = [loaded[v] EXCEPT !.begin = case]]
        BY <1>1, <3>1 DEF ReadBegin
      <4>2. [loaded[v] EXCEPT !.begin = case] \in [begin : Seq(Creates), rest : Seq(Creates)]
        BY <1>1, <1>2
      <4> QED
        BY <1>1, <3>1, <4>1, <4>2 DEF ReadBegin, Proceed
    <3>2. CASE ReadRest(v)
      <4>1. loaded' = [loaded EXCEPT ![v] = [loaded[v] EXCEPT !.rest = case]]
        BY <1>1, <3>2 DEF ReadRest
      <4>2. [loaded[v] EXCEPT !.rest = case] \in [begin : Seq(Creates), rest : Seq(Creates)]
        BY <1>1, <1>2
      <4> QED
        BY <1>1, <3>2, <4>1, <4>2 DEF ReadRest, Proceed
    <3> QED
      BY <1>4, <3>1, <3>2
  <2>2. PICK to \in {"reading", "done", "loaded", "failed"} :
          replay' = [replay EXCEPT ![v] = [replay[v] EXCEPT !.phase = to]]
    BY <2>1
  <2> DEFINE r == [replay[v] EXCEPT !.phase = to]
  <2>3. r \in R
    <3>1. replay[v] \in R
      BY <1>1
    <3> HIDE DEF ReplayTyped
    <3> QED
      BY <3>1
  <2>4. replay' = [replay EXCEPT ![v] = r]
    BY <2>2
  <2> HIDE DEF r
  <2>5. PICK new \in [begin : Seq(Creates), rest : Seq(Creates)] : loaded' = [loaded EXCEPT ![v] = new]
    BY <2>1
  <2>6. /\ loaded' \in [Replays -> [begin : Seq(Creates), rest : Seq(Creates)]]
        /\ \A u \in Replays \ {v} : loaded'[u] = loaded[u]
    BY <1>1, <2>5
  <2>7. replay' \in [Replays -> R] /\ \A u \in Replays \ {v} : replay'[u] = replay[u]
    BY <1>1, <2>3, <2>4
  <2> QED
    BY <1>1, <2>1, <2>6, <2>7
<1>5. ASSUME NEW from, NEW to \in {"running", "done", "failed"}, Proceed(v, from, to)
      PROVE  replay' \in [Replays -> R] /\ \A u \in Replays \ {v} : replay'[u] = replay[u]
  <2> DEFINE r == [replay[v] EXCEPT !.phase = to]
  <2>1. replay' = [replay EXCEPT ![v] = r] /\ replay \in [Replays -> R]
    BY <1>1, <1>5 DEF Proceed
  <2>2. r \in R
    <3>1. replay[v] \in R
      BY <1>1
    <3> HIDE DEF ReplayTyped
    <3> QED
      BY <1>5, <3>1
  <2> HIDE DEF r, R
  <2> QED
    BY <2>1, <2>2
<1>6. CASE NameCommit(v)
  <2>1. PICK checks \in {Checks} \cup {{c} : c \in Checks} :
          replay' = [replay EXCEPT ![v].checks = checks,
                       ![v].phase = IF replay[v].call = "dry" THEN "done" ELSE "named"]
    BY <1>6 DEF NameCommit
  <2>2. checks \in SUBSET Checks
    BY <2>1
  <2>3. PICK to \in {"done", "named"} :
          replay' = [replay EXCEPT ![v] = [replay[v] EXCEPT !.checks = checks, !.phase = to]]
    BY <1>1, <2>1
  <2>4. commit' = [commit EXCEPT ![v] = [commit[v] EXCEPT !.named = head]]
        /\ UNCHANGED <<head, loaded, exits, overall>>
    BY <1>1, <1>6 DEF NameCommit
  <2> QED
    BY <1>1, <2>2, <2>3, <2>4
<1>7. CASE AddWorktree(v)
  <2>1. commit' = [commit EXCEPT ![v] = [commit[v] EXCEPT !.checkedOut = head]]
        /\ overall' = [overall EXCEPT ![v] = "PASS"] /\ UNCHANGED <<head, loaded, exits>>
    BY <1>1, <1>7 DEF AddWorktree
  <2>2. replay' \in [Replays -> R] /\ \A u \in Replays \ {v} : replay'[u] = replay[u]
    BY <1>5, <1>7 DEF AddWorktree
  <2>3. commit' \in [Replays -> [named : Nat, checkedOut : Nat]]
        /\ \A u \in Replays \ {v} : commit'[u] = commit[u]
    BY <1>1, <2>1
  <2>4. overall' \in [Replays -> Verdicts] /\ \A u \in Replays \ {v} : overall'[u] = overall[u]
    BY <1>1, <2>1 DEF Verdicts
  <2> QED
    BY <1>1, <2>1, <2>2, <2>3, <2>4
<1>8. CASE RunPlan(v)
  <2>1. PICK exit \in Exits \ {"none"} :
          /\ exits' = [exits EXCEPT ![v][Min(Unrun(v))] = exit]
          /\ overall' = [overall EXCEPT ![v] = Overall(overall[v], Judged(exit))]
    BY <1>8 DEF RunPlan
  <2>2. Overall(overall[v], Judged(exit)) \in Verdicts
    BY <1>1, OverallIs
  <2>3. UNCHANGED <<head, loaded, commit>>
    BY <1>8 DEF RunPlan
  <2>4. replay' \in [Replays -> R] /\ \A u \in Replays \ {v} : replay'[u] = replay[u]
    BY <1>5, <1>8 DEF RunPlan
  <2>5. exits' \in [Replays -> [Checks -> Exits]] /\ \A u \in Replays \ {v} : exits'[u] = exits[u]
    BY <1>1, <2>1
  <2>6. overall' \in [Replays -> Verdicts] /\ \A u \in Replays \ {v} : overall'[u] = overall[u]
    BY <1>1, <2>1, <2>2
  <2> QED
    BY <1>1, <2>3, <2>4, <2>5, <2>6
<1>9. CASE EndReplay(v) \/ StopReplay(v)
  <2>1. replay' \in [Replays -> R] /\ \A u \in Replays \ {v} : replay'[u] = replay[u]
    BY <1>5, <1>9 DEF EndReplay, StopReplay
  <2>2. UNCHANGED <<head, loaded, commit, exits, overall>>
    BY <1>9 DEF EndReplay, StopReplay
  <2> QED
    BY <1>1, <2>1, <2>2
<1> QED
  BY <1>3, <1>4, <1>6, <1>7, <1>8, <1>9

LEMMA ReplaysKeep ==
  ASSUME ReplayIInv, NEW v \in Replays, UNCHANGED allVars,
         \/ CallReplay(v) \/ ReadBegin(v) \/ ReadRest(v) \/ NameCommit(v)
         \/ AddWorktree(v) \/ RunPlan(v) \/ EndReplay(v) \/ StopReplay(v)
  PROVE  /\ ReplayTyped'
         /\ \A u \in Replays : ReplayRests(u)'
<1>1. /\ ReplayTyped /\ \A u \in Replays : ReplayRests(u)
      /\ UNCHANGED <<case, files>> /\ Written' = Written
  BY DEF ReplayIInv, allVars, incidentVars, artifacts, Written
<1>2. /\ ReplayTyped' /\ UNCHANGED head
      /\ \A u \in Replays \ {v} :
           /\ replay'[u] = replay[u] /\ loaded'[u] = loaded[u] /\ commit'[u] = commit[u]
           /\ exits'[u] = exits[u] /\ overall'[u] = overall[u]
  BY ReplaysKeepTypes
<1>3. ASSUME NEW u \in Replays \ {v} PROVE ReplayRests(u)'
  <2>1. Asked(u)' = Asked(u) /\ Unasked(u)' = Unasked(u) /\ Unrun(u)' = Unrun(u)
    BY <1>2 DEF Asked, Unasked, Unrun
  <2> QED
    BY <1>1, <1>2, <2>1 DEF ReplayRests
<1>4. ReplayRests(v) /\ case \in Seq(Written)
  BY <1>1 DEF ReplayIInv, IncidentIInv, CaseHolds
<1> SUFFICES ReplayRests(v)'
  BY <1>2, <1>3
<1>5. CASE CallReplay(v)
  <2>1. /\ replay[v].phase = "idle" /\ replay'[v].phase = "open"
        /\ UNCHANGED <<exits, overall>>
    BY <1>1, <1>5 DEF CallReplay, ReplayTyped
  <2> QED
    BY <1>4, <2>1 DEF ReplayRests, Unasked, Asked
<1>6. CASE ReadBegin(v)
  <2>1. /\ replay[v].phase = "open" /\ replay'[v].phase = "reading"
        /\ loaded'[v].begin = case /\ UNCHANGED <<exits, overall>>
    BY <1>1, <1>6 DEF ReadBegin, Proceed, ReplayTyped
  <2> QED
    BY <1>1, <1>4, <2>1 DEF ReplayRests, Unasked, Asked
<1>7. CASE ReadRest(v)
  <2>1. /\ replay[v].phase = "reading" /\ replay'[v].call = replay[v].call
        /\ loaded'[v].begin = loaded[v].begin /\ loaded'[v].rest = case
        /\ UNCHANGED <<exits, overall>>
    BY <1>1, <1>7 DEF ReadRest, Proceed, ReplayTyped
  <2>2. CASE replay'[v].phase = "failed"
    BY <2>2 DEF ReplayRests, Unasked, Asked
  <2>3. CASE /\ loaded[v].begin # <<>> /\ LoadCase(case)
             /\ replay'[v].phase = IF replay[v].call = "analyze" THEN "done" ELSE "loaded"
    <3>1. Len(case) = 1 /\ case[1] \in Written /\ case # <<>> /\ Head(case) = case[1]
          /\ case = <<case[1]>>
      <4>1. Len(case) = 1
        BY <2>3 DEF LoadCase
      <4> QED
        BY <1>4, <4>1
    <3>2. PICK p \in Written : case = <<p>> /\ Head(case) = p
      BY <3>1
    <3>3. p \in Creates /\ files[p] = 3
      BY <3>2 DEF ReplayIInv, IncidentIInv, CaseHolds, Written
    <3>4. /\ loaded[v].begin \in Seq(Written)
          /\ loaded[v].begin = case \/ Head(loaded[v].begin) # Head(case)
      BY <1>4, <2>1, <2>3, <3>1 DEF ReplayRests
    <3>5. Head(loaded[v].begin) \in Creates
      BY <2>3, <3>4 DEF Written
    <3>6. \E q \in Creates :
            /\ files'[q] = 3 /\ loaded'[v].rest = <<q>>
            /\ loaded'[v].begin = <<q>> \/ \E o \in Creates \ {q} : Head(loaded'[v].begin) = o
      BY <1>1, <2>1, <3>2, <3>3, <3>4, <3>5
    <3>7. replay'[v].phase \in {"done", "loaded"} /\ ~Asked(v)' /\ Unasked(v)
      BY <2>1, <2>3 DEF Asked, Unasked
    <3> QED
      BY <1>4, <2>1, <2>3, <3>6, <3>7 DEF ReplayRests
  <2> QED
    BY <1>1, <1>7, <2>2, <2>3 DEF ReadRest, Proceed, ReplayTyped
<1>8. CASE NameCommit(v)
  <2>1. /\ replay[v].phase = "loaded" /\ replay'[v].call = replay[v].call
        /\ replay'[v].phase = IF replay[v].call = "dry" THEN "done" ELSE "named"
        /\ replay'[v].checks # {} /\ commit'[v].named = head
        /\ UNCHANGED <<loaded, exits, overall>>
    <3>1. PICK checks \in {Checks} \cup {{c} : c \in Checks} :
            replay' = [replay EXCEPT ![v].checks = checks,
                         ![v].phase = IF replay[v].call = "dry" THEN "done" ELSE "named"]
      BY <1>8 DEF NameCommit
    <3>2. checks # {}
      BY <3>1, ReplayAssumption
    <3>3. replay' = [replay EXCEPT ![v] = [replay[v] EXCEPT
                       !.checks = checks,
                       !.phase = IF replay[v].call = "dry" THEN "done" ELSE "named"]]
      BY <1>1, <3>1 DEF ReplayTyped
    <3>4. /\ replay'[v].call = replay[v].call /\ replay'[v].checks = checks
          /\ replay'[v].phase = IF replay[v].call = "dry" THEN "done" ELSE "named"
      BY <1>1, <3>3 DEF ReplayTyped
    <3>5. replay[v].phase = "loaded" /\ commit'[v].named = head /\ UNCHANGED <<loaded, exits, overall>>
      <4>1. /\ replay[v].phase = "loaded" /\ UNCHANGED <<loaded, exits, overall>>
            /\ commit' = [commit EXCEPT ![v].named = head]
        BY <1>8 DEF NameCommit
      <4>2. commit \in [Replays -> [named : Nat, checkedOut : Nat]]
        BY <1>1 DEF ReplayTyped
      <4>3. commit'[v].named = head
        BY <4>1, <4>2
      <4> QED
        BY <4>1, <4>3
    <3> QED
      BY <3>2, <3>4, <3>5
  <2>2. replay[v].call \in {"dry", "execute"} /\ head \in Nat
    BY <1>1, <1>4, <2>1 DEF ReplayRests, ReplayTyped
  <2>3. \E p \in Creates :
          /\ files'[p] = 3 /\ loaded'[v].rest = <<p>>
          /\ loaded'[v].begin = <<p>> \/ \E q \in Creates \ {p} : Head(loaded'[v].begin) = q
    BY <1>1, <1>4, <2>1 DEF ReplayRests
  <2>4. Unasked(v) /\ ~Asked(v)' /\ replay'[v].phase \in {"done", "named"}
        /\ (replay'[v].phase = "named" => replay'[v].call = "execute")
    BY <2>1, <2>2 DEF Unasked, Asked
  <2>5. overall'[v] = "INCONCLUSIVE" /\ \A c \in Checks : exits'[v][c] = "none"
    BY <1>4, <2>1, <2>4 DEF ReplayRests
  <2> QED
    BY <1>2, <2>1, <2>2, <2>3, <2>4, <2>5 DEF ReplayRests
<1>9. CASE AddWorktree(v)
  <2>1. /\ replay[v].phase = "named" /\ replay'[v].phase = "running"
        /\ replay'[v].call = replay[v].call /\ replay'[v].checks = replay[v].checks
        /\ commit'[v].named = commit[v].named /\ commit'[v].checkedOut = head
        /\ overall'[v] = "PASS" /\ UNCHANGED <<loaded, exits>>
    BY <1>1, <1>9 DEF AddWorktree, Proceed, ReplayTyped
  <2>2. /\ replay[v].call = "execute" /\ replay[v].checks # {} /\ commit[v].named <= head
        /\ \A c \in Checks : exits[v][c] = "none"
    BY <1>4, <2>1 DEF ReplayRests, Unasked
  <2>3. head \in Nat /\ replay[v].checks \subseteq Checks
    BY <1>1 DEF ReplayTyped
  <2>4. \E p \in Creates :
          /\ files'[p] = 3 /\ loaded'[v].rest = <<p>>
          /\ loaded'[v].begin = <<p>> \/ \E q \in Creates \ {p} : Head(loaded'[v].begin) = q
    BY <1>1, <1>4, <2>1 DEF ReplayRests
  <2>5. /\ overall'[v] = "FAIL" <=> \E c \in replay'[v].checks : exits'[v][c] = "nonzero"
        /\ overall'[v] = "PASS" <=> \A c \in replay'[v].checks : exits'[v][c] \in {"none", "zero"}
    BY <2>1, <2>2, <2>3
  <2>6. head <= head
    BY <2>3
  <2> QED
    BY <1>2, <2>1, <2>2, <2>4, <2>5, <2>6 DEF ReplayRests, Unasked, Asked
<1>10. CASE RunPlan(v)
  <2> DEFINE c == Min(Unrun(v))
  <2>1. PICK exit \in Exits \ {"none"} :
          /\ exits' = [exits EXCEPT ![v][c] = exit]
          /\ overall' = [overall EXCEPT ![v] = Overall(overall[v], Judged(exit))]
    BY <1>10 DEF RunPlan
  <2>2. c \in Checks /\ c \in Unrun(v)
    BY <1>1, <1>10, UnrunIs, ReplayAssumption DEF RunPlan
  <2> HIDE DEF c
  <2>3. /\ replay[v].phase = "running" /\ replay'[v].phase = "running"
        /\ replay'[v].call = replay[v].call /\ replay'[v].checks = replay[v].checks
        /\ UNCHANGED <<loaded, commit>>
    BY <1>1, <1>10 DEF RunPlan, Proceed, ReplayTyped
  <2>4. c \in replay[v].checks /\ exits[v][c] = "none" /\ replay[v].checks \subseteq Checks
    BY <1>1, <2>2 DEF Unrun, ReplayTyped
  <2>5. exits'[v][c] = exit /\ \A d \in Checks \ {c} : exits'[v][d] = exits[v][d]
    BY <1>1, <2>1, <2>2 DEF ReplayTyped
  <2>6. /\ overall'[v] = "FAIL" <=> overall[v] = "FAIL" \/ exit = "nonzero"
        /\ overall'[v] = "PASS" <=> overall[v] = "PASS" /\ exit = "zero"
    <3>1. overall[v] \in Verdicts /\ overall'[v] = Overall(overall[v], Judged(exit))
      BY <1>1, <2>1 DEF ReplayTyped
    <3> QED
      BY <3>1, OverallIs
  <2>7. /\ overall[v] = "FAIL" <=> \E d \in replay[v].checks : exits[v][d] = "nonzero"
        /\ overall[v] = "PASS" <=> \A d \in replay[v].checks : exits[v][d] \in {"none", "zero"}
    BY <1>4, <2>3 DEF ReplayRests, Asked
  <2>8. overall'[v] = "FAIL" <=> \E d \in replay'[v].checks : exits'[v][d] = "nonzero"
    BY <2>3, <2>4, <2>5, <2>6, <2>7
  <2>9. overall'[v] = "PASS" <=> \A d \in replay'[v].checks : exits'[v][d] \in {"none", "zero"}
    BY <2>1, <2>3, <2>4, <2>5, <2>6, <2>7
  <2>10. \E p \in Creates :
           /\ files'[p] = 3 /\ loaded'[v].rest = <<p>>
           /\ loaded'[v].begin = <<p>> \/ \E q \in Creates \ {p} : Head(loaded'[v].begin) = q
    BY <1>1, <1>4, <2>3 DEF ReplayRests
  <2> QED
    BY <1>2, <1>4, <2>3, <2>8, <2>9, <2>10 DEF ReplayRests, Unasked, Asked
<1>11. CASE EndReplay(v)
  <2>1. /\ replay[v].phase = "running" /\ replay'[v].phase = "done" /\ Unrun(v) = {}
        /\ replay'[v].call = replay[v].call /\ replay'[v].checks = replay[v].checks
        /\ UNCHANGED <<loaded, commit, exits, overall>>
    BY <1>1, <1>11 DEF EndReplay, Proceed, ReplayTyped
  <2>2. Unrun(v)' = {}
    BY <2>1 DEF Unrun
  <2>3. \E p \in Creates :
          /\ files'[p] = 3 /\ loaded'[v].rest = <<p>>
          /\ loaded'[v].begin = <<p>> \/ \E q \in Creates \ {p} : Head(loaded'[v].begin) = q
    BY <1>1, <1>4, <2>1 DEF ReplayRests
  <2>4. Asked(v) /\ Asked(v)' /\ ~Unasked(v)'
    BY <1>4, <2>1 DEF ReplayRests, Asked, Unasked
  <2> QED
    BY <1>2, <1>4, <2>1, <2>2, <2>3, <2>4 DEF ReplayRests
<1>12. CASE StopReplay(v)
  <2>1. replay'[v].phase = "failed"
    BY <1>1, <1>12 DEF StopReplay, Proceed, ReplayTyped
  <2> QED
    BY <2>1 DEF ReplayRests, Unasked, Asked
<1> QED
  BY <1>5, <1>6, <1>7, <1>8, <1>9, <1>10, <1>11, <1>12

(* Whatever reports, replays and commits do beside each other, the         *)
(* invariant holds.                                                        *)
THEOREM ReplayInductive == ReplaySpec => []ReplayIInv
<1>1. ReplayInit => ReplayIInv
  <2> SUFFICES ASSUME ReplayInit PROVE ReplayIInv
    OBVIOUS
  <2>1. IncidentIInv
    BY IncidentStarts DEF ReplayInit
  <2>2. ReplayTyped
    BY DEF ReplayInit, ReplayTyped, Exits, Verdicts
  <2>3. \A v \in Replays : ReplayRests(v)
    BY DEF ReplayInit, ReplayRests, Unasked, Asked
  <2> QED
    BY <2>1, <2>2, <2>3 DEF ReplayIInv
<1>2. ReplayIInv /\ [ReplayNext]_replayAll => ReplayIInv'
  <2> SUFFICES ASSUME ReplayIInv, [ReplayNext]_replayAll PROVE ReplayIInv'
    OBVIOUS
  <2>1. [IncidentNext]_allVars
    BY DEF ReplayNext, replayAll
  <2>2. IncidentIInv'
    BY <2>1, IncidentSteps DEF ReplayIInv
  <2>3. CASE UNCHANGED replayVars
    <3>1. ReplayTyped'
      BY <2>3 DEF ReplayIInv, ReplayTyped, replayVars
    <3>2. \A v \in Replays : ReplayRests(v)'
      BY <2>1, <2>3, ReportsKeepReplays
    <3> QED
      BY <2>2, <3>1, <3>2 DEF ReplayIInv
  <2>4. CASE ReplayStep /\ UNCHANGED allVars
    <3>1. CASE MakeCommit
      <4>1. /\ head \in Nat /\ head' = head + 1
            /\ UNCHANGED <<replay, loaded, commit, exits, overall, case, files>>
            /\ Written' = Written
        BY <2>4, <3>1 DEF MakeCommit, ReplayIInv, ReplayTyped, allVars, incidentVars, artifacts, Written
      <4>2. ReplayTyped'
        BY <4>1 DEF ReplayIInv, ReplayTyped
      <4>3. ASSUME NEW v \in Replays PROVE ReplayRests(v)'
        <5>1. commit[v].named \in Nat /\ commit[v].checkedOut \in Nat
          BY DEF ReplayIInv, ReplayTyped
        <5>2. /\ commit[v].named <= head => commit'[v].named <= head'
              /\ commit[v].checkedOut <= head => commit'[v].checkedOut <= head'
              /\ commit[v].named <= commit[v].checkedOut => commit'[v].named <= commit'[v].checkedOut
          BY <4>1, <5>1
        <5>3. Asked(v)' = Asked(v) /\ Unasked(v)' = Unasked(v) /\ Unrun(v)' = Unrun(v)
          BY <4>1 DEF Asked, Unasked, Unrun
        <5>4. ReplayRests(v)
          BY DEF ReplayIInv
        <5> QED
          BY <4>1, <5>2, <5>3, <5>4 DEF ReplayRests
      <4> QED
        BY <2>2, <4>2, <4>3 DEF ReplayIInv
    <3>2. CASE \E v \in Replays :
                 \/ CallReplay(v) \/ ReadBegin(v) \/ ReadRest(v) \/ NameCommit(v)
                 \/ AddWorktree(v) \/ RunPlan(v) \/ EndReplay(v) \/ StopReplay(v)
      BY <2>2, <2>4, <3>2, ReplaysKeep DEF ReplayIInv
    <3> QED
      BY <2>4, <3>1, <3>2 DEF ReplayStep
  <2> QED
    BY <2>3, <2>4 DEF ReplayNext, replayAll
<1> QED
  BY <1>1, <1>2, PTL DEF ReplaySpec

(* SECURITY.md:70-74 and README.md:428: what a replay that is over says    *)
(* rests on one case that a report had written as a whole, with its        *)
(* incident, before it; it is a FAIL exactly if a verifier exited non-zero *)
(* and a PASS only if every one that was asked for exited with zero, in    *)
(* the commit that it names, however many reports and commits are made     *)
(* meanwhile.                                                              *)
THEOREM ReplayStaysSound == ReplaySpec => []ReplaySound
<1>1. ReplayIInv => ReplaySound
  <2> SUFFICES ASSUME ReplayIInv, NEW v \in Replays, replay[v].phase = "done"
               PROVE  LET ended == {exits[v][c] : c \in replay[v].checks} IN
                      /\ \E p \in Creates :
                           /\ files[p] = 3 /\ loaded[v].rest = <<p>>
                           /\ \/ loaded[v].begin = <<p>>
                              \/ \E q \in Creates \ {p} : Head(loaded[v].begin) = q
                      /\ replay[v].call = "execute" =>
                           /\ overall[v] = "FAIL" <=> "nonzero" \in ended
                           /\ overall[v] = "PASS" <=> ended = {"zero"}
                           /\ commit[v].named = head => commit[v].checkedOut = commit[v].named
                      /\ replay[v].call # "execute" => ended \subseteq {"none"} /\ overall[v] # "PASS"
    BY DEF ReplaySound
  <2> DEFINE ended == {exits[v][c] : c \in replay[v].checks}
  <2>1. ReplayTyped /\ ReplayRests(v)
    BY DEF ReplayIInv
  <2>2. \E p \in Creates :
          /\ files[p] = 3 /\ loaded[v].rest = <<p>>
          /\ loaded[v].begin = <<p>> \/ \E q \in Creates \ {p} : Head(loaded[v].begin) = q
    BY <2>1 DEF ReplayRests
  <2>3. ASSUME replay[v].call = "execute"
        PROVE  /\ overall[v] = "FAIL" <=> "nonzero" \in ended
               /\ overall[v] = "PASS" <=> ended = {"zero"}
               /\ commit[v].named = head => commit[v].checkedOut = commit[v].named
    <3>1. /\ commit[v].named <= commit[v].checkedOut /\ commit[v].checkedOut <= head
          /\ overall[v] = "FAIL" <=> \E c \in replay[v].checks : exits[v][c] = "nonzero"
          /\ overall[v] = "PASS" <=> \A c \in replay[v].checks : exits[v][c] \in {"none", "zero"}
          /\ Unrun(v) = {} /\ replay[v].checks # {}
      BY <2>1, <2>3 DEF ReplayRests, Asked
    <3>2. commit[v].named \in Nat /\ commit[v].checkedOut \in Nat /\ head \in Nat
      BY <2>1 DEF ReplayTyped
    <3>3. commit[v].named = head => commit[v].checkedOut = commit[v].named
      BY <3>1, <3>2
    <3>4. \A c \in replay[v].checks : exits[v][c] # "none"
      BY <3>1 DEF Unrun
    <3>5. overall[v] = "PASS" <=> ended = {"zero"}
      BY <3>1, <3>4
    <3> QED
      BY <3>1, <3>3, <3>5
  <2>4. replay[v].call # "execute" => ended \subseteq {"none"} /\ overall[v] # "PASS"
    BY <2>1 DEF ReplayRests, ReplayTyped, Unasked
  <2> QED
    BY <2>2, <2>3, <2>4
<1> QED
  BY <1>1, ReplayInductive, PTL

(* A replay writes nothing of what a report reads or writes.               *)
THEOREM ReplaysObserve == ReplaySpec => IncidentSpec
<1>1. ReplayInit => IncidentInit
  BY DEF ReplayInit
<1>2. [ReplayNext]_replayAll => [IncidentNext]_allVars
  BY DEF ReplayNext, replayAll
<1> QED
  BY <1>1, <1>2, PTL DEF ReplaySpec, IncidentSpec

=============================================================================
