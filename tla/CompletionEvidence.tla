------------------------- MODULE CompletionEvidence -------------------------
(***************************************************************************)
(* `beforedone check` and `beforedone gate` on one worktree.               *)
(*                                                                         *)
(* A check fingerprints the files its patterns cover, runs the verifier,   *)
(* fingerprints them again and saves a signed receipt; the gate loads the  *)
(* latest receipt of every required check and compares its fingerprint     *)
(* with one it takes itself.  No lock orders them and a fingerprint is not *)
(* a snapshot: Git lists the files first, then they are read one at a      *)
(* time, in sorted order, while the agent, other checks and verifiers may  *)
(* write any of them.                                                      *)
(*                                                                         *)
(* What Lstat, the index mode and the digest say of one path is one member *)
(* of Contents.  A pattern list is one of Globs; Matches says what it      *)
(* covers.  The argv and the working directory of a check are its          *)
(* `contract'.  Each run is one process and so is each gate; a receipt is  *)
(* named after the run that made it.                                       *)
(***************************************************************************)
EXTENDS Integers, FiniteSets

CONSTANTS
  Files,      \* repository paths, numbered in their sorted order
  Tracked,    \* those in the Git index: listed even when the file is gone
  Contents,   \* what can be found at a path
  Absent,     \* the member of Contents that means there is no file
  Unlisted,   \* what a fingerprint holds for a path Git did not list
  Checks,     \* check ids, numbered in their sorted order
  Globs,      \* relevant_files pattern lists
  Matches,    \* Matches[p] is the set of files the pattern list p covers
  Contracts,  \* argv and working directory of a check
  Configs,    \* what .beforedone.yaml may say: check id -> its configuration
  Runs,       \* `beforedone check' processes
  Gates,      \* `beforedone gate' processes
  None,       \* no value
  Reverts,    \* whether an edit may put back what a path held before
  MaxEdits,   \* bound on edits of files and of the configuration
  Outcomes,   \* how a verifier may end
  Faults      \* what may go wrong: "kill", "log", "budget", "io"

Entry == [contract: Contracts, globs: Globs, required: BOOLEAN]

Nothing == [f \in Files |-> Unlisted]

Observation == [Files -> Contents \cup {Unlisted}]

Receipt == [check: Checks, contract: Contracts, globs: Globs, seen: Observation,
            verdict: {"PASS", "FAIL", "INCONCLUSIVE"}]

Answer == [decision: {"allow", "block"},
           verdict: {"PASS", "FAIL", "INCONCLUSIVE"}]

(* What a gate remembers of a pattern list.                                *)
Taken == [ok: BOOLEAN, seen: Observation]

ASSUME EvidenceAssumption ==
  /\ Files \subseteq Nat
  /\ Checks \subseteq Nat
  /\ Tracked \subseteq Files
  /\ Absent \in Contents
  /\ Unlisted \notin Contents
  /\ Matches \in [Globs -> SUBSET Files]
  /\ \A k \in Configs : DOMAIN k \subseteq Checks /\ k \in [DOMAIN k -> Entry]
  /\ Runs \cap Gates = {}
  /\ None \notin Runs
  /\ None \notin Receipt
  /\ None \notin Answer
  /\ None \notin Taken
  /\ Reverts \in BOOLEAN
  /\ MaxEdits \in Nat
  /\ Outcomes \subseteq {"zero", "nonzero", "timeout", "unstarted"}

VARIABLES
  content,    \* what each path holds
  past,       \* history: what each path held earlier
  edits,      \* number of edits so far (bounded by MaxEdits)
  cfg,        \* .beforedone.yaml
  pc,         \* phase of each process
  todo,       \* files the process's current fingerprint has still to read
  obs,        \* what it has read so far
  job,        \* check id of each run
  entry,      \* configuration of that check when the run loaded it
  before,     \* fingerprint taken before the verifier
  outcome,    \* how the verifier ended
  exposed,    \* history: what each path held while the verifier ran
  receipts,   \* receipts/<id>.json
  latest,     \* receipts/latest-<check>.json
  logs,       \* runs whose log file is intact
  gcfg,       \* configuration each gate loaded
  awaiting,   \* required checks a gate has still to examine
  held,       \* the receipt a gate loaded for a check
  cache,      \* the gate's FingerprintCache
  results,    \* what a gate concluded of a check
  decision,   \* the gate's answer
  atStart,    \* history: the worktree when the gate began
  earlier     \* history: runs whose verifier had begun by then

worktree == <<content, past, edits, cfg>>
reader   == <<todo, obs>>
run      == <<job, entry, before, outcome>>
store    == <<receipts, latest, logs>>
gate     == <<gcfg, awaiting, held, cache, results, decision, atStart, earlier>>
vars     == <<worktree, pc, reader, run, exposed, store, gate>>

Procs == Runs \cup Gates

RunPhases  == {"idle", "listBefore", "readBefore", "running", "listAfter",
               "readAfter", "saved", "replacing", "done", "failed"}
GatePhases == {"idle", "load", "bind", "read", "done"}

(* The verifier has been started: `before' is final.                       *)
Started == {"running", "listAfter", "readAfter", "saved", "replacing", "done"}

Conclusions == {"none", "blocked", "stale", "fail", "inconclusive", "pass"}

Required(k) == {c \in DOMAIN k : k[c].required}

(* The loop of gate g has come to check id c.                              *)
Turn(g, c) == c \in awaiting[g] /\ \A d \in awaiting[g] : c <= d

Init ==
  /\ content \in [Files -> Contents]
  /\ past = [f \in Files |-> {}]
  /\ edits = 0
  /\ cfg \in Configs
  /\ pc = [p \in Procs |-> "idle"]
  /\ todo = [p \in Procs |-> {}]
  /\ obs = [p \in Procs |-> Nothing]
  /\ job = [r \in Runs |-> None]
  /\ entry = [r \in Runs |-> None]
  /\ before = [r \in Runs |-> Nothing]
  /\ outcome = [r \in Runs |-> "none"]
  /\ exposed = [r \in Runs |-> [f \in Files |-> {}]]
  /\ receipts = [r \in Runs |-> None]
  /\ latest = [c \in Checks |-> None]
  /\ logs = {}
  /\ gcfg = [g \in Gates |-> None]
  /\ awaiting = [g \in Gates |-> {}]
  /\ held = [g \in Gates |-> [c \in Checks |-> None]]
  /\ cache = [g \in Gates |-> [p \in Globs |-> None]]
  /\ results = [g \in Gates |-> [c \in Checks |-> "none"]]
  /\ decision = [g \in Gates |-> None]
  /\ atStart = [g \in Gates |-> content]
  /\ earlier = [g \in Gates |-> {}]

-----------------------------------------------------------------------------
(* The environment: the agent, editors, Git, verifiers that write files.   *)

(* A path is written, created or removed.  A verifier that is running may  *)
(* read the new content.                                                   *)
EditFile(f, c) ==
  /\ edits < MaxEdits
  /\ c # content[f]
  /\ Reverts \/ c \notin past[f]
  /\ content' = [content EXCEPT ![f] = c]
  /\ past' = [past EXCEPT ![f] = @ \cup {content[f]}]
  /\ edits' = edits + 1
  /\ exposed' = [r \in Runs |->
                   IF pc[r] = "running"
                   THEN [exposed[r] EXCEPT ![f] = @ \cup {c}]
                   ELSE exposed[r]]
  /\ UNCHANGED <<cfg, pc, reader, run, store, gate>>

(* .beforedone.yaml is edited.                                             *)
EditConfig(k) ==
  /\ edits < MaxEdits
  /\ k # cfg
  /\ cfg' = k
  /\ edits' = edits + 1
  /\ UNCHANGED <<content, past, pc, reader, run, exposed, store, gate>>

(* A log under .git/beforedone/logs is removed or rewritten.               *)
LoseLog(r) ==
  /\ "log" \in Faults
  /\ r \in logs
  /\ logs' = logs \ {r}
  /\ UNCHANGED <<worktree, pc, reader, run, exposed, receipts, latest, gate>>

-----------------------------------------------------------------------------
(* FingerprintContext: Git's listing, then one file after another.         *)

(* git ls-files -co and the ignored files: what is there, or in the index. *)
ListFiles(p, globs) ==
  /\ todo' = [todo EXCEPT ![p] =
                {f \in Matches[globs] : content[f] # Absent \/ f \in Tracked}]
  /\ obs' = [obs EXCEPT ![p] = Nothing]

(* The next file in sorted order; one that has vanished reads as Absent    *)
(* ("kind" "missing").                                                     *)
ReadNext(p) ==
  \E f \in todo[p] :
    /\ \A h \in todo[p] : f <= h
    /\ obs' = [obs EXCEPT ![p] = [@ EXCEPT ![f] = content[f]]]
    /\ todo' = [todo EXCEPT ![p] = @ \ {f}]

-----------------------------------------------------------------------------
(* checker.Run                                                             *)

(* The command loads the configuration and looks the check up.             *)
StartRun(r, c) ==
  /\ pc[r] = "idle"
  /\ c \in DOMAIN cfg
  /\ job' = [job EXCEPT ![r] = c]
  /\ entry' = [entry EXCEPT ![r] = cfg[c]]
  /\ pc' = [pc EXCEPT ![r] = "listBefore"]
  /\ UNCHANGED <<worktree, reader, before, outcome, exposed, store, gate>>

ListBefore(r) ==
  /\ pc[r] = "listBefore"
  /\ ListFiles(r, entry[r].globs)
  /\ pc' = [pc EXCEPT ![r] = "readBefore"]
  /\ UNCHANGED <<worktree, run, exposed, store, gate>>

(* One file of the fingerprint before, or after, the verifier.             *)
ReadRelevant(r) ==
  /\ pc[r] \in {"readBefore", "readAfter"}
  /\ ReadNext(r)
  /\ UNCHANGED <<worktree, pc, run, exposed, store, gate>>

(* The first fingerprint is complete: the verifier starts.                 *)
StartVerifier(r) ==
  /\ pc[r] = "readBefore"
  /\ todo[r] = {}
  /\ before' = [before EXCEPT ![r] = obs[r]]
  /\ exposed' = [exposed EXCEPT ![r] = [f \in Files |-> {content[f]}]]
  /\ pc' = [pc EXCEPT ![r] = "running"]
  /\ UNCHANGED <<worktree, reader, job, entry, outcome, store, gate>>

(* cmd.Run returns: exit status zero or not, the context's deadline, or    *)
(* the command could not be started.                                       *)
EndVerifier(r, o) ==
  /\ pc[r] = "running"
  /\ outcome' = [outcome EXCEPT ![r] = o]
  /\ pc' = [pc EXCEPT ![r] = "listAfter"]
  /\ UNCHANGED <<worktree, reader, job, entry, before, exposed, store, gate>>

ListAfter(r) ==
  /\ pc[r] = "listAfter"
  /\ ListFiles(r, entry[r].globs)
  /\ pc' = [pc EXCEPT ![r] = "readAfter"]
  /\ UNCHANGED <<worktree, run, exposed, store, gate>>

(* Faults: the second fingerprint is not compared; an exit that is neither *)
(* a success nor a failure is reported as such.                            *)
VerdictOfExit(o, changed) ==
  CASE o = "zero" -> "PASS" [] o = "nonzero" -> "FAIL" [] OTHER -> "INCONCLUSIVE"

VerdictUnmapped(o, changed) ==
  IF changed THEN "INCONCLUSIVE"
  ELSE CASE o = "zero" -> "PASS" [] o = "nonzero" -> "FAIL" [] OTHER -> "TIMEOUT"

(* What the receipt says; a change of the relevant files overrides the     *)
(* verifier's own exit, a failing one included.                            *)
Verdict(o, changed) ==
  CASE changed         -> "INCONCLUSIVE"
    [] ~changed /\ o = "zero"    -> "PASS"
    [] ~changed /\ o = "nonzero" -> "FAIL"
    [] OTHER           -> "INCONCLUSIVE"

(* The second fingerprint is complete: the log is written, then the        *)
(* receipt, bound to this second fingerprint.                              *)
SaveReceipt(r) ==
  /\ pc[r] = "readAfter"
  /\ todo[r] = {}
  /\ receipts' = [receipts EXCEPT ![r] =
        [check |-> job[r], contract |-> entry[r].contract,
         globs |-> entry[r].globs, seen |-> obs[r],
         verdict |-> Verdict(outcome[r], before[r] # obs[r])]]
  /\ logs' = logs \cup {r}
  /\ pc' = [pc EXCEPT ![r] = "saved"]
  /\ UNCHANGED <<worktree, reader, run, exposed, latest, gate>>

(* Where the rename onto an existing file fails (Windows), the alias is    *)
(* removed before the rename is tried again.                               *)
RemoveLatest(r) ==
  /\ pc[r] = "saved"
  /\ latest[job[r]] # None
  /\ latest' = [latest EXCEPT ![job[r]] = None]
  /\ pc' = [pc EXCEPT ![r] = "replacing"]
  /\ UNCHANGED <<worktree, reader, run, exposed, receipts, logs, gate>>

(* The alias is renamed into place: whichever run comes last wins.         *)
PublishLatest(r) ==
  /\ pc[r] \in {"saved", "replacing"}
  /\ latest' = [latest EXCEPT ![job[r]] = r]
  /\ pc' = [pc EXCEPT ![r] = "done"]
  /\ UNCHANGED <<worktree, reader, run, exposed, receipts, logs, gate>>

(* The process is killed, or a step of it returns an error: the files it   *)
(* has not written yet are never written.                                  *)
FailRun(r) ==
  /\ "kill" \in Faults
  /\ pc[r] \in RunPhases \ {"idle", "done", "failed"}
  /\ pc' = [pc EXCEPT ![r] = "failed"]
  /\ UNCHANGED <<worktree, reader, run, exposed, store, gate>>

-----------------------------------------------------------------------------
(* gate.EvaluateWithBudget                                                 *)

StartGate(g) ==
  /\ pc[g] = "idle"
  /\ gcfg' = [gcfg EXCEPT ![g] = cfg]
  /\ awaiting' = [awaiting EXCEPT ![g] = Required(cfg)]
  /\ atStart' = [atStart EXCEPT ![g] = content]
  /\ earlier' = [earlier EXCEPT ![g] = {r \in Runs : pc[r] \in Started}]
  /\ pc' = [pc EXCEPT ![g] = "load"]
  /\ UNCHANGED <<worktree, reader, run, exposed, store,
                 held, cache, results, decision>>

(* Fault: the loop ends with the first check it settles.                   *)
ConcludeAll(g, c, what) ==
  /\ results' = [results EXCEPT ![g] = [@ EXCEPT ![c] = what]]
  /\ awaiting' = [awaiting EXCEPT ![g] = {}]
  /\ pc' = [pc EXCEPT ![g] = "load"]

(* Check c is settled and the loop goes on to the next id.                 *)
Conclude(g, c, what) ==
  /\ results' = [results EXCEPT ![g] = [@ EXCEPT ![c] = what]]
  /\ awaiting' = [awaiting EXCEPT ![g] = @ \ {c}]
  /\ pc' = [pc EXCEPT ![g] = "load"]

(* The validation budget is spent: one more blocker and the loop ends.     *)
GateOverBudget(g, c) ==
  /\ "budget" \in Faults
  /\ pc[g] = "load"
  /\ Turn(g, c)
  /\ results' = [results EXCEPT ![g] = [@ EXCEPT ![c] = "blocked"]]
  /\ awaiting' = [awaiting EXCEPT ![g] = {}]
  /\ UNCHANGED <<worktree, pc, reader, run, exposed, store,
                 gcfg, held, cache, decision, atStart, earlier>>

(* LoadLatest or VerifySignature fails: there is no alias, or the file, or *)
(* the signing key, cannot be read.                                        *)
GateNoReceipt(g, c) ==
  /\ pc[g] = "load"
  /\ Turn(g, c)
  /\ latest[c] = None \/ "io" \in Faults
  /\ Conclude(g, c, "blocked")
  /\ UNCHANGED <<worktree, reader, run, exposed, store,
                 gcfg, held, cache, decision, atStart, earlier>>

(* LoadLatest finds a receipt that verifies.  An INCONCLUSIVE one warns    *)
(* and a FAIL blocks, whatever the files now hold.                         *)
GateLoadOther(g, c) ==
  /\ pc[g] = "load"
  /\ Turn(g, c)
  /\ latest[c] # None
  /\ receipts[latest[c]].verdict # "PASS"
  /\ held' = [held EXCEPT ![g] = [@ EXCEPT ![c] = latest[c]]]
  /\ Conclude(g, c, IF receipts[latest[c]].verdict = "FAIL"
                    THEN "fail" ELSE "inconclusive")
  /\ UNCHANGED <<worktree, reader, run, exposed, store,
                 gcfg, cache, decision, atStart, earlier>>

(* A PASS is examined further.                                             *)
GateLoadPass(g, c) ==
  /\ pc[g] = "load"
  /\ Turn(g, c)
  /\ latest[c] # None
  /\ receipts[latest[c]].verdict = "PASS"
  /\ held' = [held EXCEPT ![g] = [@ EXCEPT ![c] = latest[c]]]
  /\ pc' = [pc EXCEPT ![g] = "bind"]
  /\ UNCHANGED <<worktree, reader, run, exposed, store,
                 gcfg, awaiting, cache, results, decision, atStart, earlier>>

SameContract(g, c) == receipts[held[g][c]].contract = gcfg[g][c].contract

(* The argv or the working directory is not the one the receipt names.     *)
GateContractChanged(g, c) ==
  /\ pc[g] = "bind"
  /\ Turn(g, c)
  /\ ~SameContract(g, c)
  /\ Conclude(g, c, "blocked")
  /\ UNCHANGED <<worktree, reader, run, exposed, store,
                 gcfg, held, cache, decision, atStart, earlier>>

(* No fingerprint of these patterns in the cache: one is taken.            *)
GateList(g, c) ==
  /\ pc[g] = "bind"
  /\ Turn(g, c)
  /\ SameContract(g, c)
  /\ cache[g][gcfg[g][c].globs] = None
  /\ ListFiles(g, gcfg[g][c].globs)
  /\ pc' = [pc EXCEPT ![g] = "read"]
  /\ UNCHANGED <<worktree, run, exposed, store, gate>>

GateRead(g) ==
  /\ pc[g] = "read"
  /\ ReadNext(g)
  /\ UNCHANGED <<worktree, pc, run, exposed, store, gate>>

GateRemember(g, c, what) ==
  /\ cache' = [cache EXCEPT ![g] = [@ EXCEPT ![gcfg[g][c].globs] = what]]
  /\ pc' = [pc EXCEPT ![g] = "bind"]
  /\ UNCHANGED <<worktree, reader, run, exposed, store,
                 gcfg, awaiting, held, results, decision, atStart, earlier>>

(* The fingerprint is complete and cached under its patterns.              *)
GateCache(g, c) ==
  /\ pc[g] = "read"
  /\ Turn(g, c)
  /\ todo[g] = {}
  /\ GateRemember(g, c, [ok |-> TRUE, seen |-> obs[g]])

(* Fault: the error is not cached.                                         *)
TryAgain(g, c) ==
  /\ Faults \cap {"io", "budget"} # {}
  /\ pc[g] = "read"
  /\ Turn(g, c)
  /\ pc' = [pc EXCEPT ![g] = "bind"]
  /\ UNCHANGED <<worktree, reader, run, exposed, store, gate>>

(* Git fails, a limit is exceeded, a submodule may be covered, or the      *)
(* budget runs out: the error is cached as well.                           *)
GateCannotRead(g, c) ==
  /\ Faults \cap {"io", "budget"} # {}
  /\ pc[g] = "read"
  /\ Turn(g, c)
  /\ GateRemember(g, c, [ok |-> FALSE, seen |-> Nothing])

(* Faults: only the patterns are compared; a receipt is fresh if it        *)
(* differs.                                                                *)
SamePatterns(g, c) ==
  /\ cache[g][gcfg[g][c].globs].ok
  /\ receipts[held[g][c]].globs = gcfg[g][c].globs

Differs(g, c) ==
  /\ SamePatterns(g, c)
  /\ receipts[held[g][c]].seen # cache[g][gcfg[g][c].globs].seen

(* The receipt is bound to what the gate finds.                            *)
Fresh(g, c) ==
  LET taken == cache[g][gcfg[g][c].globs]
      receipt == receipts[held[g][c]] IN
    /\ taken.ok
    /\ receipt.globs = gcfg[g][c].globs
    /\ receipt.seen = taken.seen

(* The fingerprints are compared; the log's digest has the last word.      *)
GateCompare(g, c) ==
  /\ pc[g] = "bind"
  /\ Turn(g, c)
  /\ SameContract(g, c)
  /\ cache[g][gcfg[g][c].globs] # None
  /\ Conclude(g, c,
       IF ~cache[g][gcfg[g][c].globs].ok THEN "blocked"
       ELSE IF ~Fresh(g, c) THEN "stale"
       ELSE IF held[g][c] \in logs THEN "pass" ELSE "blocked")
  /\ UNCHANGED <<worktree, reader, run, exposed, store,
                 gcfg, held, cache, decision, atStart, earlier>>

(* Blockers block, warnings let the work through without a PASS.           *)
GateDecide(g) ==
  LET found(s) == \E c \in Checks : results[g][c] \in s IN
  /\ pc[g] = "load"
  /\ awaiting[g] = {}
  /\ decision' = [decision EXCEPT ![g] =
       [decision |-> IF found({"blocked", "stale", "fail"}) THEN "block" ELSE "allow",
        verdict  |-> IF found({"fail"}) THEN "FAIL"
                     ELSE IF found({"blocked", "stale", "inconclusive"})
                     THEN "INCONCLUSIVE" ELSE "PASS"]]
  /\ pc' = [pc EXCEPT ![g] = "done"]
  /\ UNCHANGED <<worktree, reader, run, exposed, store,
                 gcfg, awaiting, held, cache, results, atStart, earlier>>

-----------------------------------------------------------------------------
Environment ==
  \/ \E f \in Files, c \in Contents : EditFile(f, c)
  \/ \E k \in Configs : EditConfig(k)
  \/ \E r \in Runs : LoseLog(r)

RunStep(r) ==
  \/ \E c \in Checks : StartRun(r, c)
  \/ ListBefore(r)
  \/ ReadRelevant(r)
  \/ StartVerifier(r)
  \/ \E o \in Outcomes : EndVerifier(r, o)
  \/ ListAfter(r)
  \/ SaveReceipt(r)
  \/ RemoveLatest(r)
  \/ PublishLatest(r)
  \/ FailRun(r)

(* What a gate does once it has been started.                              *)
GateWork(g) ==
  \/ \E c \in Checks :
       \/ GateOverBudget(g, c)
       \/ GateNoReceipt(g, c)
       \/ GateLoadOther(g, c)
       \/ GateLoadPass(g, c)
       \/ GateContractChanged(g, c)
       \/ GateList(g, c)
       \/ GateCache(g, c)
       \/ GateCannotRead(g, c)
       \/ GateCompare(g, c)
  \/ GateRead(g)
  \/ GateDecide(g)

Next ==
  \/ Environment
  \/ \E r \in Runs : RunStep(r)
  \/ \E g \in Gates : StartGate(g) \/ GateWork(g)

Spec == Init /\ [][Next]_vars

(* A gate that was started is given the processor; nothing else is.        *)
FairSpec == Spec /\ \A g \in Gates : WF_vars(GateWork(g))

-----------------------------------------------------------------------------
(* Every variable has the values the program can give it.                  *)
TypeOK ==
  /\ content \in [Files -> Contents]
  /\ past \in [Files -> SUBSET Contents]
  /\ edits \in 0 .. MaxEdits
  /\ cfg \in Configs
  /\ pc \in [Procs -> RunPhases \cup GatePhases]
  /\ \A r \in Runs : pc[r] \in RunPhases
  /\ \A g \in Gates : pc[g] \in GatePhases
  /\ todo \in [Procs -> SUBSET Files]
  /\ obs \in [Procs -> Observation]
  /\ job \in [Runs -> Checks \cup {None}]
  /\ entry \in [Runs -> Entry \cup {None}]
  /\ before \in [Runs -> Observation]
  /\ outcome \in [Runs -> Outcomes \cup {"none"}]
  /\ exposed \in [Runs -> [Files -> SUBSET Contents]]
  /\ receipts \in [Runs -> Receipt \cup {None}]
  /\ latest \in [Checks -> Runs \cup {None}]
  /\ logs \subseteq Runs
  /\ gcfg \in [Gates -> Configs \cup {None}]
  /\ awaiting \in [Gates -> SUBSET Checks]
  /\ held \in [Gates -> [Checks -> Runs \cup {None}]]
  /\ cache \in [Gates -> [Globs -> Taken \cup {None}]]
  /\ results \in [Gates -> [Checks -> Conclusions]]
  /\ decision \in [Gates -> Answer \cup {None}]
  /\ atStart \in [Gates -> [Files -> Contents]]
  /\ earlier \in [Gates -> SUBSET Runs]

(* What a path held when a fingerprint recorded x for it.                  *)
Held(x) == IF x = Unlisted THEN Absent ELSE x

(* What f holds or has held.                                               *)
Known(f) == past[f] \cup {content[f]}

(* A PASS receipt is bound to the code that passed: if no edit puts old    *)
(* content back, every relevant file held exactly the receipt's content    *)
(* for as long as the verifier ran, although both fingerprints were taken  *)
(* file by file and neither is a snapshot (checker.Run's before # after).  *)
PassBinds ==
  \A r \in Runs : receipts[r] # None /\ receipts[r].verdict = "PASS" =>
    /\ outcome[r] = "zero"
    /\ \A f \in Matches[receipts[r].globs] :
         exposed[r][f] = {Held(receipts[r].seen[f])}

(* A gate that answers PASS vouches for the worktree: for every required   *)
(* check it holds a receipt of that check, under the contract and patterns *)
(* the gate itself loaded, of a verifier that exited 0; and a verifier     *)
(* that had begun before the gate saw, all along, the relevant files just  *)
(* as they were when the gate began (one that began later ran, unchanged   *)
(* files throughout, while the gate was at work).                          *)
Vouched(g, c) ==
  LET r == held[g][c] IN
    /\ r \in Runs
    /\ receipts[r] # None
    /\ receipts[r].check = c
    /\ receipts[r].contract = gcfg[g][c].contract
    /\ outcome[r] = "zero"
    /\ \A f \in Matches[gcfg[g][c].globs] :
         /\ r \in earlier[g] => exposed[r][f] = {atStart[g][f]}
         /\ \E x \in Contents : exposed[r][f] = {x}

GateSound ==
  \A g \in Gates :
    decision[g] # None /\ decision[g].verdict = "PASS" =>
      \A c \in Required(gcfg[g]) : Vouched(g, c)

(* Evidence is not called stale for nothing: when the gate rejects a PASS  *)
(* receipt because the fingerprints differ, either the patterns of the     *)
(* check were changed or a relevant file on which they differ was edited.  *)
(* A fingerprint that two readers of an unchanged worktree could compute   *)
(* differently would block a finished task for ever.                       *)
NoFalseStale ==
  \A g \in Gates, c \in Checks : results[g][c] = "stale" =>
    LET r == receipts[held[g][c]]
        taken == cache[g][gcfg[g][c].globs].seen IN
      \/ r.globs # gcfg[g][c].globs
      \/ \E f \in Matches[r.globs] : r.seen[f] # taken[f] /\ past[f] # {}

(* A gate never hangs: whatever is edited meanwhile, it answers.           *)
GateAnswers == \A g \in Gates : pc[g] = "load" ~> pc[g] = "done"

(* SECURITY.md: "A non-zero process exit remains `FAIL`".                  *)
NonZeroExitRemainsFail ==
  \A r \in Runs : receipts[r] # None /\ outcome[r] = "nonzero" =>
    receipts[r].verdict = "FAIL"

-----------------------------------------------------------------------------
(* The inductive invariant behind PassBinds and GateSound, for worktrees   *)
(* in which no edit puts old content back.                                 *)

(* Content, once replaced, is gone.                                        *)
PastIsGone == \A f \in Files : content[f] \notin past[f]

(* Which files exist in which phase of a run.                              *)
RunsWellFormed ==
  \A r \in Runs :
    /\ pc[r] \notin {"idle", "failed"} \/ receipts[r] # None =>
         entry[r] \in Entry /\ job[r] \in Checks
    /\ receipts[r] # None => pc[r] \in {"saved", "replacing", "done", "failed"}
    /\ pc[r] \in {"saved", "replacing", "done"} => receipts[r] # None
    /\ receipts[r] # None => receipts[r].check = job[r]

(* An alias leads to a saved receipt of its own check.                     *)
AliasLeadsToReceipt ==
  \A c \in Checks : latest[c] # None =>
    receipts[latest[c]] # None /\ receipts[latest[c]].check = c

(* The run's first fingerprint counts: its verifier was started, and it    *)
(* may still save a receipt or has done so.                                *)
Counts(r) == pc[r] \in Started \/ receipts[r] # None

Covered(r) == Matches[entry[r].globs]

(* What a run has read of a path so far it held then, or earlier.          *)
FirstReads(r) ==
  pc[r] = "readBefore" =>
    \A f \in Covered(r) \ todo[r] : Held(obs[r][f]) \in Known(f)

(* A path that still holds what a run first read there has held nothing    *)
(* else since.                                                             *)
VerifierSaw(r) ==
  Counts(r) => \A f \in Covered(r) :
    /\ Held(before[r][f]) \in Known(f)
    /\ content[f] = Held(before[r][f]) => exposed[r][f] = {Held(before[r][f])}

SecondReads(r) ==
  pc[r] = "readAfter" => \A f \in Covered(r) \ todo[r] :
    Held(obs[r][f]) = Held(before[r][f]) => exposed[r][f] = {Held(before[r][f])}

RunsTrack == \A r \in Runs : FirstReads(r) /\ VerifierSaw(r) /\ SecondReads(r)

(* What a PASS receipt says is what the run found, twice.                  *)
Tells(r) ==
  receipts[r] # None =>
    /\ receipts[r].contract = entry[r].contract
    /\ receipts[r].globs = entry[r].globs
    /\ receipts[r].verdict = "PASS" =>
         /\ outcome[r] = "zero"
         /\ receipts[r].seen = before[r]
         /\ \A f \in Covered(r) : exposed[r][f] = {Held(before[r][f])}

ReceiptsTell == \A r \in Runs : Tells(r)

(* What a gate finds at f can only agree with what run r first read there  *)
(* if f held just that when the gate began.                                *)
Agrees(g, r, f, x) ==
  Held(x) = Held(before[r][f]) => atStart[g][f] = Held(before[r][f])

FilesAgree(g, r) == \A f \in Covered(r) : Agrees(g, r, f, content[f])

ReadsAgree(g, r) ==
  pc[g] = "read" => \A c \in Checks : Turn(g, c) =>
    \A f \in Covered(r) :
      f \in Matches[gcfg[g][c].globs] \ todo[g] => Agrees(g, r, f, obs[g][f])

CacheAgrees(g, r) ==
  \A p \in Globs : cache[g][p] # None /\ cache[g][p].ok =>
    \A f \in Covered(r) :
      f \in Matches[p] => Agrees(g, r, f, cache[g][p].seen[f])

Earlier(g, r) ==
  /\ pc[r] \in Started \cup {"failed"}
  /\ Counts(r) => FilesAgree(g, r) /\ ReadsAgree(g, r) /\ CacheAgrees(g, r)

CacheStartsEmpty(g) == pc[g] = "idle" => \A p \in Globs : cache[g][p] = None

GatesTrack ==
  \A g \in Gates : CacheStartsEmpty(g) /\ \A r \in earlier[g] : Earlier(g, r)

(* The loop of a gate settles the required checks it leaves behind.        *)
GatesWellFormed ==
  \A g \in Gates :
    /\ pc[g] # "idle" => gcfg[g] \in Configs
    /\ pc[g] = "idle" => awaiting[g] = {} /\ \A c \in Checks : results[g][c] = "none"
    /\ pc[g] # "idle" => awaiting[g] \subseteq Required(gcfg[g])
    /\ \A c \in awaiting[g] : results[g][c] = "none"
    /\ pc[g] \in {"load", "bind", "read"} =>
         \/ \E c \in Checks : results[g][c] = "blocked"
         \/ \A c \in Required(gcfg[g]) \ awaiting[g] : results[g][c] # "none"
    /\ pc[g] \in {"bind", "read"} => \A c \in Checks : Turn(g, c) =>
         /\ held[g][c] # None
         /\ receipts[held[g][c]] # None
         /\ receipts[held[g][c]].verdict = "PASS"
         /\ receipts[held[g][c]].check = c
    /\ decision[g] # None => pc[g] = "done"

(* What a gate counts as a pass stays vouched for.                         *)
PassesVouched ==
  \A g \in Gates : \A c \in Checks : results[g][c] = "pass" =>
    /\ pc[g] # "idle"
    /\ c \notin awaiting[g]
    /\ Vouched(g, c)

PassVerdicts ==
  \A g \in Gates : decision[g] # None /\ decision[g].verdict = "PASS" =>
    \A c \in Required(gcfg[g]) : results[g][c] = "pass"

IInv ==
  /\ TypeOK
  /\ PastIsGone
  /\ RunsWellFormed
  /\ AliasLeadsToReceipt
  /\ RunsTrack
  /\ ReceiptsTell
  /\ GatesTrack
  /\ GatesWellFormed
  /\ PassesVouched
  /\ PassVerdicts

=============================================================================
