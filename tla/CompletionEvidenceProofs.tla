---------------------- MODULE CompletionEvidenceProofs ----------------------
(* What holds of checks and gates for every worktree, configuration,       *)
(* number of runs and gates, and every interleaving of theirs.             *)
EXTENDS CompletionEvidence, CaptureBuffer, DataLemmas, SequenceTheorems, TLAPS

(* The part of the invariant that does not depend on what edits put back.  *)
Base == TypeOK /\ RunsWellFormed /\ AliasLeadsToReceipt /\ GatesWellFormed

LEMMA ProcsSplit ==
  /\ Runs \subseteq Procs
  /\ Gates \subseteq Procs
  /\ \A p \in Procs : p \in Runs \/ p \in Gates
  /\ \A r \in Runs : r \notin Gates
  /\ \A g \in Gates : g \notin Runs
BY EvidenceAssumption DEF Procs

LEMMA TypeInit == Init => TypeOK
BY EvidenceAssumption, ProcsSplit
   DEF Init, TypeOK, Nothing, Observation, RunPhases, GatePhases, Conclusions

LEMMA BaseInit == Init => Base
<1> SUFFICES ASSUME Init PROVE Base
  OBVIOUS
<1>1. TypeOK
  BY TypeInit
<1>2. RunsWellFormed
  BY ProcsSplit DEF Init, RunsWellFormed
<1>3. AliasLeadsToReceipt
  BY DEF Init, AliasLeadsToReceipt
<1>4. GatesWellFormed
  BY ProcsSplit DEF Init, GatesWellFormed
<1> QED
  BY <1>1, <1>2, <1>3, <1>4 DEF Base

-----------------------------------------------------------------------------
(* The steps of FingerprintContext have the right type.                    *)
LEMMA ListFilesType ==
  ASSUME TypeOK, NEW p \in Procs, NEW q \in Globs, ListFiles(p, q)
  PROVE  /\ todo' \in [Procs -> SUBSET Files]
         /\ obs' \in [Procs -> Observation]
         /\ todo'[p] \subseteq Matches[q]
         /\ obs'[p] = Nothing
         /\ \A f \in Matches[q] \ todo'[p] : content[f] = Absent
         /\ \A o \in Procs \ {p} : todo'[o] = todo[o] /\ obs'[o] = obs[o]
<1>1. Matches[q] \subseteq Files
  BY EvidenceAssumption
<1>2. Nothing \in Observation
  BY DEF Nothing, Observation
<1>3. todo \in [Procs -> SUBSET Files] /\ obs \in [Procs -> Observation]
  BY DEF TypeOK
<1> QED
  BY <1>1, <1>2, <1>3 DEF ListFiles

LEMMA ReadNextType ==
  ASSUME TypeOK, NEW p \in Procs, ReadNext(p)
  PROVE  /\ todo' \in [Procs -> SUBSET Files]
         /\ obs' \in [Procs -> Observation]
         /\ \A o \in Procs \ {p} : todo'[o] = todo[o] /\ obs'[o] = obs[o]
         /\ \E f \in todo[p] :
              /\ todo'[p] = todo[p] \ {f}
              /\ obs'[p][f] = content[f]
              /\ \A h \in Files \ {f} : obs'[p][h] = obs[p][h]
<1>1. todo \in [Procs -> SUBSET Files] /\ obs \in [Procs -> Observation]
      /\ content \in [Files -> Contents]
  BY DEF TypeOK
<1>2. PICK f \in todo[p] :
        /\ obs' = [obs EXCEPT ![p] = [@ EXCEPT ![f] = content[f]]]
        /\ todo' = [todo EXCEPT ![p] = @ \ {f}]
  BY DEF ReadNext
<1>3. f \in Files /\ content[f] \in Contents
  BY <1>1
<1>4. obs[p] \in [Files -> Contents \cup {Unlisted}]
  BY <1>1 DEF Observation
<1>5. [obs[p] EXCEPT ![f] = content[f]] \in Observation
  BY <1>3, <1>4 DEF Observation
<1>6. obs'[p] = [obs[p] EXCEPT ![f] = content[f]]
  BY <1>1, <1>2
<1> QED
  BY <1>1, <1>2, <1>3, <1>4, <1>5, <1>6

(* What a run's check was configured as, and what a gate's checks are.     *)
LEMMA RunEntry ==
  ASSUME Base, NEW r \in Runs, pc[r] \notin {"idle", "failed"}
  PROVE  /\ entry[r] \in Entry
         /\ entry[r].globs \in Globs
         /\ entry[r].contract \in Contracts
         /\ job[r] \in Checks
BY DEF Base, RunsWellFormed, Entry

LEMMA ConfigEntry ==
  ASSUME NEW k \in Configs, NEW c \in DOMAIN k
  PROVE  c \in Checks /\ k[c] \in Entry /\ k[c].globs \in Globs
<1>1. k \in [DOMAIN k -> Entry] /\ DOMAIN k \subseteq Checks
  BY EvidenceAssumption
<1> QED
  BY <1>1 DEF Entry

LEMMA GateEntry ==
  ASSUME Base, NEW g \in Gates, NEW c \in Checks, pc[g] # "idle", Turn(g, c)
  PROVE  /\ gcfg[g] \in Configs
         /\ c \in DOMAIN gcfg[g]
         /\ gcfg[g][c].globs \in Globs
         /\ c \in Required(gcfg[g])
<1>1. gcfg[g] \in Configs /\ c \in Required(gcfg[g])
  BY DEF Base, GatesWellFormed, Turn
<1> QED
  BY <1>1, ConfigEntry DEF Required

-----------------------------------------------------------------------------
(* Type correctness, step by step.                                         *)
LEMMA TypeEnvironment ==
  ASSUME Base, Environment
  PROVE  TypeOK'
<1> USE DEF Base, TypeOK, worktree, reader, run, store, gate
<1>1. ASSUME NEW f \in Files, NEW c \in Contents, EditFile(f, c)
      PROVE  TypeOK'
  <2>1. exposed' \in [Runs -> [Files -> SUBSET Contents]]
    BY <1>1 DEF EditFile
  <2> QED
    BY <1>1, <2>1, EvidenceAssumption DEF EditFile
<1>2. ASSUME NEW k \in Configs, EditConfig(k)
      PROVE  TypeOK'
  BY <1>2, EvidenceAssumption DEF EditConfig
<1>3. ASSUME NEW r \in Runs, LoseLog(r)
      PROVE  TypeOK'
  BY <1>3 DEF LoseLog
<1> QED
  BY <1>1, <1>2, <1>3 DEF Environment

LEMMA TypeRun ==
  ASSUME Base, NEW r \in Runs, RunStep(r)
  PROVE  TypeOK'
<1> USE ProcsSplit DEF TypeOK, worktree, reader, run, store, gate, RunPhases
<1>0. TypeOK
  BY DEF Base
<1>1. ASSUME NEW c \in Checks, StartRun(r, c)
      PROVE  TypeOK'
  BY <1>0, <1>1, ConfigEntry DEF StartRun
<1>2. CASE ListBefore(r)
  <2>1. entry[r].globs \in Globs
    BY <1>2, RunEntry DEF ListBefore
  <2> QED
    BY <1>0, <1>2, <2>1, ListFilesType DEF ListBefore
<1>3. CASE ReadRelevant(r)
  BY <1>0, <1>3, ReadNextType DEF ReadRelevant
<1>4. CASE StartVerifier(r)
  BY <1>0, <1>4 DEF StartVerifier
<1>5. ASSUME NEW o \in Outcomes, EndVerifier(r, o)
      PROVE  TypeOK'
  BY <1>0, <1>5 DEF EndVerifier
<1>6. CASE ListAfter(r)
  <2>1. entry[r].globs \in Globs
    BY <1>6, RunEntry DEF ListAfter
  <2> QED
    BY <1>0, <1>6, <2>1, ListFilesType DEF ListAfter
<1>7. CASE SaveReceipt(r)
  <2>1. Verdict(outcome[r], before[r] # obs[r]) \in {"PASS", "FAIL", "INCONCLUSIVE"}
    BY DEF Verdict
  <2>2. /\ entry[r].globs \in Globs
        /\ entry[r].contract \in Contracts
        /\ job[r] \in Checks
    BY <1>7, RunEntry DEF SaveReceipt
  <2>3. obs[r] \in Observation
    BY <1>0
  <2>4. receipts' \in [Runs -> Receipt \cup {None}]
    BY <1>0, <1>7, <2>1, <2>2, <2>3 DEF SaveReceipt, Receipt
  <2> QED
    BY <1>0, <1>7, <2>4 DEF SaveReceipt
<1>8. CASE RemoveLatest(r)
  <2>1. job[r] \in Checks
    BY <1>8, RunEntry DEF RemoveLatest
  <2> QED
    BY <1>0, <1>8, <2>1 DEF RemoveLatest
<1>9. CASE PublishLatest(r)
  <2>1. job[r] \in Checks
    BY <1>9, RunEntry DEF PublishLatest
  <2> QED
    BY <1>0, <1>9, <2>1 DEF PublishLatest
<1>10. CASE FailRun(r)
  BY <1>0, <1>10 DEF FailRun
<1> QED
  BY <1>1, <1>2, <1>3, <1>4, <1>5, <1>6, <1>7, <1>8, <1>9, <1>10 DEF RunStep

LEMMA TypeGate ==
  ASSUME Base, NEW g \in Gates, StartGate(g) \/ GateWork(g)
  PROVE  TypeOK'
<1> USE ProcsSplit DEF TypeOK, worktree, reader, run, store, gate, GatePhases
<1>0. TypeOK
  BY DEF Base
<1>1. CASE StartGate(g)
  <2>1. Required(cfg) \subseteq Checks
    BY <1>0, ConfigEntry DEF Required
  <2> QED
    BY <1>0, <1>1, <2>1 DEF StartGate
<1>2. ASSUME NEW c \in Checks, GateOverBudget(g, c)
      PROVE  TypeOK'
  BY <1>0, <1>2 DEF GateOverBudget, Conclusions
<1>3. ASSUME NEW c \in Checks, GateNoReceipt(g, c)
      PROVE  TypeOK'
  BY <1>0, <1>3 DEF GateNoReceipt, Conclude, Conclusions
<1>4. ASSUME NEW c \in Checks, GateLoadOther(g, c)
      PROVE  TypeOK'
  <2>1. held' \in [Gates -> [Checks -> Runs \cup {None}]]
    BY <1>0, <1>4 DEF GateLoadOther
  <2> QED
    BY <1>0, <1>4, <2>1 DEF GateLoadOther, Conclude, Conclusions
<1>5. ASSUME NEW c \in Checks, GateLoadPass(g, c)
      PROVE  TypeOK'
  BY <1>0, <1>5 DEF GateLoadPass
<1>6. ASSUME NEW c \in Checks, GateContractChanged(g, c)
      PROVE  TypeOK'
  BY <1>0, <1>6 DEF GateContractChanged, Conclude, Conclusions
<1>7. ASSUME NEW c \in Checks, GateList(g, c)
      PROVE  TypeOK'
  <2>1. gcfg[g][c].globs \in Globs
    BY <1>7, GateEntry DEF GateList
  <2> QED
    BY <1>0, <1>7, <2>1, ListFilesType DEF GateList
<1>8. ASSUME NEW c \in Checks, NEW what \in Taken,
             pc[g] = "read", Turn(g, c), GateRemember(g, c, what)
      PROVE  TypeOK'
  <2>1. gcfg[g][c].globs \in Globs
    BY <1>8, GateEntry
  <2>2. cache' \in [Gates -> [Globs -> Taken \cup {None}]]
    BY <1>0, <1>8, <2>1 DEF GateRemember
  <2> QED
    BY <1>0, <1>8, <2>2 DEF GateRemember
<1>9. ASSUME NEW c \in Checks, GateCache(g, c)
      PROVE  TypeOK'
  <2>1. [ok |-> TRUE, seen |-> obs[g]] \in Taken
    BY <1>0 DEF Taken
  <2> QED
    BY <1>8, <1>9, <2>1 DEF GateCache
<1>10. ASSUME NEW c \in Checks, GateCannotRead(g, c)
      PROVE  TypeOK'
  <2>1. [ok |-> FALSE, seen |-> Nothing] \in Taken
    BY DEF Nothing, Observation, Taken
  <2> QED
    BY <1>8, <1>10, <2>1 DEF GateCannotRead
<1>11. ASSUME NEW c \in Checks, GateCompare(g, c)
      PROVE  TypeOK'
  BY <1>0, <1>11 DEF GateCompare, Conclude, Conclusions
<1>12. CASE GateRead(g)
  BY <1>0, <1>12, ReadNextType DEF GateRead
<1>13. CASE GateDecide(g)
  BY <1>0, <1>13 DEF GateDecide, Answer
<1> QED
  BY <1>1, <1>2, <1>3, <1>4, <1>5, <1>6, <1>7, <1>9, <1>10, <1>11, <1>12, <1>13
     DEF GateWork

-----------------------------------------------------------------------------
(* What a step of the environment, of a run and of a gate leaves alone.    *)
LEMMA EnvironmentFrame ==
  ASSUME Environment
  PROVE  UNCHANGED <<pc, reader, run, receipts, latest, gate>>
BY DEF Environment, EditFile, EditConfig, LoseLog, store, reader, run, gate

LEMMA RunFrame ==
  ASSUME Base, NEW r \in Runs, RunStep(r)
  PROVE  /\ UNCHANGED <<worktree, gate>>
         /\ \A o \in Procs \ {r} :
              pc'[o] = pc[o] /\ todo'[o] = todo[o] /\ obs'[o] = obs[o]
         /\ \A o \in Runs \ {r} :
              /\ job'[o] = job[o] /\ entry'[o] = entry[o]
              /\ before'[o] = before[o] /\ outcome'[o] = outcome[o]
              /\ exposed'[o] = exposed[o] /\ receipts'[o] = receipts[o]
<1> USE ProcsSplit DEF TypeOK, worktree, reader, run, store, gate
<1>0. TypeOK
  BY DEF Base
<1>1. CASE ListBefore(r) \/ ListAfter(r)
  <2>1. entry[r].globs \in Globs
    BY <1>1, RunEntry DEF ListBefore, ListAfter
  <2>2. \A o \in Procs \ {r} : todo'[o] = todo[o] /\ obs'[o] = obs[o]
    BY <1>0, <1>1, <2>1, ListFilesType DEF ListBefore, ListAfter
  <2> QED
    BY <1>0, <1>1, <2>2 DEF ListBefore, ListAfter
<1>2. CASE ReadRelevant(r)
  BY <1>0, <1>2, ReadNextType DEF ReadRelevant
<1>3. CASE (\E c \in Checks : StartRun(r, c)) \/ StartVerifier(r)
           \/ (\E o \in Outcomes : EndVerifier(r, o))
  BY <1>0, <1>3 DEF StartRun, StartVerifier, EndVerifier
<1>4. CASE SaveReceipt(r) \/ RemoveLatest(r) \/ PublishLatest(r) \/ FailRun(r)
  <2>1. CASE SaveReceipt(r)
    BY <1>0, <2>1 DEF SaveReceipt
  <2>2. CASE RemoveLatest(r)
    BY <1>0, <2>2 DEF RemoveLatest
  <2>3. CASE PublishLatest(r)
    BY <1>0, <2>3 DEF PublishLatest
  <2>4. CASE FailRun(r)
    BY <1>0, <2>4 DEF FailRun
  <2> QED
    BY <1>4, <2>1, <2>2, <2>3, <2>4
<1> QED
  BY <1>1, <1>2, <1>3, <1>4 DEF RunStep

LEMMA GateFrame ==
  ASSUME Base, NEW g \in Gates, StartGate(g) \/ GateWork(g)
  PROVE  /\ UNCHANGED <<worktree, run, exposed, store>>
         /\ \A o \in Procs \ {g} :
              pc'[o] = pc[o] /\ todo'[o] = todo[o] /\ obs'[o] = obs[o]
         /\ \A h \in Gates \ {g} :
              /\ gcfg'[h] = gcfg[h] /\ awaiting'[h] = awaiting[h]
              /\ held'[h] = held[h] /\ cache'[h] = cache[h]
              /\ results'[h] = results[h] /\ decision'[h] = decision[h]
              /\ atStart'[h] = atStart[h] /\ earlier'[h] = earlier[h]
<1> USE ProcsSplit DEF TypeOK, worktree, reader, run, store, gate
<1>0. TypeOK
  BY DEF Base
<1>1. CASE StartGate(g)
  BY <1>0, <1>1 DEF StartGate
<1>2. CASE \E c \in Checks :
             GateOverBudget(g, c) \/ GateNoReceipt(g, c) \/ GateContractChanged(g, c)
             \/ GateCompare(g, c)
  BY <1>0, <1>2
     DEF GateOverBudget, GateNoReceipt, GateContractChanged, GateCompare, Conclude
<1>3. CASE \E c \in Checks : GateLoadOther(g, c) \/ GateLoadPass(g, c)
  BY <1>0, <1>3 DEF GateLoadOther, GateLoadPass, Conclude
<1>4. CASE \E c \in Checks : GateList(g, c)
  BY <1>0, <1>4, GateEntry, ListFilesType DEF GateList
<1>5. CASE \E c \in Checks : GateCache(g, c) \/ GateCannotRead(g, c)
  BY <1>0, <1>5 DEF GateCache, GateCannotRead, GateRemember
<1>6. CASE GateRead(g)
  BY <1>0, <1>6, ReadNextType DEF GateRead
<1>7. CASE GateDecide(g)
  BY <1>0, <1>7 DEF GateDecide
<1> QED
  BY <1>1, <1>2, <1>3, <1>4, <1>5, <1>6, <1>7 DEF GateWork

-----------------------------------------------------------------------------
(* Runs and aliases stay well formed.                                      *)
LEMMA RunsWellFormedStep ==
  ASSUME Base, Next
  PROVE  RunsWellFormed'
<1>0. TypeOK /\ RunsWellFormed
  BY DEF Base
<1>1. CASE Environment
  BY <1>0, <1>1, EnvironmentFrame DEF RunsWellFormed, run
<1>2. ASSUME NEW g \in Gates, StartGate(g) \/ GateWork(g)
      PROVE  RunsWellFormed'
  BY <1>0, <1>2, GateFrame, ProcsSplit DEF RunsWellFormed, run, store
<1>3. ASSUME NEW r \in Runs, RunStep(r)
      PROVE  RunsWellFormed'
  <2> DEFINE WellFormed(o) ==
       /\ pc[o] \notin {"idle", "failed"} \/ receipts[o] # None =>
            entry[o] \in Entry /\ job[o] \in Checks
       /\ receipts[o] # None => pc[o] \in {"saved", "replacing", "done", "failed"}
       /\ pc[o] \in {"saved", "replacing", "done"} => receipts[o] # None
       /\ receipts[o] # None => receipts[o].check = job[o]
  <2>1. \A o \in Runs : WellFormed(o)
    BY <1>0 DEF RunsWellFormed
  <2>2. \A o \in Runs \ {r} : WellFormed(o)'
    BY <1>3, <2>1, RunFrame, ProcsSplit
  <2>3. WellFormed(r)'
    <3> USE <1>0, <2>1, ProcsSplit DEF TypeOK, run, store, reader
    <3>1. ASSUME NEW c \in Checks, StartRun(r, c)
          PROVE  WellFormed(r)'
      <4>1. cfg[c] \in Entry
        BY <3>1, ConfigEntry DEF StartRun
      <4> QED
        BY <3>1, <4>1 DEF StartRun
    <3>2. CASE ListBefore(r)
      BY <3>2 DEF ListBefore
    <3>3. CASE ReadRelevant(r)
      BY <3>3 DEF ReadRelevant
    <3>4. CASE StartVerifier(r)
      BY <3>4 DEF StartVerifier
    <3>5. ASSUME NEW o \in Outcomes, EndVerifier(r, o)
          PROVE  WellFormed(r)'
      BY <3>5 DEF EndVerifier
    <3>6. CASE ListAfter(r)
      BY <3>6 DEF ListAfter
    <3>7. CASE SaveReceipt(r)
      <4>1. /\ receipts'[r].check = job[r]
            /\ receipts'[r] # None
            /\ pc'[r] = "saved"
            /\ job'[r] = job[r] /\ entry'[r] = entry[r]
        <5>2. receipts'[r] \in Receipt
          BY <3>7, RunEntry, Base DEF SaveReceipt, Receipt, Verdict
        <5>3. None \notin Receipt
          BY EvidenceAssumption
        <5> QED
          BY <3>7, <5>2, <5>3 DEF SaveReceipt
      <4> QED
        BY <3>7, <4>1 DEF SaveReceipt
    <3>8. CASE RemoveLatest(r)
      BY <3>8 DEF RemoveLatest
    <3>9. CASE PublishLatest(r)
      BY <3>9 DEF PublishLatest
    <3>10. CASE FailRun(r)
      BY <3>10 DEF FailRun
    <3> QED
      BY <1>3, <3>1, <3>2, <3>3, <3>4, <3>5, <3>6, <3>7, <3>8, <3>9, <3>10 DEF RunStep
  <2> QED
    BY <2>2, <2>3 DEF RunsWellFormed
<1> QED
  BY <1>1, <1>2, <1>3 DEF Next

LEMMA AliasStep ==
  ASSUME Base, Next
  PROVE  AliasLeadsToReceipt'
<1>0. TypeOK /\ RunsWellFormed /\ AliasLeadsToReceipt
  BY DEF Base
<1>1. CASE Environment
  BY <1>0, <1>1, EnvironmentFrame DEF AliasLeadsToReceipt
<1>2. ASSUME NEW g \in Gates, StartGate(g) \/ GateWork(g)
      PROVE  AliasLeadsToReceipt'
  BY <1>0, <1>2, GateFrame DEF AliasLeadsToReceipt, store
<1>3. ASSUME NEW r \in Runs, RunStep(r)
      PROVE  AliasLeadsToReceipt'
  <2> USE <1>0 DEF TypeOK, run, store, reader
  <2>1. CASE SaveReceipt(r)
    <3>1. receipts[r] = None
      BY <2>1 DEF SaveReceipt, RunsWellFormed
    <3>2. \A c \in Checks : latest[c] # r
      BY <3>1, EvidenceAssumption DEF AliasLeadsToReceipt
    <3>3. \A o \in Runs \ {r} : receipts'[o] = receipts[o]
      BY <1>3, RunFrame
    <3>4. latest' = latest
      BY <2>1 DEF SaveReceipt
    <3> QED
      BY <3>2, <3>3, <3>4 DEF AliasLeadsToReceipt
  <2>2. CASE PublishLatest(r)
    <3>1. receipts[r] # None /\ receipts[r].check = job[r] /\ job[r] \in Checks
      BY <2>2 DEF PublishLatest, RunsWellFormed
    <3>2. receipts' = receipts /\ latest' = [latest EXCEPT ![job[r]] = r]
      BY <2>2 DEF PublishLatest
    <3> QED
      BY <3>1, <3>2 DEF AliasLeadsToReceipt
  <2>3. CASE RemoveLatest(r)
    <3>1. receipts' = receipts /\ latest' = [latest EXCEPT ![job[r]] = None]
      BY <2>3 DEF RemoveLatest
    <3>2. job[r] \in Checks
      BY <2>3, RunEntry DEF RemoveLatest
    <3>3. \A c \in Checks : latest'[c] = latest[c] \/ latest'[c] = None
      BY <3>1, <3>2
    <3> QED
      BY <3>1, <3>3 DEF AliasLeadsToReceipt
  <2>4. CASE receipts' = receipts /\ latest' = latest
    BY <2>4 DEF AliasLeadsToReceipt
  <2>5. \/ SaveReceipt(r) \/ PublishLatest(r) \/ RemoveLatest(r)
        \/ receipts' = receipts /\ latest' = latest
    BY <1>3 DEF RunStep, StartRun, ListBefore, ReadRelevant, StartVerifier,
                EndVerifier, ListAfter, FailRun
  <2> QED
    BY <2>1, <2>2, <2>3, <2>4, <2>5
<1> QED
  BY <1>1, <1>2, <1>3 DEF Next

(* A receipt, once saved, never changes.                                   *)
LEMMA ReceiptsImmutable ==
  ASSUME Base, Next, NEW r \in Runs, receipts[r] # None
  PROVE  /\ receipts'[r] = receipts[r]
         /\ entry'[r] = entry[r] /\ before'[r] = before[r]
         /\ outcome'[r] = outcome[r] /\ exposed'[r] = exposed[r]
         /\ job'[r] = job[r]
<1>0. TypeOK /\ pc[r] \in {"saved", "replacing", "done", "failed"}
  BY DEF Base, RunsWellFormed
<1>1. CASE Environment
  <2>1. exposed'[r] = exposed[r]
    BY <1>0, <1>1
       DEF Environment, EditFile, EditConfig, LoseLog, TypeOK
  <2> QED
    BY <1>1, <2>1, EnvironmentFrame DEF run
<1>2. ASSUME NEW g \in Gates, StartGate(g) \/ GateWork(g)
      PROVE  UNCHANGED <<run, exposed, store>>
  BY <1>2, GateFrame
<1>3. ASSUME NEW o \in Runs, RunStep(o), o # r
      PROVE  /\ receipts'[r] = receipts[r]
             /\ entry'[r] = entry[r] /\ before'[r] = before[r]
             /\ outcome'[r] = outcome[r] /\ exposed'[r] = exposed[r]
             /\ job'[r] = job[r]
  BY <1>3, RunFrame
<1>4. CASE RunStep(r)
  BY <1>0, <1>4 DEF RunStep, StartRun, ListBefore, ReadRelevant, StartVerifier,
       EndVerifier, ListAfter, SaveReceipt, RemoveLatest, PublishLatest, FailRun,
       run, store
<1> QED
  BY <1>1, <1>2, <1>3, <1>4 DEF Next, run, store

(* A gate examines one check at a time.                                    *)
LEMMA TurnUnique ==
  ASSUME NEW g \in Gates, NEW c \in Checks, NEW d \in Checks, Turn(g, c), Turn(g, d)
  PROVE  c = d
<1>1. c \in Nat /\ d \in Nat
  BY EvidenceAssumption
<1>2. c <= d /\ d <= c
  BY DEF Turn
<1> QED
  BY <1>1, <1>2

(* The gate's loop keeps its books.                                        *)
LEMMA GatesWellFormedStep ==
  ASSUME Base, Next
  PROVE  GatesWellFormed'
<1> DEFINE Books(g) ==
      /\ pc[g] # "idle" => gcfg[g] \in Configs
      /\ pc[g] = "idle" => awaiting[g] = {} /\ \A c \in Checks : results[g][c] = "none"
      /\ pc[g] # "idle" => awaiting[g] \subseteq Required(gcfg[g])
      /\ \A c \in awaiting[g] : results[g][c] = "none"
      /\ pc[g] \in {"load", "bind", "read"} =>
           \/ \E c \in Checks : results[g][c] = "blocked"
           \/ \A c \in Required(gcfg[g]) \ awaiting[g] : results[g][c] # "none"
      /\ decision[g] # None => pc[g] = "done"
    Carried(g) == pc[g] \in {"bind", "read"} => \A c \in Checks : Turn(g, c) =>
         /\ held[g][c] # None
         /\ receipts[held[g][c]] # None
         /\ receipts[held[g][c]].verdict = "PASS"
         /\ receipts[held[g][c]].check = c
<1>0. /\ TypeOK /\ RunsWellFormed /\ AliasLeadsToReceipt
      /\ \A g \in Gates : Books(g) /\ Carried(g)
  BY DEF Base, GatesWellFormed
<1> SUFFICES ASSUME NEW g \in Gates PROVE Books(g)' /\ Carried(g)'
  BY DEF GatesWellFormed
<1> USE ProcsSplit
<1>1. CASE UNCHANGED <<gate, pc[g]>>
  <2>1. Books(g)'
    BY <1>0, <1>1 DEF gate
  <2>2. \A r \in Runs : receipts[r] # None => receipts'[r] = receipts[r]
    BY ReceiptsImmutable
  <2>3. Carried(g)'
    BY <1>0, <1>1, <2>2 DEF gate, Turn, TypeOK
  <2> QED
    BY <2>1, <2>3
<1>2. ASSUME NEW r \in Runs, RunStep(r)
      PROVE  UNCHANGED <<gate, pc[g]>>
  BY <1>2, RunFrame
<1>3. ASSUME NEW h \in Gates, h # g, StartGate(h) \/ GateWork(h)
      PROVE  Books(g)' /\ Carried(g)'
  BY <1>0, <1>3, GateFrame DEF Turn, store
<1>4. ASSUME StartGate(g)
      PROVE  Books(g)' /\ Carried(g)'
  <2> USE <1>0, <1>4 DEF StartGate, TypeOK
  <2>1. /\ pc'[g] = "load" /\ gcfg'[g] = cfg /\ awaiting'[g] = Required(cfg)
        /\ results' = results /\ decision' = decision /\ cfg \in Configs
    OBVIOUS
  <2>2. Required(gcfg[g])' = Required(cfg)
    BY <2>1 DEF Required
  <2>3. /\ awaiting[g] = {} /\ decision[g] = None
        /\ \A c \in Checks : results[g][c] = "none"
    OBVIOUS
  <2>4. Required(cfg) \subseteq Checks
    BY <2>1, ConfigEntry DEF Required
  <2>5. Books(g)'
    BY <2>1, <2>2, <2>3, <2>4
  <2>6. Carried(g)'
    BY <2>1
  <2> QED
    BY <2>5, <2>6
<1>5. ASSUME NEW c \in Checks, NEW what \in Conclusions \ {"none"},
             pc[g] \in {"load", "bind"}, Turn(g, c), Conclude(g, c, what), decision' = decision, gcfg' = gcfg,
             decision[g] = None
      PROVE  Books(g)' /\ Carried(g)'
  <2>1. /\ pc'[g] = "load" /\ awaiting'[g] = awaiting[g] \ {c}
        /\ results'[g][c] = what
        /\ \A d \in Checks \ {c} : results'[g][d] = results[g][d]
    BY <1>0, <1>5 DEF Conclude, TypeOK
  <2>2. Required(gcfg[g])' = Required(gcfg[g])
    BY <1>5
  <2>3. awaiting[g] \subseteq Checks /\ c \in awaiting[g] /\ c \in Checks
    BY <1>0, <1>5 DEF Turn, TypeOK
  <2>4. \A d \in awaiting'[g] : results'[g][d] = "none"
    BY <1>0, <2>1, <2>3
  <2>5. \/ \E d \in Checks : results'[g][d] = "blocked"
        \/ \A d \in Required(gcfg[g]) \ awaiting'[g] : results'[g][d] # "none"
    <3>1. CASE \E d \in Checks : results[g][d] = "blocked"
      BY <1>0, <2>1, <2>3, <3>1
    <3>2. CASE ~ \E d \in Checks : results[g][d] = "blocked"
      <4>1. \A d \in Required(gcfg[g]) \ awaiting[g] : results[g][d] # "none"
        BY <1>0, <1>5, <3>2 DEF TypeOK, GatePhases
      <4>2. Required(gcfg[g]) \subseteq Checks
        BY <1>0, <1>5, ConfigEntry DEF Required
      <4> QED
        BY <1>5, <2>1, <4>1, <4>2
    <3> QED
      BY <3>1, <3>2
  <2>6. Books(g)'
    <3>1. awaiting'[g] \subseteq Required(gcfg[g]) /\ gcfg[g] \in Configs
      BY <1>0, <1>5, <2>1
    <3> QED
      BY <1>0, <1>5, <2>1, <2>2, <2>4, <2>5, <3>1
  <2>7. Carried(g)'
    BY <2>1
  <2> QED
    BY <2>6, <2>7
<1>6. ASSUME UNCHANGED <<gcfg, awaiting, results, decision>>,
             pc[g] \in {"load", "bind", "read"}, pc'[g] \in {"load", "bind", "read"}
      PROVE  Books(g)'
  <2>1. Books(g)
    BY <1>0
  <2>2. Required(gcfg[g])' = Required(gcfg[g])
    BY <1>6
  <2> QED
    BY <1>6, <2>1, <2>2
<1>7. ASSUME GateWork(g)
      PROVE  Books(g)' /\ Carried(g)'
  <2> USE <1>0 DEF TypeOK, worktree, reader, run, store
  <2>1. ASSUME NEW c \in Checks, GateOverBudget(g, c)
        PROVE  Books(g)' /\ Carried(g)'
    <3>1. /\ pc'[g] = "load" /\ awaiting'[g] = {} /\ results'[g][c] = "blocked"
          /\ gcfg' = gcfg /\ decision' = decision /\ pc[g] = "load"
      BY <2>1 DEF GateOverBudget
    <3>2. Books(g)'
      BY <3>1
    <3> QED
      BY <3>1, <3>2
  <2>2. ASSUME NEW c \in Checks, GateNoReceipt(g, c)
        PROVE  Books(g)' /\ Carried(g)'
    BY <1>5, <2>2 DEF GateNoReceipt, Conclusions
  <2>3. ASSUME NEW c \in Checks, GateLoadOther(g, c)
        PROVE  Books(g)' /\ Carried(g)'
    BY <1>5, <2>3 DEF GateLoadOther, Conclusions
  <2>4. ASSUME NEW c \in Checks, GateLoadPass(g, c)
        PROVE  Books(g)' /\ Carried(g)'
    <3>1. /\ UNCHANGED <<gcfg, awaiting, results, decision, receipts>>
          /\ pc[g] = "load" /\ pc'[g] = "bind" /\ Turn(g, c)
          /\ latest[c] # None /\ receipts[latest[c]].verdict = "PASS"
          /\ held'[g][c] = latest[c]
      BY <2>4 DEF GateLoadPass
    <3>2. Books(g)'
      BY <1>6, <3>1
    <3>3. \A d \in Checks : Turn(g, d)' => d = c
      BY <3>1, TurnUnique DEF Turn
    <3>4. receipts[latest[c]] # None /\ receipts[latest[c]].check = c
      BY <3>1 DEF AliasLeadsToReceipt
    <3>5. Carried(g)'
      BY <3>1, <3>3, <3>4
    <3> QED
      BY <3>2, <3>5
  <2>5. ASSUME NEW c \in Checks, GateContractChanged(g, c)
        PROVE  Books(g)' /\ Carried(g)'
    BY <1>5, <2>5 DEF GateContractChanged, Conclusions
  <2>6. ASSUME NEW c \in Checks,
               GateList(g, c) \/ GateCache(g, c) \/ GateCannotRead(g, c)
        PROVE  Books(g)' /\ Carried(g)'
    <3>1. /\ UNCHANGED <<gcfg, awaiting, held, results, decision, receipts>>
          /\ pc[g] \in {"bind", "read"} /\ pc'[g] \in {"bind", "read"}
      BY <2>6 DEF GateList, GateCache, GateCannotRead, GateRemember, gate
    <3>2. Books(g)'
      BY <1>6, <3>1
    <3>3. Carried(g)'
      BY <3>1 DEF Turn
    <3> QED
      BY <3>2, <3>3
  <2>7. ASSUME NEW c \in Checks, GateCompare(g, c)
        PROVE  Books(g)' /\ Carried(g)'
    BY <1>5, <2>7 DEF GateCompare, Conclusions
  <2>8. CASE GateRead(g)
    BY <1>1, <2>8 DEF GateRead
  <2>9. CASE GateDecide(g)
    <3>1. UNCHANGED <<gcfg, awaiting, results>> /\ pc[g] = "load" /\ pc'[g] = "done"
      BY <2>9 DEF GateDecide
    <3> QED
      BY <3>1
  <2> QED
    BY <1>7, <2>1, <2>2, <2>3, <2>4, <2>5, <2>6, <2>7, <2>8, <2>9 DEF GateWork
<1> QED
  BY <1>1, <1>2, <1>3, <1>4, <1>7, EnvironmentFrame, ProcsSplit DEF Next

LEMMA BaseStutter ==
  ASSUME Base, UNCHANGED vars
  PROVE  Base'
<1> USE DEF Base, vars, worktree, reader, run, store, gate
<1>1. TypeOK'
  BY DEF TypeOK
<1>2. RunsWellFormed'
  BY DEF RunsWellFormed
<1>3. AliasLeadsToReceipt'
  BY DEF AliasLeadsToReceipt
<1>4. GatesWellFormed'
  BY DEF GatesWellFormed, Turn
<1> QED
  BY <1>1, <1>2, <1>3, <1>4

LEMMA BaseStep ==
  ASSUME Base, [Next]_vars
  PROVE  Base'
<1>1. CASE UNCHANGED vars
  BY <1>1, BaseStutter
<1>2. CASE Next
  <2>1. TypeOK'
    BY <1>2, TypeEnvironment, TypeRun, TypeGate DEF Next
  <2> QED
    BY <1>2, <2>1, RunsWellFormedStep, AliasStep, GatesWellFormedStep DEF Base
<1> QED
  BY <1>1, <1>2

LEMMA BaseInvariant == Spec => []Base
<1>1. Init => Base
  BY BaseInit
<1>2. Base /\ [Next]_vars => Base'
  BY BaseStep
<1> QED
  BY <1>1, <1>2, PTL DEF Spec

(* In every behaviour of checks, gates and edits, and whatever edits put   *)
(* back, each file and each process is in a state the program knows.       *)
THEOREM TypeCorrect == Spec => []TypeOK
<1>1. Base => TypeOK
  BY DEF Base
<1> QED
  BY <1>1, BaseInvariant, PTL

-----------------------------------------------------------------------------
(* From here on no edit puts old content back.                             *)

LEMMA HeldContent ==
  ASSUME TypeOK, NEW f \in Files
  PROVE  Held(content[f]) = content[f] /\ content[f] \in Known(f)
BY EvidenceAssumption DEF TypeOK, Held, Known

(* An edit shows a path something new, and shows it to running verifiers.  *)
LEMMA EditIsNew ==
  ASSUME TypeOK, ~Reverts, NEW f \in Files, NEW c \in Contents, EditFile(f, c)
  PROVE  /\ c \notin Known(f)
         /\ content'[f] = c
         /\ \A h \in Files \ {f} : content'[h] = content[h] /\ past'[h] = past[h]
         /\ past'[f] = Known(f)
         /\ \A h \in Files : Known(h) \subseteq Known(h)'
         /\ \A r \in Runs : \A h \in Files :
              h # f \/ pc[r] # "running" => exposed'[r][h] = exposed[r][h]
         /\ UNCHANGED <<cfg, pc, reader, run, store, gate>>
BY DEF TypeOK, EditFile, Known

LEMMA PastIsGoneStep ==
  ASSUME IInv, ~Reverts, Next
  PROVE  PastIsGone'
<1>0. TypeOK /\ PastIsGone /\ Base
  BY DEF IInv, Base
<1>1. ASSUME NEW f \in Files, NEW c \in Contents, EditFile(f, c)
      PROVE  PastIsGone'
  BY <1>0, <1>1, EditIsNew DEF PastIsGone, Known
<1>2. CASE UNCHANGED <<content, past>>
  BY <1>0, <1>2 DEF PastIsGone
<1>3. ASSUME NEW r \in Runs, RunStep(r)
      PROVE  UNCHANGED <<content, past>>
  BY <1>0, <1>3, RunFrame DEF worktree
<1>4. ASSUME NEW g \in Gates, StartGate(g) \/ GateWork(g)
      PROVE  UNCHANGED <<content, past>>
  BY <1>0, <1>4, GateFrame DEF worktree
<1>5. ASSUME NEW k \in Configs, EditConfig(k)
      PROVE  UNCHANGED <<content, past>>
  BY <1>5 DEF EditConfig
<1>6. ASSUME NEW r \in Runs, LoseLog(r)
      PROVE  UNCHANGED <<content, past>>
  BY <1>6 DEF LoseLog, worktree
<1> QED
  BY <1>1, <1>2, <1>3, <1>4, <1>5, <1>6 DEF Next, Environment

(* A fingerprint's listing and each of its reads record what is there.     *)
LEMMA ListedIsThere ==
  ASSUME TypeOK, NEW p \in Procs, NEW q \in Globs, ListFiles(p, q),
         NEW f \in Matches[q] \ todo'[p]
  PROVE  Held(obs'[p][f]) = content[f]
<1>1. f \in Files
  BY EvidenceAssumption
<1>2. content[f] = Absent /\ obs'[p] = Nothing
  BY ListFilesType
<1> QED
  BY <1>1, <1>2 DEF Held, Nothing

LEMMA ReadIsThere ==
  ASSUME TypeOK, NEW p \in Procs, ReadNext(p), NEW f \in Files, f \notin todo'[p]
  PROVE  \/ Held(obs'[p][f]) = content[f]
         \/ f \notin todo[p] /\ obs'[p][f] = obs[p][f]
BY ReadNextType, HeldContent

(* What a check covers are files.                                          *)
LEMMA CoveredFiles ==
  ASSUME Base, NEW r \in Runs, pc[r] \notin {"idle", "failed"} \/ receipts[r] # None
  PROVE  entry[r].globs \in Globs /\ Covered(r) \subseteq Files
<1>1. entry[r].globs \in Globs
  BY DEF Base, RunsWellFormed, Entry
<1> QED
  BY <1>1, EvidenceAssumption DEF Covered

LEMMA CountsPhase ==
  ASSUME NEW r \in Runs, Counts(r)
  PROVE  pc[r] \notin {"idle", "failed"} \/ receipts[r] # None
BY DEF Counts, Started

(* An edit of one path, seen from a run that covers some path.             *)
LEMMA RunsTrackEdit ==
  ASSUME IInv, ~Reverts, NEW r \in Runs, NEW f \in Covered(r), Counts(r),
         NEW h \in Files, NEW c \in Contents, EditFile(h, c)
  PROVE  /\ Held(before[r][f]) \in Known(f)'
         /\ content'[f] = Held(before[r][f]) =>
              /\ content[f] = Held(before[r][f])
              /\ exposed'[r][f] = exposed[r][f]
<1>0. Base /\ TypeOK /\ VerifierSaw(r)
  BY DEF IInv, Base, RunsTrack
<1>1. f \in Files
  BY <1>0, CoveredFiles, CountsPhase
<1>2. Held(before[r][f]) \in Known(f)
  BY <1>0 DEF VerifierSaw
<1>3. CASE f = h
  BY <1>0, <1>1, <1>2, <1>3, EditIsNew
<1>4. CASE f # h
  BY <1>0, <1>1, <1>2, <1>4, EditIsNew
<1> QED
  BY <1>3, <1>4

Tracks(r) == FirstReads(r) /\ VerifierSaw(r) /\ SecondReads(r)

LEMMA RunsTrackFrame ==
  ASSUME NEW r \in Runs, Tracks(r), UNCHANGED <<content, past>>,
         pc'[r] = pc[r], todo'[r] = todo[r], obs'[r] = obs[r],
         entry'[r] = entry[r], before'[r] = before[r],
         exposed'[r] = exposed[r], receipts'[r] = receipts[r]
  PROVE  Tracks(r)'
<1> USE DEF Tracks, Known, Covered
<1>1. FirstReads(r)'
  BY DEF FirstReads
<1>2. VerifierSaw(r)'
  BY DEF VerifierSaw, Counts
<1>3. SecondReads(r)'
  BY DEF SecondReads
<1> QED
  BY <1>1, <1>2, <1>3

LEMMA RunsTrackStep ==
  ASSUME IInv, ~Reverts, Next, NEW r \in Runs
  PROVE  Tracks(r)'
<1>0. TypeOK /\ Base /\ Tracks(r)
  BY DEF IInv, Base, RunsTrack, Tracks
<1>1. ASSUME NEW h \in Files, NEW c \in Contents, EditFile(h, c)
      PROVE  Tracks(r)'
  <2>1. UNCHANGED <<pc, todo, obs, entry, before, receipts>>
    BY <1>1 DEF EditFile, reader, run, store
  <2>2. \A f \in Files : Known(f) \subseteq Known(f)'
    BY <1>0, <1>1, EditIsNew
  <2>3. FirstReads(r)'
    <3> SUFFICES ASSUME pc[r] = "readBefore", NEW f \in Covered(r) \ todo[r]
                 PROVE  Held(obs[r][f]) \in Known(f)'
      BY <2>1 DEF FirstReads, Covered
    <3>1. f \in Files
      BY <1>0, CoveredFiles
    <3>2. Held(obs[r][f]) \in Known(f)
      BY <1>0 DEF Tracks, FirstReads
    <3> QED
      BY <2>2, <3>1, <3>2
  <2>4. VerifierSaw(r)'
    <3> SUFFICES ASSUME Counts(r), NEW f \in Covered(r)
                 PROVE  /\ Held(before[r][f]) \in Known(f)'
                        /\ content'[f] = Held(before[r][f]) =>
                             exposed'[r][f] = {Held(before[r][f])}
      BY <2>1 DEF VerifierSaw, Covered, Counts
    <3> QED
      BY <1>0, <1>1, RunsTrackEdit DEF Tracks, VerifierSaw
  <2>5. SecondReads(r)'
    <3> SUFFICES ASSUME pc[r] = "readAfter", NEW f \in Covered(r) \ todo[r],
                        Held(obs[r][f]) = Held(before[r][f])
                 PROVE  exposed'[r][f] = {Held(before[r][f])}
      BY <2>1 DEF SecondReads, Covered
    <3>1. f \in Files
      BY <1>0, CoveredFiles
    <3> QED
      BY <1>0, <1>1, <3>1, EditIsNew DEF Tracks, SecondReads
  <2> QED
    BY <2>3, <2>4, <2>5 DEF Tracks
<1>2. ASSUME NEW k \in Configs, EditConfig(k)
      PROVE  Tracks(r)'
  BY <1>0, <1>2, RunsTrackFrame DEF EditConfig, reader, run, store
<1>3. ASSUME NEW o \in Runs, LoseLog(o)
      PROVE  Tracks(r)'
  BY <1>0, <1>3, RunsTrackFrame DEF LoseLog, worktree, reader, run
<1>4. ASSUME NEW g \in Gates, StartGate(g) \/ GateWork(g)
      PROVE  Tracks(r)'
  <2>1. /\ UNCHANGED <<content, past, entry, before, exposed, receipts>>
        /\ pc'[r] = pc[r] /\ todo'[r] = todo[r] /\ obs'[r] = obs[r]
    BY <1>0, <1>4, GateFrame, ProcsSplit DEF worktree, run, store
  <2> QED
    BY <1>0, <2>1, RunsTrackFrame
<1>5. ASSUME NEW o \in Runs \ {r}, RunStep(o)
      PROVE  Tracks(r)'
  <2>1. /\ UNCHANGED <<content, past>>
        /\ pc'[r] = pc[r] /\ todo'[r] = todo[r] /\ obs'[r] = obs[r]
        /\ entry'[r] = entry[r] /\ before'[r] = before[r]
        /\ exposed'[r] = exposed[r] /\ receipts'[r] = receipts[r]
    BY <1>0, <1>5, RunFrame, ProcsSplit DEF worktree
  <2> QED
    BY <1>0, <2>1, RunsTrackFrame
<1>6. CASE RunStep(r)
  <2>0. /\ r \in Procs /\ UNCHANGED <<content, past>>
        /\ pc[r] \in {"idle", "listBefore"} => ~Counts(r)
    BY <1>0, <1>6, RunFrame, ProcsSplit DEF worktree, Base, RunsWellFormed, Counts, Started
  <2>1. ASSUME NEW c \in Checks, StartRun(r, c)
        PROVE  Tracks(r)'
    <3>1. pc'[r] = "listBefore" /\ receipts'[r] = None
      BY <1>0, <2>0, <2>1 DEF StartRun, store, Counts, TypeOK
    <3> QED
      BY <3>1 DEF Tracks, FirstReads, VerifierSaw, SecondReads, Counts, Started
  <2>2. CASE ListBefore(r)
    <3>1. pc'[r] = "readBefore" /\ receipts'[r] = None /\ entry' = entry
      BY <1>0, <2>0, <2>2 DEF ListBefore, store, run, Counts, TypeOK
    <3>2. entry[r].globs \in Globs
      BY <1>0, <2>2, RunEntry DEF ListBefore
    <3>3. FirstReads(r)'
      <4> SUFFICES ASSUME NEW f \in Matches[entry[r].globs] \ todo'[r]
                   PROVE  Held(obs'[r][f]) \in Known(f)'
        BY <3>1 DEF FirstReads, Covered
      <4>1. Held(obs'[r][f]) = content[f]
        BY <1>0, <2>0, <2>2, <3>2, ListedIsThere DEF ListBefore
      <4> QED
        BY <2>0, <4>1 DEF Known
    <3> QED
      BY <3>1, <3>3 DEF Tracks, VerifierSaw, SecondReads, Counts, Started
  <2>3. CASE ReadRelevant(r)
    <3>1. UNCHANGED <<pc, entry, before, exposed, receipts>> /\ ReadNext(r)
      BY <2>3 DEF ReadRelevant, run, store
    <3>2. Covered(r) \subseteq Files
      BY <1>0, <2>3, CoveredFiles DEF ReadRelevant
    <3>3. VerifierSaw(r)'
      BY <1>0, <2>0, <3>1 DEF Tracks, VerifierSaw, Counts, Covered, Known
    <3>4. FirstReads(r)'
      <4> SUFFICES ASSUME pc[r] = "readBefore", NEW f \in Covered(r) \ todo'[r]
                   PROVE  Held(obs'[r][f]) \in Known(f)
        BY <2>0, <3>1 DEF FirstReads, Covered, Known
      <4>1. CASE Held(obs'[r][f]) = content[f]
        BY <4>1 DEF Known
      <4>2. CASE f \notin todo[r] /\ obs'[r][f] = obs[r][f]
        BY <1>0, <4>2 DEF Tracks, FirstReads
      <4> QED
        BY <1>0, <2>0, <3>1, <3>2, <4>1, <4>2, ReadIsThere
    <3>5. SecondReads(r)'
      <4> SUFFICES ASSUME pc[r] = "readAfter", NEW f \in Covered(r) \ todo'[r],
                          Held(obs'[r][f]) = Held(before[r][f])
                   PROVE  exposed[r][f] = {Held(before[r][f])}
        BY <3>1 DEF SecondReads, Covered
      <4>1. CASE Held(obs'[r][f]) = content[f]
        BY <1>0, <4>1 DEF Tracks, VerifierSaw, Counts, Started
      <4>2. CASE f \notin todo[r] /\ obs'[r][f] = obs[r][f]
        BY <1>0, <4>2 DEF Tracks, SecondReads
      <4> QED
        BY <1>0, <2>0, <3>1, <3>2, <4>1, <4>2, ReadIsThere
    <3> QED
      BY <3>3, <3>4, <3>5 DEF Tracks
  <2>4. CASE StartVerifier(r)
    <3>1. /\ pc[r] = "readBefore" /\ todo[r] = {} /\ pc'[r] = "running"
          /\ before'[r] = obs[r] /\ entry'[r] = entry[r]
          /\ exposed'[r] = [f \in Files |-> {content[f]}]
      BY <1>0, <2>4, ProcsSplit DEF StartVerifier, TypeOK
    <3>2. Covered(r) \subseteq Files
      BY <1>0, <3>1, CoveredFiles
    <3>3. \A f \in Covered(r) : Held(obs[r][f]) \in Known(f)
      BY <1>0, <3>1 DEF Tracks, FirstReads
    <3>4. VerifierSaw(r)'
      BY <2>0, <3>1, <3>2, <3>3 DEF VerifierSaw, Covered, Known
    <3> QED
      BY <3>1, <3>4 DEF Tracks, FirstReads, SecondReads
  <2>5. CASE ListAfter(r)
    <3>1. /\ pc'[r] = "readAfter" /\ pc[r] = "listAfter"
          /\ UNCHANGED <<entry, before, exposed, receipts>>
      BY <1>0, <2>0, <2>5 DEF ListAfter, store, run, TypeOK
    <3>2. entry[r].globs \in Globs
      BY <1>0, <3>1, RunEntry
    <3>3. VerifierSaw(r)'
      BY <1>0, <2>0, <3>1 DEF Tracks, VerifierSaw, Counts, Started, Covered, Known
    <3>4. SecondReads(r)'
      <4> SUFFICES ASSUME NEW f \in Covered(r) \ todo'[r],
                          Held(obs'[r][f]) = Held(before[r][f])
                   PROVE  exposed[r][f] = {Held(before[r][f])}
        BY <3>1 DEF SecondReads, Covered
      <4>1. Held(obs'[r][f]) = content[f]
        BY <1>0, <2>0, <2>5, <3>2, ListedIsThere DEF ListAfter, Covered
      <4> QED
        BY <1>0, <3>1, <4>1 DEF Tracks, VerifierSaw, Counts, Started
    <3> QED
      BY <3>1, <3>3, <3>4 DEF Tracks, FirstReads
  <2>6. CASE \/ \E o \in Outcomes : EndVerifier(r, o)
             \/ SaveReceipt(r) \/ RemoveLatest(r) \/ PublishLatest(r) \/ FailRun(r)
    <3>1. /\ entry'[r] = entry[r] /\ before'[r] = before[r] /\ exposed' = exposed
          /\ Counts(r)' => Counts(r)
          /\ pc'[r] \notin {"readBefore", "readAfter"}
      <4> USE <1>0, ProcsSplit DEF TypeOK, Counts, Started, run, store
      <4>1. CASE \E o \in Outcomes : EndVerifier(r, o)
        BY <4>1 DEF EndVerifier
      <4>2. CASE SaveReceipt(r)
        BY <4>2 DEF SaveReceipt
      <4>3. CASE RemoveLatest(r)
        BY <4>3 DEF RemoveLatest
      <4>4. CASE PublishLatest(r)
        BY <4>4 DEF PublishLatest
      <4>5. CASE FailRun(r)
        BY <4>5 DEF FailRun
      <4> QED
        BY <2>6, <4>1, <4>2, <4>3, <4>4, <4>5
    <3>2. VerifierSaw(r)'
      BY <1>0, <2>0, <3>1 DEF Tracks, VerifierSaw, Covered, Known
    <3> QED
      BY <3>1, <3>2 DEF Tracks, FirstReads, SecondReads
  <2> QED
    BY <1>6, <2>1, <2>2, <2>3, <2>4, <2>5, <2>6 DEF RunStep
<1> QED
  BY <1>1, <1>2, <1>3, <1>4, <1>5, <1>6 DEF Next, Environment

-----------------------------------------------------------------------------
(* A receipt is written from two fingerprints that agree.                  *)
LEMMA ReceiptsTellStep ==
  ASSUME IInv, Next, NEW r \in Runs
  PROVE  Tells(r)'
<1>0. TypeOK /\ Base /\ Tells(r) /\ SecondReads(r)
  BY DEF IInv, Base, ReceiptsTell, RunsTrack
<1>1. CASE receipts[r] # None
  <2>1. /\ receipts'[r] = receipts[r]
        /\ entry'[r] = entry[r] /\ before'[r] = before[r]
        /\ outcome'[r] = outcome[r] /\ exposed'[r] = exposed[r]
    BY <1>0, <1>1, ReceiptsImmutable
  <2> QED
    BY <1>0, <2>1 DEF Tells, Covered
<1>2. CASE receipts[r] = None /\ ~SaveReceipt(r)
  <2>1. ASSUME Environment
        PROVE  receipts'[r] = None
    BY <1>2, <2>1, EnvironmentFrame
  <2>2. ASSUME NEW g \in Gates, StartGate(g) \/ GateWork(g)
        PROVE  receipts'[r] = None
    BY <1>0, <1>2, <2>2, GateFrame DEF store
  <2>3. ASSUME NEW o \in Runs \ {r}, RunStep(o)
        PROVE  receipts'[r] = None
    BY <1>0, <1>2, <2>3, RunFrame
  <2>4. ASSUME RunStep(r)
        PROVE  receipts'[r] = None
    BY <1>2, <2>4 DEF RunStep, StartRun, ListBefore, ReadRelevant, StartVerifier,
         EndVerifier, ListAfter, RemoveLatest, PublishLatest, FailRun, store
  <2> QED
    BY <2>1, <2>2, <2>3, <2>4 DEF Next, Tells
<1>3. CASE SaveReceipt(r)
  <2>1. /\ pc[r] = "readAfter" /\ todo[r] = {}
        /\ UNCHANGED <<entry, before, outcome, exposed>>
        /\ receipts'[r] =
             [check |-> job[r], contract |-> entry[r].contract,
              globs |-> entry[r].globs, seen |-> obs[r],
              verdict |-> Verdict(outcome[r], before[r] # obs[r])]
    BY <1>0, <1>3 DEF SaveReceipt, run, TypeOK
  <2>2. ASSUME Verdict(outcome[r], before[r] # obs[r]) = "PASS"
        PROVE  outcome[r] = "zero" /\ before[r] = obs[r]
    BY <2>2 DEF Verdict
  <2>3. ASSUME before[r] = obs[r], NEW f \in Covered(r)
        PROVE  exposed[r][f] = {Held(before[r][f])}
    BY <1>0, <2>1, <2>3 DEF SecondReads
  <2> QED
    BY <2>1, <2>2, <2>3 DEF Tells, Covered
<1> QED
  BY <1>1, <1>2, <1>3

-----------------------------------------------------------------------------
(* What a gate reads it can compare with what was there when it began.     *)

LEMMA EarlierFrame ==
  ASSUME NEW g \in Gates, NEW r \in Runs, Earlier(g, r),
         pc'[r] \in Started \cup {"failed"}, Counts(r)' => Counts(r),
         before'[r] = before[r], entry'[r] = entry[r],
         atStart'[g] = atStart[g], gcfg'[g] = gcfg[g],
         awaiting'[g] = awaiting[g], cache'[g] = cache[g],
         pc'[g] = pc[g], todo'[g] = todo[g], obs'[g] = obs[g],
         Counts(r) => FilesAgree(g, r)'
  PROVE  Earlier(g, r)'
<1>1. ASSUME Counts(r)
      PROVE  ReadsAgree(g, r)' /\ CacheAgrees(g, r)'
  <2>1. ReadsAgree(g, r)'
    BY <1>1 DEF Earlier, ReadsAgree, Covered, Agrees, Turn
  <2>2. CacheAgrees(g, r)'
    BY <1>1 DEF Earlier, CacheAgrees, Covered, Agrees
  <2> QED
    BY <2>1, <2>2
<1> QED
  BY <1>1 DEF Earlier

LEMMA EarlierFilesFrame ==
  ASSUME NEW g \in Gates, NEW r \in Runs, FilesAgree(g, r),
         content' = content, before'[r] = before[r], entry'[r] = entry[r],
         atStart'[g] = atStart[g]
  PROVE  FilesAgree(g, r)'
BY DEF FilesAgree, Covered, Agrees

(* What a run that has started goes through.                               *)
LEMMA StartedRun ==
  ASSUME Base, NEW r \in Runs, RunStep(r), pc[r] \in Started \cup {"failed"}
  PROVE  /\ pc'[r] \in Started \cup {"failed"}
         /\ Counts(r)' => Counts(r)
         /\ before'[r] = before[r] /\ entry'[r] = entry[r]
<1> USE ProcsSplit DEF Base, TypeOK, Started, Counts, run, store
<1>1. CASE \E o \in Outcomes : EndVerifier(r, o)
  BY <1>1 DEF EndVerifier
<1>2. CASE ListAfter(r)
  BY <1>2 DEF ListAfter
<1>3. CASE ReadRelevant(r)
  BY <1>3 DEF ReadRelevant
<1>4. CASE SaveReceipt(r)
  BY <1>4 DEF SaveReceipt
<1>5. CASE RemoveLatest(r)
  BY <1>5 DEF RemoveLatest
<1>6. CASE PublishLatest(r)
  BY <1>6 DEF PublishLatest
<1>7. CASE FailRun(r)
  BY <1>7 DEF FailRun
<1>8. ~ \E c \in Checks : StartRun(r, c)
  BY DEF StartRun
<1>9. ~ListBefore(r) /\ ~StartVerifier(r)
  BY DEF ListBefore, StartVerifier
<1> QED
  BY <1>1, <1>2, <1>3, <1>4, <1>5, <1>6, <1>7, <1>8, <1>9 DEF RunStep

LEMMA EarlierRunStep ==
  ASSUME IInv, NEW o \in Runs, RunStep(o), NEW g \in Gates, NEW r \in earlier[g]
  PROVE  Earlier(g, r)'
<1>0. TypeOK /\ Base /\ Earlier(g, r) /\ r \in Runs
  BY DEF IInv, Base, GatesTrack, TypeOK
<1>1. /\ UNCHANGED <<content, atStart, gcfg, awaiting, cache>>
      /\ pc'[g] = pc[g] /\ todo'[g] = todo[g] /\ obs'[g] = obs[g]
  BY <1>0, RunFrame, ProcsSplit DEF worktree, gate
<1>2. /\ pc'[r] \in Started \cup {"failed"}
      /\ Counts(r)' => Counts(r)
      /\ before'[r] = before[r] /\ entry'[r] = entry[r]
  <2>1. CASE o = r
    BY <1>0, <2>1, StartedRun DEF Earlier
  <2>2. CASE o # r
    BY <1>0, <2>2, RunFrame, ProcsSplit DEF Earlier, Counts
  <2> QED
    BY <2>1, <2>2
<1>3. Counts(r) => FilesAgree(g, r)'
  BY <1>0, <1>1, <1>2, EarlierFilesFrame DEF Earlier
<1> QED
  BY <1>0, <1>1, <1>2, <1>3, EarlierFrame

LEMMA EarlierEnvironment ==
  ASSUME IInv, ~Reverts, Environment, NEW g \in Gates, NEW r \in earlier[g]
  PROVE  Earlier(g, r)'
<1>0. TypeOK /\ Base /\ Earlier(g, r) /\ r \in Runs /\ VerifierSaw(r)
  BY DEF IInv, Base, GatesTrack, TypeOK, RunsTrack
<1>1. UNCHANGED <<pc, todo, obs, before, entry, receipts,
                  atStart, gcfg, awaiting, cache>>
  BY EnvironmentFrame DEF reader, run, gate
<1>2. Counts(r)' = Counts(r) /\ pc'[r] \in Started \cup {"failed"}
  BY <1>0, <1>1 DEF Counts, Earlier
<1>3. Counts(r) => FilesAgree(g, r)'
  <2>1. CASE content' = content
    BY <1>0, <1>1, <2>1, EarlierFilesFrame DEF Earlier
  <2>2. ASSUME NEW h \in Files, NEW c \in Contents, EditFile(h, c), Counts(r)
        PROVE  FilesAgree(g, r)'
    <3> SUFFICES ASSUME NEW f \in Covered(r),
                        Held(content'[f]) = Held(before[r][f])
                 PROVE  atStart[g][f] = Held(before[r][f])
      BY <1>1 DEF FilesAgree, Covered, Agrees
    <3>1. f \in Files
      BY <1>0, <2>2, CoveredFiles, CountsPhase
    <3>2. Held(before[r][f]) \in Known(f)
      BY <1>0, <2>2 DEF VerifierSaw
    <3>3. CASE f = h
      <4>1. content'[f] = c /\ c \notin Known(f) /\ Held(c) = c
        BY <1>0, <2>2, <3>3, EditIsNew, EvidenceAssumption DEF Held
      <4> QED
        BY <3>2, <4>1
    <3>4. CASE f # h
      <4>1. content'[f] = content[f]
        BY <1>0, <2>2, <3>1, <3>4, EditIsNew
      <4> QED
        BY <1>0, <2>2, <4>1 DEF Earlier, FilesAgree, Agrees
    <3> QED
      BY <3>3, <3>4
  <2> QED
    BY <2>1, <2>2 DEF Environment, EditConfig, LoseLog, worktree
<1> QED
  BY <1>0, <1>1, <1>2, <1>3, EarlierFrame

LEMMA EarlierStart ==
  ASSUME IInv, NEW g \in Gates, StartGate(g), NEW r \in earlier'[g]
  PROVE  Earlier(g, r)'
<1>0. TypeOK /\ Base /\ CacheStartsEmpty(g)
  BY DEF IInv, Base, GatesTrack
<1>1. /\ pc[g] = "idle" /\ pc'[g] = "load"
      /\ UNCHANGED <<content, before, entry, receipts, cache>>
      /\ atStart'[g] = content
      /\ earlier'[g] = {o \in Runs : pc[o] \in Started}
  BY <1>0, ProcsSplit DEF StartGate, TypeOK, worktree, run, store
<1>2. r \in Runs /\ pc'[r] \in Started /\ Counts(r)
  BY <1>0, <1>1, ProcsSplit DEF StartGate, TypeOK, Counts
<1>3. Covered(r) \subseteq Files
  BY <1>0, <1>2, CoveredFiles, CountsPhase
<1>4. FilesAgree(g, r)'
  <2> SUFFICES ASSUME NEW f \in Covered(r), Held(content[f]) = Held(before[r][f])
               PROVE  content[f] = Held(before[r][f])
    BY <1>1 DEF FilesAgree, Covered, Agrees
  <2> QED
    BY <1>0, <1>3, HeldContent
<1>5. ReadsAgree(g, r)'
  BY <1>1 DEF ReadsAgree
<1>6. CacheAgrees(g, r)'
  BY <1>0, <1>1 DEF CacheAgrees, CacheStartsEmpty
<1> QED
  BY <1>2, <1>4, <1>5, <1>6 DEF Earlier

LEMMA EarlierWork ==
  ASSUME IInv, NEW g \in Gates, GateWork(g), NEW r \in earlier[g]
  PROVE  Earlier(g, r)'
<1>0. TypeOK /\ Base /\ Earlier(g, r) /\ r \in Runs /\ g \in Procs
  BY ProcsSplit DEF IInv, Base, GatesTrack, TypeOK
<1>1. /\ UNCHANGED <<content, before, entry, receipts>>
      /\ pc'[r] = pc[r] /\ pc[r] \in Started \cup {"failed"}
      /\ Counts(r)' = Counts(r)
  BY <1>0, GateFrame, ProcsSplit DEF worktree, run, store, Earlier, Counts
<1>2. atStart' = atStart /\ gcfg' = gcfg /\ pc[g] # "idle"
  BY DEF GateWork, GateOverBudget, GateNoReceipt, GateLoadOther, GateLoadPass,
     GateContractChanged, GateList, GateCache, GateCannotRead, GateCompare,
     GateRead, GateDecide, GateRemember, gate
<1> SUFFICES ASSUME Counts(r)
             PROVE  FilesAgree(g, r)' /\ ReadsAgree(g, r)' /\ CacheAgrees(g, r)'
  BY <1>1 DEF Earlier
<1>3. FilesAgree(g, r)'
  BY <1>0, <1>1, <1>2, EarlierFilesFrame DEF Earlier
<1>4. Covered(r) \subseteq Files
  BY <1>0, CoveredFiles, CountsPhase
<1>5. ASSUME cache' = cache
      PROVE  CacheAgrees(g, r)'
  BY <1>0, <1>1, <1>2, <1>5 DEF Earlier, CacheAgrees, Covered, Agrees
<1>6. ASSUME pc'[g] # "read"
      PROVE  ReadsAgree(g, r)'
  BY <1>6 DEF ReadsAgree
<1>7. ASSUME NEW c \in Checks, GateList(g, c)
      PROVE  ReadsAgree(g, r)' /\ CacheAgrees(g, r)'
  <2>1. /\ UNCHANGED <<awaiting, cache>> /\ ListFiles(g, gcfg[g][c].globs)
        /\ Turn(g, c)
    BY <1>7 DEF GateList, gate
  <2>2. gcfg[g][c].globs \in Globs
    BY <1>0, <1>2, <2>1, GateEntry
  <2>3. ReadsAgree(g, r)'
    <3> SUFFICES ASSUME NEW d \in Checks, Turn(g, d)', NEW f \in Covered(r),
                        f \in Matches[gcfg[g][d].globs] \ todo'[g]
                 PROVE  Agrees(g, r, f, obs[g][f])'
      BY <1>1, <1>2 DEF ReadsAgree, Covered
    <3>1. d = c
      BY <2>1, TurnUnique DEF Turn
    <3>2. Held(obs'[g][f]) = content[f]
      BY <1>0, <2>1, <2>2, <3>1, ListedIsThere
    <3>3. Agrees(g, r, f, content[f]) /\ Held(content[f]) = content[f]
      BY <1>0, <1>4, HeldContent DEF Earlier, FilesAgree
    <3> QED
      BY <1>1, <1>2, <3>2, <3>3 DEF Agrees
  <2> QED
    BY <1>5, <2>1, <2>3
<1>8. CASE GateRead(g)
  <2>1. UNCHANGED <<pc, awaiting, cache>> /\ ReadNext(g)
    BY <1>8 DEF GateRead, gate
  <2>2. ReadsAgree(g, r)'
    <3> SUFFICES ASSUME pc[g] = "read", NEW d \in Checks, Turn(g, d),
                        NEW f \in Covered(r),
                        f \in Matches[gcfg[g][d].globs] \ todo'[g]
                 PROVE  Agrees(g, r, f, obs'[g][f])
      BY <1>1, <1>2, <2>1 DEF ReadsAgree, Covered, Turn, Agrees
    <3>1. CASE Held(obs'[g][f]) = content[f]
      <4>1. Agrees(g, r, f, content[f]) /\ Held(content[f]) = content[f]
        BY <1>0, <1>4, HeldContent DEF Earlier, FilesAgree
      <4> QED
        BY <3>1, <4>1 DEF Agrees
    <3>2. CASE f \notin todo[g] /\ obs'[g][f] = obs[g][f]
      BY <1>0, <3>2 DEF Earlier, ReadsAgree
    <3> QED
      BY <1>0, <1>4, <2>1, <3>1, <3>2, ReadIsThere
  <2>3. CacheAgrees(g, r)'
    BY <1>5, <2>1
  <2> QED
    BY <1>3, <2>2, <2>3
<1>9. ASSUME NEW c \in Checks, NEW what \in Taken, GateRemember(g, c, what),
             Turn(g, c), pc[g] = "read",
             what.ok => what.seen = obs[g] /\ todo[g] = {}
      PROVE  CacheAgrees(g, r)'
  <2>1. gcfg[g][c].globs \in Globs
    BY <1>0, <1>9, GateEntry
  <2>2. /\ cache'[g][gcfg[g][c].globs] = what
        /\ \A p \in Globs \ {gcfg[g][c].globs} : cache'[g][p] = cache[g][p]
    BY <1>0, <1>9, <2>1 DEF GateRemember, TypeOK
  <2> SUFFICES ASSUME NEW p \in Globs, cache'[g][p] # None, cache'[g][p].ok,
                      NEW f \in Covered(r), f \in Matches[p]
               PROVE  Agrees(g, r, f, cache'[g][p].seen[f])
    BY <1>1, <1>2 DEF CacheAgrees, Covered, Agrees
  <2>3. CASE p # gcfg[g][c].globs
    BY <1>0, <2>2, <2>3 DEF Earlier, CacheAgrees
  <2>4. CASE p = gcfg[g][c].globs
    BY <1>0, <1>9, <2>2, <2>4 DEF Earlier, ReadsAgree
  <2> QED
    BY <2>3, <2>4
<1>10. ASSUME NEW c \in Checks, GateCache(g, c)
       PROVE  ReadsAgree(g, r)' /\ CacheAgrees(g, r)'
  <2>1. [ok |-> TRUE, seen |-> obs[g]] \in Taken
    BY <1>0 DEF Taken, TypeOK
  <2>2. pc'[g] = "bind"
    BY <1>0, <1>10 DEF GateCache, GateRemember, TypeOK
  <2> QED
    BY <1>6, <1>9, <1>10, <2>1, <2>2 DEF GateCache
<1>11. ASSUME NEW c \in Checks, GateCannotRead(g, c)
       PROVE  ReadsAgree(g, r)' /\ CacheAgrees(g, r)'
  <2>1. [ok |-> FALSE, seen |-> Nothing] \in Taken
    BY DEF Nothing, Observation, Taken
  <2>2. pc'[g] = "bind"
    BY <1>0, <1>11 DEF GateCannotRead, GateRemember, TypeOK
  <2> QED
    BY <1>6, <1>9, <1>11, <2>1, <2>2 DEF GateCannotRead
<1>12. ASSUME NEW c \in Checks,
              \/ GateOverBudget(g, c) \/ GateNoReceipt(g, c)
              \/ GateLoadOther(g, c) \/ GateLoadPass(g, c)
              \/ GateContractChanged(g, c) \/ GateCompare(g, c)
       PROVE  ReadsAgree(g, r)' /\ CacheAgrees(g, r)'
  <2>1. cache' = cache /\ pc'[g] # "read"
    BY <1>0, <1>12 DEF GateOverBudget, GateNoReceipt, GateLoadOther, GateLoadPass,
       GateContractChanged, GateCompare, Conclude, TypeOK
  <2> QED
    BY <1>5, <1>6, <2>1
<1>13. CASE GateDecide(g)
  <2>1. cache' = cache /\ pc'[g] # "read"
    BY <1>0, <1>13 DEF GateDecide, TypeOK
  <2> QED
    BY <1>3, <1>5, <1>6, <2>1
<1> QED
  BY <1>3, <1>7, <1>8, <1>10, <1>11, <1>12, <1>13 DEF GateWork

LEMMA GatesTrackStep ==
  ASSUME IInv, ~Reverts, Next, NEW g \in Gates
  PROVE  CacheStartsEmpty(g)' /\ \A r \in earlier'[g] : Earlier(g, r)'
<1>0. TypeOK /\ Base /\ CacheStartsEmpty(g) /\ earlier[g] \subseteq Runs
      /\ \A r \in earlier[g] : Earlier(g, r)
  BY DEF IInv, Base, GatesTrack, TypeOK
<1>1. CASE Environment
  <2>1. UNCHANGED <<pc, cache, earlier>>
    BY <1>1, EnvironmentFrame DEF gate
  <2> QED
    BY <1>0, <1>1, <2>1, EarlierEnvironment DEF CacheStartsEmpty
<1>2. ASSUME NEW o \in Runs, RunStep(o)
      PROVE  CacheStartsEmpty(g)' /\ \A r \in earlier'[g] : Earlier(g, r)'
  <2>1. UNCHANGED <<cache, earlier>> /\ pc'[g] = pc[g]
    BY <1>0, <1>2, RunFrame, ProcsSplit DEF gate
  <2> QED
    BY <1>0, <1>2, <2>1, EarlierRunStep DEF CacheStartsEmpty
<1>3. ASSUME NEW h \in Gates \ {g}, StartGate(h) \/ GateWork(h)
      PROVE  CacheStartsEmpty(g)' /\ \A r \in earlier'[g] : Earlier(g, r)'
  <2>1. /\ UNCHANGED <<content, before, entry, receipts>>
        /\ pc'[g] = pc[g] /\ todo'[g] = todo[g] /\ obs'[g] = obs[g]
        /\ gcfg'[g] = gcfg[g] /\ awaiting'[g] = awaiting[g]
        /\ cache'[g] = cache[g] /\ atStart'[g] = atStart[g]
        /\ earlier'[g] = earlier[g]
        /\ \A r \in Runs : pc'[r] = pc[r]
    BY <1>0, <1>3, GateFrame, ProcsSplit DEF worktree, run, store
  <2>2. ASSUME NEW r \in earlier[g]
        PROVE  Earlier(g, r)'
    <3>1. /\ r \in Runs /\ Counts(r)' = Counts(r)
          /\ pc'[r] \in Started \cup {"failed"}
      BY <1>0, <2>1 DEF Counts, Earlier
    <3>2. Counts(r) => FilesAgree(g, r)'
      BY <1>0, <2>1, <3>1, EarlierFilesFrame DEF Earlier
    <3> QED
      BY <1>0, <2>1, <3>1, <3>2, EarlierFrame
  <2> QED
    BY <1>0, <2>1, <2>2 DEF CacheStartsEmpty
<1>4. CASE StartGate(g)
  <2>1. pc'[g] = "load"
    BY <1>0, <1>4, ProcsSplit DEF StartGate, TypeOK
  <2> QED
    BY <1>4, <2>1, EarlierStart DEF CacheStartsEmpty
<1>5. CASE GateWork(g)
  <2>1. earlier' = earlier
    BY <1>5 DEF GateWork, GateOverBudget, GateNoReceipt, GateLoadOther, GateLoadPass,
       GateContractChanged, GateList, GateCache, GateCannotRead, GateCompare,
       GateRead, GateDecide, GateRemember, gate
  <2>2. pc'[g] # "idle"
    BY <1>0, <1>5, ProcsSplit
       DEF GateWork, GateOverBudget, GateNoReceipt, GateLoadOther, GateLoadPass,
       GateContractChanged, GateList, GateCache, GateCannotRead, GateCompare,
       GateRead, GateDecide, GateRemember, Conclude, TypeOK
  <2> QED
    BY <1>5, <2>1, <2>2, EarlierWork DEF CacheStartsEmpty
<1> QED
  BY <1>1, <1>2, <1>3, <1>4, <1>5 DEF Next

-----------------------------------------------------------------------------
(* What a gate counts as a pass is vouched for, and stays so.              *)

LEMMA VouchedStays ==
  ASSUME IInv, Next, NEW g \in Gates, NEW c \in Checks, Vouched(g, c),
         gcfg'[g] = gcfg[g], held'[g][c] = held[g][c],
         earlier'[g] = earlier[g], atStart'[g] = atStart[g]
  PROVE  Vouched(g, c)'
<1>1. held[g][c] \in Runs /\ receipts[held[g][c]] # None /\ Base
  BY DEF Vouched, IInv, Base
<1>2. /\ receipts'[held[g][c]] = receipts[held[g][c]]
      /\ outcome'[held[g][c]] = outcome[held[g][c]]
      /\ exposed'[held[g][c]] = exposed[held[g][c]]
  BY <1>1, ReceiptsImmutable
<1> QED
  BY <1>2 DEF Vouched

(* A gate that finds a receipt fresh has the evidence.                     *)
LEMMA FreshIsVouched ==
  ASSUME IInv, NEW g \in Gates, NEW c \in Checks, pc[g] = "bind", Turn(g, c),
         SameContract(g, c), cache[g][gcfg[g][c].globs] # None, Fresh(g, c)
  PROVE  Vouched(g, c)
<1> DEFINE r == held[g][c]
           p == gcfg[g][c].globs
<1>0. TypeOK /\ Base
  BY DEF IInv, Base
<1>1. /\ held[g][c] # None /\ receipts[r] # None
      /\ receipts[r].verdict = "PASS" /\ receipts[r].check = c
  BY <1>0 DEF Base, GatesWellFormed
<1>2. r \in Runs /\ p \in Globs
  BY <1>0, <1>1, GateEntry DEF TypeOK
<1>3. Tells(r)
  BY <1>2 DEF IInv, ReceiptsTell
<1>4. /\ receipts[r].contract = gcfg[g][c].contract
      /\ receipts[r].globs = p
      /\ cache[g][p].ok /\ cache[g][p].seen = receipts[r].seen
  BY DEF SameContract, Fresh
<1>5. /\ outcome[r] = "zero" /\ receipts[r].seen = before[r]
      /\ \A f \in Matches[p] : exposed[r][f] = {Held(before[r][f])}
      /\ Covered(r) = Matches[p]
  BY <1>1, <1>3, <1>4 DEF Tells, Covered
<1>6. ASSUME NEW f \in Matches[p]
      PROVE  Held(before[r][f]) \in Contents
  <2>1. f \in Files
    BY <1>2, EvidenceAssumption
  <2>2. before[r][f] \in Contents \cup {Unlisted}
    BY <1>0, <1>2, <2>1 DEF TypeOK, Observation
  <2> QED
    BY <2>2, EvidenceAssumption DEF Held
<1>7. ASSUME r \in earlier[g], NEW f \in Matches[p]
      PROVE  exposed[r][f] = {atStart[g][f]}
  <2>1. CacheAgrees(g, r)
    BY <1>1, <1>2, <1>7 DEF IInv, GatesTrack, Earlier, Counts
  <2>2. Agrees(g, r, f, before[r][f])
    BY <1>2, <1>4, <1>5, <1>7, <2>1 DEF CacheAgrees
  <2> QED
    BY <1>5, <1>7, <2>2 DEF Agrees
<1> QED
  BY <1>1, <1>2, <1>4, <1>5, <1>6, <1>7 DEF Vouched

Passes(g, c) ==
  results[g][c] = "pass" => pc[g] # "idle" /\ c \notin awaiting[g] /\ Vouched(g, c)

(* One check of a gate at work, whether it is this one's turn or not.      *)
LEMMA PassesWork ==
  ASSUME IInv, Next, NEW g \in Gates, GateWork(g), NEW c \in Checks
  PROVE  Passes(g, c)'
<1>0. TypeOK /\ Base /\ Passes(g, c)
  BY DEF IInv, Base, PassesVouched, Passes
<1>1. /\ pc'[g] # "idle"
      /\ gcfg' = gcfg /\ earlier' = earlier /\ atStart' = atStart
      /\ awaiting'[g] \subseteq awaiting[g]
  BY <1>0, ProcsSplit
     DEF GateWork, GateOverBudget, GateNoReceipt, GateLoadOther, GateLoadPass,
     GateContractChanged, GateList, GateCache, GateCannotRead, GateCompare,
     GateRead, GateDecide, GateRemember, Conclude, TypeOK, gate
<1>2. ASSUME held'[g][c] = held[g][c], results'[g][c] = results[g][c]
      PROVE  Passes(g, c)'
  BY <1>0, <1>1, <1>2, VouchedStays DEF Passes
<1>3. ASSUME results'[g][c] # "pass"
      PROVE  Passes(g, c)'
  BY <1>3 DEF Passes
<1>4. ASSUME NEW d \in Checks, GateOverBudget(g, d)
      PROVE  Passes(g, c)'
  <2>1. held' = held /\ (results'[g][c] = results[g][c] \/ results'[g][c] = "blocked")
    BY <1>0, <1>4 DEF GateOverBudget, TypeOK
  <2> QED
    BY <1>2, <1>3, <2>1
<1>5. ASSUME NEW d \in Checks, GateNoReceipt(g, d) \/ GateContractChanged(g, d)
      PROVE  Passes(g, c)'
  <2>1. held' = held /\ (results'[g][c] = results[g][c] \/ results'[g][c] = "blocked")
    BY <1>0, <1>5 DEF GateNoReceipt, GateContractChanged, Conclude, TypeOK
  <2> QED
    BY <1>2, <1>3, <2>1
<1>6. ASSUME NEW d \in Checks, GateLoadOther(g, d)
      PROVE  Passes(g, c)'
  <2>1. CASE c = d
    <3>1. results'[g][c] \in {"fail", "inconclusive"}
      BY <1>0, <1>6, <2>1 DEF GateLoadOther, Conclude, TypeOK
    <3> QED
      BY <1>3, <3>1
  <2>2. CASE c # d
    <3>1. held'[g][c] = held[g][c] /\ results'[g][c] = results[g][c]
      BY <1>0, <1>6, <2>2 DEF GateLoadOther, Conclude, TypeOK
    <3> QED
      BY <1>2, <3>1
  <2> QED
    BY <2>1, <2>2
<1>7. ASSUME NEW d \in Checks, GateLoadPass(g, d)
      PROVE  Passes(g, c)'
  <2>1. CASE c = d
    <3>1. results'[g][c] = "none"
      BY <1>0, <1>7, <2>1 DEF GateLoadPass, Turn, Base, GatesWellFormed
    <3> QED
      BY <1>3, <3>1
  <2>2. CASE c # d
    <3>1. held'[g][c] = held[g][c] /\ results'[g][c] = results[g][c]
      BY <1>0, <1>7, <2>2 DEF GateLoadPass, TypeOK
    <3> QED
      BY <1>2, <3>1
  <2> QED
    BY <2>1, <2>2
<1>8. ASSUME NEW d \in Checks, GateCompare(g, d)
      PROVE  Passes(g, c)'
  <2>1. CASE c # d
    <3>1. held'[g][c] = held[g][c] /\ results'[g][c] = results[g][c]
      BY <1>0, <1>8, <2>1 DEF GateCompare, Conclude, TypeOK
    <3> QED
      BY <1>2, <3>1
  <2>2. CASE c = d /\ Fresh(g, c)
    <3>1. Vouched(g, c)
      BY <1>8, <2>2, FreshIsVouched DEF GateCompare
    <3>2. held' = held /\ c \notin awaiting'[g]
      BY <1>0, <1>8, <2>2 DEF GateCompare, Conclude, TypeOK
    <3>3. Vouched(g, c)'
      BY <1>1, <3>1, <3>2, VouchedStays
    <3> QED
      BY <1>1, <3>2, <3>3 DEF Passes
  <2>3. CASE c = d /\ ~Fresh(g, c)
    <3>1. results'[g][c] # "pass"
      BY <1>0, <1>8, <2>3 DEF GateCompare, Conclude, TypeOK
    <3> QED
      BY <1>3, <3>1
  <2> QED
    BY <2>1, <2>2, <2>3
<1>9. ASSUME NEW d \in Checks, GateList(g, d) \/ GateCache(g, d) \/ GateCannotRead(g, d)
      PROVE  Passes(g, c)'
  BY <1>2, <1>9 DEF GateList, GateCache, GateCannotRead, GateRemember, gate
<1>10. CASE GateRead(g) \/ GateDecide(g)
  BY <1>2, <1>10 DEF GateRead, GateDecide, gate
<1> QED
  BY <1>4, <1>5, <1>6, <1>7, <1>8, <1>9, <1>10 DEF GateWork

(* The record of gate g does not change unless g takes a step.             *)
LEMMA GateUntouched ==
  ASSUME Base, Next, NEW g \in Gates, ~StartGate(g), ~GateWork(g)
  PROVE  /\ pc'[g] = pc[g]
         /\ gcfg'[g] = gcfg[g] /\ awaiting'[g] = awaiting[g]
         /\ held'[g] = held[g] /\ results'[g] = results[g]
         /\ decision'[g] = decision[g]
         /\ atStart'[g] = atStart[g] /\ earlier'[g] = earlier[g]
<1>1. CASE Environment
  BY <1>1, EnvironmentFrame DEF gate
<1>2. ASSUME NEW r \in Runs, RunStep(r)
      PROVE  UNCHANGED gate /\ pc'[g] = pc[g]
  BY <1>2, RunFrame, ProcsSplit
<1>3. ASSUME NEW h \in Gates \ {g}, StartGate(h) \/ GateWork(h)
      PROVE  /\ pc'[g] = pc[g]
             /\ gcfg'[g] = gcfg[g] /\ awaiting'[g] = awaiting[g]
             /\ held'[g] = held[g] /\ results'[g] = results[g]
             /\ decision'[g] = decision[g]
             /\ atStart'[g] = atStart[g] /\ earlier'[g] = earlier[g]
  BY <1>3, GateFrame, ProcsSplit
<1> QED
  BY <1>1, <1>2, <1>3 DEF Next, gate

LEMMA PassesStep ==
  ASSUME IInv, Next, NEW g \in Gates, NEW c \in Checks
  PROVE  Passes(g, c)'
<1>0. TypeOK /\ Base /\ Passes(g, c)
  BY DEF IInv, Base, PassesVouched, Passes
<1>1. CASE GateWork(g)
  BY <1>1, PassesWork
<1>2. CASE StartGate(g)
  <2>1. results[g][c] = "none" /\ results' = results
    BY <1>0, <1>2 DEF StartGate, Base, GatesWellFormed
  <2> QED
    BY <2>1 DEF Passes
<1>3. CASE ~StartGate(g) /\ ~GateWork(g)
  <2>1. /\ pc'[g] = pc[g] /\ results'[g] = results[g]
        /\ awaiting'[g] = awaiting[g]
    BY <1>0, <1>3, GateUntouched
  <2>2. Vouched(g, c) => Vouched(g, c)'
    BY <1>0, <1>3, GateUntouched, VouchedStays
  <2> QED
    BY <1>0, <2>1, <2>2 DEF Passes
<1> QED
  BY <1>1, <1>2, <1>3

(* An answer of PASS counts every required check as a pass.                *)
PassVerdict(g) ==
  decision[g] # None /\ decision[g].verdict = "PASS" =>
    \A c \in Required(gcfg[g]) : results[g][c] = "pass"

LEMMA PassVerdictStep ==
  ASSUME IInv, Next, NEW g \in Gates
  PROVE  PassVerdict(g)'
<1>0. /\ TypeOK /\ Base /\ PassVerdict(g)
      /\ decision[g] # None => pc[g] = "done"
  BY DEF IInv, Base, PassVerdicts, PassVerdict, GatesWellFormed
<1>1. CASE GateDecide(g)
  <2>1. /\ pc[g] = "load" /\ awaiting[g] = {}
        /\ UNCHANGED <<gcfg, results>>
    BY <1>1 DEF GateDecide
  <2> SUFFICES ASSUME decision'[g].verdict = "PASS", NEW c \in Required(gcfg[g])
               PROVE  results[g][c] = "pass"
    BY <2>1 DEF PassVerdict
  <2>2. \A d \in Checks : results[g][d] \notin {"blocked", "stale", "fail", "inconclusive"}
    BY <1>0, <1>1 DEF GateDecide, TypeOK
  <2>3. gcfg[g] \in Configs
    BY <1>0, <2>1 DEF Base, GatesWellFormed
  <2>4. c \in Checks
    BY <2>3, ConfigEntry DEF Required
  <2>5. results[g][c] # "none"
    BY <1>0, <2>1, <2>2 DEF Base, GatesWellFormed
  <2>6. results[g][c] \in Conclusions
    BY <1>0, <2>4 DEF TypeOK
  <2> QED
    BY <2>2, <2>4, <2>5, <2>6 DEF Conclusions
<1>2. CASE GateWork(g) /\ ~GateDecide(g)
  <2>1. decision' = decision /\ pc[g] # "done"
    BY <1>2 DEF GateWork, GateOverBudget, GateNoReceipt, GateLoadOther, GateLoadPass,
       GateContractChanged, GateList, GateCache, GateCannotRead, GateCompare,
       GateRead, GateRemember, gate
  <2> QED
    BY <1>0, <2>1 DEF PassVerdict
<1>3. CASE StartGate(g)
  <2>1. decision' = decision /\ pc[g] # "done"
    BY <1>3 DEF StartGate
  <2> QED
    BY <1>0, <2>1 DEF PassVerdict
<1>4. CASE ~StartGate(g) /\ ~GateWork(g)
  <2>1. /\ decision'[g] = decision[g] /\ gcfg'[g] = gcfg[g]
        /\ results'[g] = results[g]
    BY <1>0, <1>4, GateUntouched
  <2> QED
    BY <1>0, <2>1 DEF PassVerdict
<1> QED
  BY <1>1, <1>2, <1>3, <1>4

-----------------------------------------------------------------------------
LEMMA IInvInit == Init => IInv
<1> SUFFICES ASSUME Init PROVE IInv
  OBVIOUS
<1>1. Base
  BY BaseInit
<1>2. PastIsGone
  BY DEF Init, PastIsGone
<1>3. RunsTrack
  BY ProcsSplit
     DEF Init, RunsTrack, FirstReads, VerifierSaw, SecondReads, Counts, Started
<1>4. ReceiptsTell
  BY DEF Init, ReceiptsTell, Tells
<1>5. GatesTrack
  BY DEF Init, GatesTrack, CacheStartsEmpty
<1>6. PassesVouched
  BY DEF Init, PassesVouched
<1>7. PassVerdicts
  BY DEF Init, PassVerdicts
<1> QED
  BY <1>1, <1>2, <1>3, <1>4, <1>5, <1>6, <1>7 DEF IInv, Base

LEMMA IInvStutter ==
  ASSUME IInv, UNCHANGED vars
  PROVE  IInv'
<1> USE DEF vars, worktree, reader, run, store, gate
<1>1. Base'
  BY BaseStutter DEF IInv, Base
<1>2. PastIsGone'
  BY DEF IInv, PastIsGone
<1>3. ASSUME NEW r \in Runs
      PROVE  Tracks(r)' /\ Tells(r)'
  <2>1. Tracks(r)'
    BY <1>3, RunsTrackFrame DEF IInv, RunsTrack, Tracks
  <2>2. Tells(r)'
    BY <1>3 DEF IInv, ReceiptsTell, Tells, Covered
  <2> QED
    BY <2>1, <2>2
<1>4. ASSUME NEW g \in Gates
      PROVE  CacheStartsEmpty(g)' /\ \A r \in earlier'[g] : Earlier(g, r)'
  <2>1. CacheStartsEmpty(g)'
    BY <1>4 DEF IInv, GatesTrack, CacheStartsEmpty
  <2>2. ASSUME NEW r \in earlier[g]
        PROVE  Earlier(g, r)'
    <3>1. Earlier(g, r) /\ r \in Runs
      BY <1>4, <2>2 DEF IInv, GatesTrack, TypeOK
    <3>2. /\ pc'[r] \in Started \cup {"failed"}
          /\ Counts(r)' = Counts(r)
      BY <3>1 DEF Earlier, Counts
    <3>3. Counts(r) => FilesAgree(g, r)'
      BY <1>4, <3>1, EarlierFilesFrame DEF Earlier
    <3> QED
      BY <1>4, <3>1, <3>2, <3>3, EarlierFrame
  <2> QED
    BY <2>1, <2>2
<1>5. PassesVouched'
  BY DEF IInv, PassesVouched, Vouched
<1>6. PassVerdicts'
  BY DEF IInv, PassVerdicts
<1>7. RunsTrack' /\ ReceiptsTell'
  BY <1>3 DEF RunsTrack, ReceiptsTell, Tracks
<1>8. GatesTrack'
  BY <1>4 DEF GatesTrack
<1> QED
  BY <1>1, <1>2, <1>5, <1>6, <1>7, <1>8 DEF IInv, Base

LEMMA IInvStep ==
  ASSUME IInv, ~Reverts, [Next]_vars
  PROVE  IInv'
<1>1. CASE UNCHANGED vars
  BY <1>1, IInvStutter
<1>2. CASE Next
  <2>1. Base'
    BY <1>2, BaseStep DEF IInv, Base
  <2>2. PastIsGone'
    BY <1>2, PastIsGoneStep
  <2>3. RunsTrack'
    BY <1>2, RunsTrackStep DEF RunsTrack, Tracks
  <2>4. ReceiptsTell'
    BY <1>2, ReceiptsTellStep DEF ReceiptsTell
  <2>5. GatesTrack'
    BY <1>2, GatesTrackStep DEF GatesTrack
  <2>6. PassesVouched'
    BY <1>2, PassesStep DEF PassesVouched, Passes
  <2>7. PassVerdicts'
    BY <1>2, PassVerdictStep DEF PassVerdicts, PassVerdict
  <2> QED
    BY <2>1, <2>2, <2>3, <2>4, <2>5, <2>6, <2>7 DEF IInv, Base
<1> QED
  BY <1>1, <1>2

(* Where no edit puts old content back, the invariant holds throughout.    *)
THEOREM Inductive == ASSUME ~Reverts PROVE Spec => []IInv
<1>1. Init => IInv
  BY IInvInit
<1>2. IInv /\ [Next]_vars => IInv'
  BY IInvStep
<1> QED
  BY <1>1, <1>2, PTL DEF Spec

(* A PASS receipt is bound to the code that passed, in every worktree in   *)
(* which no edit puts old content back: checker.Run compares two           *)
(* fingerprints that are not snapshots, and that is enough.                *)
THEOREM PassBindsHolds == ASSUME ~Reverts PROVE Spec => []PassBinds
<1>1. IInv => PassBinds
  <2> SUFFICES ASSUME IInv, NEW r \in Runs, receipts[r] # None,
                      receipts[r].verdict = "PASS"
               PROVE  /\ outcome[r] = "zero"
                      /\ \A f \in Matches[receipts[r].globs] :
                           exposed[r][f] = {Held(receipts[r].seen[f])}
    BY DEF PassBinds
  <2> QED
    BY DEF IInv, ReceiptsTell, Tells, Covered
<1> QED
  BY <1>1, Inductive, PTL

(* A gate that answers PASS vouches for the worktree, again where no edit  *)
(* puts old content back, for every configuration, any number of runs and  *)
(* gates at work at once, and whatever fails (gate.EvaluateWithBudget).    *)
THEOREM GateSoundHolds == ASSUME ~Reverts PROVE Spec => []GateSound
<1>1. IInv => GateSound
  <2> SUFFICES ASSUME IInv, NEW g \in Gates, decision[g] # None,
                      decision[g].verdict = "PASS", NEW c \in Required(gcfg[g])
               PROVE  Vouched(g, c)
    BY DEF GateSound
  <2>1. results[g][c] = "pass" /\ pc[g] = "done"
    BY DEF IInv, PassVerdicts, GatesWellFormed
  <2>2. gcfg[g] \in Configs
    BY <2>1 DEF IInv, GatesWellFormed
  <2>3. c \in Checks
    BY <2>2, ConfigEntry DEF Required
  <2> QED
    BY <2>1, <2>3 DEF IInv, PassesVouched
<1> QED
  BY <1>1, Inductive, PTL

-----------------------------------------------------------------------------
(* A fingerprint depends on what the files hold, and on nothing else.      *)

(* What any fingerprint says of a path whose content nobody edits.         *)
Recorded(f) == IF content[f] # Absent \/ f \in Tracked THEN content[f] ELSE Unlisted

(* A finished fingerprint of the patterns q, and one that p has begun.     *)
Unedited(seen, q) ==
  \A f \in Files :
    /\ f \notin Matches[q] => seen[f] = Unlisted
    /\ f \in Matches[q] /\ past[f] = {} => seen[f] = Recorded(f)

ReadSoFar(p, q) ==
  \A f \in Files :
    /\ f \notin Matches[q] => f \notin todo[p] /\ obs[p][f] = Unlisted
    /\ f \in Matches[q] /\ past[f] = {} =>
         IF f \in todo[p] THEN content[f] = Recorded(f) ELSE obs[p][f] = Recorded(f)

RunFinds(r) ==
  /\ pc[r] \in {"readBefore", "readAfter"} => ReadSoFar(r, entry[r].globs)
  /\ receipts[r] # None => Unedited(receipts[r].seen, receipts[r].globs)

GateFinds(g) ==
  /\ pc[g] = "read" => \A c \in Checks : Turn(g, c) =>
       ReadSoFar(g, gcfg[g][c].globs) /\ cache[g][gcfg[g][c].globs] = None
  /\ \A q \in Globs : cache[g][q] # None /\ cache[g][q].ok => Unedited(cache[g][q].seen, q)

(* What a gate rejects as stale differs from what it took itself.          *)
StaleDiffers(g) ==
  \A c \in Checks : results[g][c] = "stale" =>
    /\ pc[g] # "idle" /\ c \in Required(gcfg[g]) /\ c \notin awaiting[g]
    /\ held[g][c] # None /\ receipts[held[g][c]] # None
    /\ cache[g][gcfg[g][c].globs] # None
    /\ cache[g][gcfg[g][c].globs].ok
    /\ ~Fresh(g, c)

Finds ==
  /\ Base
  /\ \A r \in Runs : RunFinds(r)
  /\ \A g \in Gates : GateFinds(g) /\ StaleDiffers(g)

LEMMA FindsInit == Init => Finds
<1> SUFFICES ASSUME Init PROVE Finds
  OBVIOUS
<1>1. Base
  BY BaseInit
<1>2. \A r \in Runs : RunFinds(r)
  BY ProcsSplit DEF Init, RunFinds
<1>3. \A g \in Gates : GateFinds(g) /\ StaleDiffers(g)
  BY ProcsSplit DEF Init, GateFinds, StaleDiffers
<1> QED
  BY <1>1, <1>2, <1>3 DEF Finds

(* A path that was never edited has still its content.                     *)
Unmoved == \A f \in Files : past'[f] = {} => past[f] = {} /\ content'[f] = content[f]

LEMMA StepLeavesUnedited == ASSUME Base, Next PROVE Unmoved
<1>0. TypeOK
  BY DEF Base
<1>1. ASSUME NEW f \in Files, NEW c \in Contents, EditFile(f, c) PROVE Unmoved
  BY <1>0, <1>1 DEF EditFile, TypeOK, Unmoved
<1>2. CASE UNCHANGED <<content, past>>
  BY <1>2 DEF Unmoved
<1>3. ASSUME NEW r \in Runs, RunStep(r) PROVE UNCHANGED <<content, past>>
  BY <1>3, RunFrame DEF worktree
<1>4. ASSUME NEW g \in Gates, StartGate(g) \/ GateWork(g) PROVE UNCHANGED <<content, past>>
  BY <1>4, GateFrame DEF worktree
<1>5. ASSUME (\E k \in Configs : EditConfig(k)) \/ (\E r \in Runs : LoseLog(r))
      PROVE  UNCHANGED <<content, past>>
  BY <1>5 DEF EditConfig, LoseLog, worktree
<1> QED
  BY <1>1, <1>2, <1>3, <1>4, <1>5 DEF Next, Environment

LEMMA UneditedStays ==
  ASSUME Unmoved, NEW seen, NEW q, Unedited(seen, q)
  PROVE  Unedited(seen, q)'
BY DEF Unmoved, Unedited, Recorded

LEMMA ReadSoFarStays ==
  ASSUME Unmoved, NEW p \in Procs, NEW q, ReadSoFar(p, q), todo'[p] = todo[p], obs'[p] = obs[p]
  PROVE  ReadSoFar(p, q)'
BY DEF Unmoved, ReadSoFar, Recorded

LEMMA ListFinds ==
  ASSUME TypeOK, NEW p \in Procs, NEW q \in Globs, ListFiles(p, q), UNCHANGED <<content, past>>
  PROVE  ReadSoFar(p, q)'
<1>1. obs'[p] = Nothing /\ todo'[p] = {f \in Matches[q] : content[f] # Absent \/ f \in Tracked}
  BY DEF ListFiles, TypeOK
<1>2. \A f \in Files : Nothing[f] = Unlisted
  BY DEF Nothing
<1> QED
  BY <1>1, <1>2 DEF ReadSoFar, Recorded

LEMMA ReadFinds ==
  ASSUME TypeOK, NEW p \in Procs, NEW q \in Globs, ReadSoFar(p, q), ReadNext(p),
         UNCHANGED <<content, past>>
  PROVE  ReadSoFar(p, q)'
<1>1. PICK f \in todo[p] :
        /\ todo'[p] = todo[p] \ {f}
        /\ obs'[p][f] = content[f]
        /\ \A h \in Files \ {f} : obs'[p][h] = obs[p][h]
  BY ReadNextType
<1>2. f \in Files
  BY DEF TypeOK
<1>3. f \in Matches[q]
  BY <1>1, <1>2 DEF ReadSoFar
<1>4. past[f] = {} => content[f] = Recorded(f)
  BY <1>1, <1>2, <1>3 DEF ReadSoFar
<1> QED
  BY <1>1, <1>2, <1>3, <1>4 DEF ReadSoFar, Recorded

LEMMA AllFound ==
  ASSUME NEW p \in Procs, NEW q, ReadSoFar(p, q), todo[p] = {}
  PROVE  Unedited(obs[p], q)
BY DEF ReadSoFar, Unedited

LEMMA RunFindsStep ==
  ASSUME Base, NEW r \in Runs, RunFinds(r), Next
  PROVE  RunFinds(r)'
<1>0. TypeOK /\ Unmoved /\ r \in Procs
  BY StepLeavesUnedited, ProcsSplit DEF Base
<1>1. ASSUME pc'[r] = pc[r], todo'[r] = todo[r], obs'[r] = obs[r], entry'[r] = entry[r],
             receipts'[r] = receipts[r]
      PROVE  RunFinds(r)'
  BY <1>0, <1>1, UneditedStays, ReadSoFarStays DEF RunFinds
<1>2. CASE Environment
  BY <1>1, <1>2, EnvironmentFrame DEF reader, run
<1>3. ASSUME NEW g \in Gates, StartGate(g) \/ GateWork(g) PROVE RunFinds(r)'
  BY <1>0, <1>1, <1>3, GateFrame, ProcsSplit DEF run, store
<1>4. ASSUME NEW o \in Runs \ {r}, RunStep(o) PROVE RunFinds(r)'
  BY <1>0, <1>1, <1>4, RunFrame
<1>5. CASE RunStep(r)
  <2>1. ASSUME receipts' = receipts
        PROVE  receipts'[r] # None => Unedited(receipts[r].seen, receipts[r].globs)'
    BY <1>0, <2>1, UneditedStays DEF RunFinds
  <2>2. UNCHANGED <<content, past>>
    BY <1>5, RunFrame DEF worktree
  <2>3. CASE ListBefore(r) \/ ListAfter(r)
    <3>1. entry' = entry /\ receipts' = receipts /\ ListFiles(r, entry[r].globs)
          /\ entry[r].globs \in Globs
      BY <2>3, RunEntry DEF ListBefore, ListAfter, run, store
    <3> QED
      BY <1>0, <2>1, <2>2, <3>1, ListFinds DEF RunFinds
  <2>4. CASE ReadRelevant(r)
    <3>1. entry' = entry /\ receipts' = receipts /\ ReadNext(r) /\ entry[r].globs \in Globs
          /\ ReadSoFar(r, entry[r].globs)
      BY <2>4, RunEntry DEF ReadRelevant, run, store, RunFinds
    <3> QED
      BY <1>0, <2>1, <2>2, <3>1, ReadFinds DEF RunFinds
  <2>5. CASE SaveReceipt(r)
    <3>1. /\ pc'[r] = "saved" /\ receipts'[r].globs = entry[r].globs
          /\ receipts'[r].seen = obs[r] /\ todo[r] = {} /\ ReadSoFar(r, entry[r].globs)
      BY <1>0, <2>5 DEF SaveReceipt, RunFinds, TypeOK
    <3>2. Unedited(obs[r], entry[r].globs)
      BY <1>0, <3>1, AllFound
    <3>3. Unedited(receipts[r].seen, receipts[r].globs)'
      BY <2>2, <3>1, <3>2 DEF Unedited, Recorded
    <3> QED
      BY <3>1, <3>3 DEF RunFinds
  <2>6. CASE \/ (\E c \in Checks : StartRun(r, c)) \/ StartVerifier(r)
             \/ (\E o \in Outcomes : EndVerifier(r, o))
             \/ RemoveLatest(r) \/ PublishLatest(r) \/ FailRun(r)
    <3>1. receipts' = receipts /\ pc'[r] \notin {"readBefore", "readAfter"}
      BY <1>0, <2>6 DEF StartRun, StartVerifier, EndVerifier, RemoveLatest, PublishLatest,
                        FailRun, store, TypeOK
    <3> QED
      BY <2>1, <3>1 DEF RunFinds
  <2> QED
    BY <1>5, <2>3, <2>4, <2>5, <2>6 DEF RunStep
<1> QED
  BY <1>2, <1>3, <1>4, <1>5 DEF Next

LEMMA GateFindsStep ==
  ASSUME Base, NEW g \in Gates, GateFinds(g), Next
  PROVE  GateFinds(g)'
<1>0. TypeOK /\ Unmoved /\ g \in Procs
  BY StepLeavesUnedited, ProcsSplit DEF Base
<1>1. ASSUME cache'[g] = cache[g]
      PROVE  \A q \in Globs : cache'[g][q] # None /\ cache'[g][q].ok => Unedited(cache[g][q].seen, q)'
  BY <1>0, <1>1, UneditedStays DEF GateFinds
<1>2. ASSUME cache'[g] = cache[g], pc'[g] # "read" PROVE GateFinds(g)'
  BY <1>1, <1>2 DEF GateFinds
<1>3. ASSUME pc'[g] = pc[g], todo'[g] = todo[g], obs'[g] = obs[g], gcfg'[g] = gcfg[g],
             awaiting'[g] = awaiting[g], cache'[g] = cache[g]
      PROVE  GateFinds(g)'
  BY <1>0, <1>1, <1>3, ReadSoFarStays DEF GateFinds, Turn
<1>4. CASE Environment
  BY <1>3, <1>4, EnvironmentFrame DEF reader, gate
<1>5. ASSUME NEW r \in Runs, RunStep(r) PROVE GateFinds(g)'
  BY <1>0, <1>3, <1>5, RunFrame, ProcsSplit DEF gate
<1>6. ASSUME NEW h \in Gates \ {g}, StartGate(h) \/ GateWork(h) PROVE GateFinds(g)'
  BY <1>0, <1>3, <1>6, GateFrame, ProcsSplit
<1>7. CASE StartGate(g)
  <2>1. cache' = cache /\ pc'[g] = "load"
    BY <1>0, <1>7 DEF StartGate, TypeOK
  <2> QED
    BY <1>2, <2>1
<1>8. CASE GateWork(g)
  <2>1. UNCHANGED <<content, past>>
    BY <1>8, GateFrame DEF worktree
  <2>2. ASSUME NEW c \in Checks, GateList(g, c) PROVE GateFinds(g)'
    <3>1. /\ UNCHANGED <<gcfg, awaiting, cache>> /\ ListFiles(g, gcfg[g][c].globs)
          /\ Turn(g, c) /\ pc[g] # "idle" /\ cache[g][gcfg[g][c].globs] = None
      BY <2>2 DEF GateList, gate
    <3>2. ReadSoFar(g, gcfg[g][c].globs)'
      BY <1>0, <2>1, <3>1, GateEntry, ListFinds
    <3>3. \A d \in Checks : Turn(g, d)' => d = c
      BY <3>1, TurnUnique DEF Turn
    <3> QED
      BY <1>1, <3>1, <3>2, <3>3 DEF GateFinds
  <2>3. CASE GateRead(g)
    <3>1. /\ UNCHANGED <<gcfg, awaiting, cache>> /\ ReadNext(g) /\ pc[g] = "read"
      BY <2>3 DEF GateRead, gate
    <3>2. ASSUME NEW c \in Checks, Turn(g, c)'
          PROVE  ReadSoFar(g, gcfg[g][c].globs)' /\ cache'[g][gcfg[g][c].globs] = None
      <4>1. Turn(g, c)
        BY <3>1, <3>2 DEF Turn
      <4>2. ReadSoFar(g, gcfg[g][c].globs) /\ cache[g][gcfg[g][c].globs] = None
            /\ gcfg[g][c].globs \in Globs
        BY <3>1, <4>1, GateEntry DEF GateFinds
      <4>3. ReadSoFar(g, gcfg[g][c].globs)'
        BY <1>0, <2>1, <3>1, <4>2, ReadFinds
      <4> QED
        BY <3>1, <4>2, <4>3
    <3> QED
      BY <1>1, <3>1, <3>2 DEF GateFinds
  <2>4. ASSUME NEW c \in Checks, NEW what \in Taken, GateRemember(g, c, what), Turn(g, c),
               pc[g] = "read", what.ok => what.seen = obs[g] /\ todo[g] = {}
        PROVE  GateFinds(g)'
    <3>1. gcfg[g][c].globs \in Globs
      BY <2>4, GateEntry
    <3>2. /\ pc'[g] = "bind"
          /\ cache'[g][gcfg[g][c].globs] = what
          /\ \A q \in Globs \ {gcfg[g][c].globs} : cache'[g][q] = cache[g][q]
      BY <1>0, <2>4, <3>1 DEF GateRemember, TypeOK
    <3>3. ASSUME NEW q \in Globs, cache'[g][q] # None, cache'[g][q].ok
          PROVE  Unedited(cache[g][q].seen, q)'
      <4>1. CASE q # gcfg[g][c].globs
        BY <1>0, <3>2, <3>3, <4>1, UneditedStays DEF GateFinds
      <4>2. CASE q = gcfg[g][c].globs
        <5>1. Unedited(obs[g], q)
          BY <1>0, <2>4, <3>2, <3>3, <4>2, AllFound DEF GateFinds
        <5> QED
          BY <2>1, <2>4, <3>2, <3>3, <4>2, <5>1 DEF Unedited, Recorded
      <4> QED
        BY <4>1, <4>2
    <3> QED
      BY <3>2, <3>3 DEF GateFinds
  <2>5. ASSUME NEW c \in Checks, GateCache(g, c) PROVE GateFinds(g)'
    <3>1. [ok |-> TRUE, seen |-> obs[g]] \in Taken
      BY <1>0 DEF Taken, TypeOK
    <3> QED
      BY <2>4, <2>5, <3>1 DEF GateCache
  <2>6. ASSUME NEW c \in Checks, GateCannotRead(g, c) PROVE GateFinds(g)'
    <3>1. [ok |-> FALSE, seen |-> Nothing] \in Taken
      BY DEF Nothing, Observation, Taken
    <3> QED
      BY <2>4, <2>6, <3>1 DEF GateCannotRead
  <2>7. ASSUME NEW c \in Checks,
               \/ GateOverBudget(g, c) \/ GateNoReceipt(g, c)
               \/ GateLoadOther(g, c) \/ GateLoadPass(g, c)
               \/ GateContractChanged(g, c) \/ GateCompare(g, c)
        PROVE  GateFinds(g)'
    <3>1. cache' = cache /\ pc'[g] # "read"
      BY <1>0, <2>7 DEF GateOverBudget, GateNoReceipt, GateLoadOther, GateLoadPass,
         GateContractChanged, GateCompare, Conclude, TypeOK
    <3> QED
      BY <1>2, <3>1
  <2>8. CASE GateDecide(g)
    <3>1. cache' = cache /\ pc'[g] # "read"
      BY <1>0, <2>8 DEF GateDecide, TypeOK
    <3> QED
      BY <1>2, <3>1
  <2> QED
    BY <1>8, <2>2, <2>3, <2>5, <2>6, <2>7, <2>8 DEF GateWork
<1> QED
  BY <1>4, <1>5, <1>6, <1>7, <1>8 DEF Next

(* What a gate has settled it does not look at again.                      *)
LEMMA GateSettles ==
  ASSUME Base, NEW g \in Gates, GateFinds(g), GateWork(g), NEW c \in Checks,
         c \notin awaiting[g], gcfg[g] \in Configs, c \in Required(gcfg[g]),
         cache[g][gcfg[g][c].globs] # None
  PROVE  /\ pc'[g] # "idle" /\ gcfg' = gcfg /\ c \notin awaiting'[g]
         /\ held'[g][c] = held[g][c] /\ results'[g][c] = results[g][c]
         /\ cache'[g][gcfg[g][c].globs] = cache[g][gcfg[g][c].globs]
<1>0. TypeOK /\ g \in Procs
  BY ProcsSplit DEF Base
<1>1. c \in DOMAIN gcfg[g] /\ gcfg[g][c].globs \in Globs
  BY ConfigEntry DEF Required
<1>2. ASSUME NEW d \in Checks, Turn(g, d) PROVE d # c
  BY <1>2 DEF Turn
<1>3. ASSUME NEW d \in Checks, NEW what, Turn(g, d), pc[g] = "read", GateRemember(g, d, what)
      PROVE  /\ UNCHANGED <<gcfg, awaiting, held, results>> /\ pc'[g] = "bind"
             /\ cache'[g][gcfg[g][c].globs] = cache[g][gcfg[g][c].globs]
  <2>1. gcfg[g][d].globs # gcfg[g][c].globs
    BY <1>3 DEF GateFinds
  <2> QED
    BY <1>0, <1>1, <1>3, <2>1 DEF GateRemember, TypeOK
<1>4. CASE \E d \in Checks : GateCache(g, d) \/ GateCannotRead(g, d)
  BY <1>3, <1>4 DEF GateCache, GateCannotRead
<1>5. CASE \E d \in Checks : GateList(g, d)
  BY <1>0, <1>5 DEF GateList, gate, TypeOK
<1>6. ASSUME NEW d \in Checks,
             GateOverBudget(g, d) \/ GateNoReceipt(g, d) \/ GateContractChanged(g, d)
             \/ GateCompare(g, d)
      PROVE  /\ UNCHANGED <<gcfg, held, cache>> /\ pc'[g] # "idle" /\ c \notin awaiting'[g]
             /\ results'[g][c] = results[g][c]
  <2>1. d # c
    BY <1>2, <1>6 DEF GateOverBudget, GateNoReceipt, GateContractChanged, GateCompare
  <2> QED
    BY <1>0, <1>6, <2>1
       DEF GateOverBudget, GateNoReceipt, GateContractChanged, GateCompare, Conclude, TypeOK
<1>7. ASSUME NEW d \in Checks, GateLoadOther(g, d) \/ GateLoadPass(g, d)
      PROVE  /\ UNCHANGED <<gcfg, cache>> /\ pc'[g] # "idle" /\ c \notin awaiting'[g]
             /\ held'[g][c] = held[g][c] /\ results'[g][c] = results[g][c]
  <2>1. d # c
    BY <1>2, <1>7 DEF GateLoadOther, GateLoadPass
  <2> QED
    BY <1>0, <1>7, <2>1 DEF GateLoadOther, GateLoadPass, Conclude, TypeOK
<1>8. CASE GateRead(g) \/ GateDecide(g)
  BY <1>0, <1>8 DEF GateRead, GateDecide, gate, TypeOK
<1> QED
  BY <1>4, <1>5, <1>6, <1>7, <1>8 DEF GateWork

(* A gate calls a receipt stale after comparing it.                        *)
LEMMA StaleIsCompared ==
  ASSUME Base, NEW g \in Gates, GateWork(g), NEW c \in Checks,
         results[g][c] # "stale", results'[g][c] = "stale"
  PROVE  /\ pc[g] = "bind" /\ Turn(g, c) /\ c \notin awaiting'[g] /\ pc'[g] # "idle"
         /\ UNCHANGED <<gcfg, held, cache>>
         /\ cache[g][gcfg[g][c].globs] # None /\ cache[g][gcfg[g][c].globs].ok
         /\ ~Fresh(g, c)
<1>0. TypeOK /\ g \in Procs
  BY ProcsSplit DEF Base
<1>1. PICK d \in Checks : GateCompare(g, d)
  BY <1>0 DEF GateWork, GateOverBudget, GateNoReceipt, GateLoadOther, GateLoadPass,
     GateContractChanged, GateList, GateCache, GateCannotRead, GateRead, GateDecide,
     GateRemember, Conclude, gate, TypeOK
<1>2. d = c
  BY <1>0, <1>1 DEF GateCompare, Conclude, TypeOK
<1> QED
  BY <1>0, <1>1, <1>2 DEF GateCompare, Conclude, TypeOK

LEMMA StaleDiffersStep ==
  ASSUME Base, NEW g \in Gates, GateFinds(g), StaleDiffers(g), Next
  PROVE  StaleDiffers(g)'
<1>0. TypeOK /\ g \in Procs
  BY ProcsSplit DEF Base
<1> SUFFICES ASSUME NEW c \in Checks, results'[g][c] = "stale"
             PROVE  /\ pc'[g] # "idle" /\ c \in Required(gcfg'[g]) /\ c \notin awaiting'[g]
                    /\ held'[g][c] # None /\ receipts'[held'[g][c]] # None
                    /\ cache'[g][gcfg'[g][c].globs] # None
                    /\ cache'[g][gcfg'[g][c].globs].ok
                    /\ ~Fresh(g, c)'
  BY DEF StaleDiffers
<1> DEFINE Differ ==
      /\ c \in Required(gcfg[g])
      /\ held[g][c] # None /\ receipts[held[g][c]] # None
      /\ cache[g][gcfg[g][c].globs] # None
      /\ cache[g][gcfg[g][c].globs].ok
      /\ ~Fresh(g, c)
<1>1. ASSUME Differ, pc'[g] # "idle", c \notin awaiting'[g],
             gcfg'[g] = gcfg[g], held'[g][c] = held[g][c],
             cache'[g][gcfg[g][c].globs] = cache[g][gcfg[g][c].globs]
      PROVE  /\ c \in Required(gcfg'[g])
             /\ held'[g][c] # None /\ receipts'[held'[g][c]] # None
             /\ cache'[g][gcfg'[g][c].globs] # None
             /\ cache'[g][gcfg'[g][c].globs].ok
             /\ ~Fresh(g, c)'
  <2>1. held[g][c] \in Runs
    BY <1>0, <1>1 DEF TypeOK
  <2>2. receipts'[held[g][c]] = receipts[held[g][c]]
    BY <1>1, <2>1, ReceiptsImmutable
  <2> QED
    BY <1>1, <2>2 DEF Fresh
<1>2. results[g][c] = "stale" => Differ /\ pc[g] # "idle" /\ c \notin awaiting[g]
  BY DEF StaleDiffers
<1>3. CASE StartGate(g)
  BY <1>0, <1>2, <1>3 DEF StartGate
<1>4. CASE GateWork(g) /\ results[g][c] = "stale"
  <2>1. gcfg[g] \in Configs
    BY <1>2, <1>4 DEF Base, GatesWellFormed
  <2> QED
    BY <1>1, <1>2, <1>4, <2>1, GateSettles
<1>5. CASE GateWork(g) /\ results[g][c] # "stale"
  <2>1. /\ pc[g] = "bind" /\ Turn(g, c) /\ c \notin awaiting'[g] /\ pc'[g] # "idle"
        /\ UNCHANGED <<gcfg, held, cache>>
        /\ cache[g][gcfg[g][c].globs] # None /\ cache[g][gcfg[g][c].globs].ok
        /\ ~Fresh(g, c)
    BY <1>5, StaleIsCompared
  <2>2. held[g][c] # None /\ receipts[held[g][c]] # None /\ c \in Required(gcfg[g])
    BY <2>1, GateEntry DEF Base, GatesWellFormed
  <2> QED
    BY <1>1, <2>1, <2>2
<1>6. CASE ~StartGate(g) /\ ~GateWork(g)
  <2>1. /\ pc'[g] = pc[g] /\ gcfg'[g] = gcfg[g] /\ awaiting'[g] = awaiting[g]
        /\ held'[g] = held[g] /\ results'[g] = results[g]
    BY <1>6, GateUntouched
  <2>2. cache'[g] = cache[g]
    <3>1. CASE Environment
      BY <3>1, EnvironmentFrame DEF gate
    <3>2. ASSUME NEW r \in Runs, RunStep(r) PROVE cache'[g] = cache[g]
      BY <3>2, RunFrame DEF gate
    <3>3. ASSUME NEW h \in Gates \ {g}, StartGate(h) \/ GateWork(h) PROVE cache'[g] = cache[g]
      BY <3>3, GateFrame
    <3> QED
      BY <1>6, <3>1, <3>2, <3>3 DEF Next
  <2> QED
    BY <1>1, <1>2, <2>1, <2>2
<1> QED
  BY <1>3, <1>4, <1>5, <1>6

LEMMA FindsStutter == ASSUME Finds, UNCHANGED vars PROVE Finds'
<1> USE DEF vars, worktree, reader, run, store, gate
<1>1. Base'
  BY BaseStutter DEF Finds
<1>2. \A r \in Runs : RunFinds(r)'
  BY DEF Finds, RunFinds, ReadSoFar, Unedited, Recorded
<1>3. \A g \in Gates : GateFinds(g)'
  BY DEF Finds, GateFinds, ReadSoFar, Unedited, Recorded, Turn
<1>4. \A g \in Gates : StaleDiffers(g)'
  BY DEF Finds, StaleDiffers, Fresh
<1> QED
  BY <1>1, <1>2, <1>3, <1>4 DEF Finds

LEMMA FindsStep == ASSUME Finds, [Next]_vars PROVE Finds'
<1>1. CASE Next
  BY <1>1, BaseStep, RunFindsStep, GateFindsStep, StaleDiffersStep DEF Finds
<1> QED
  BY <1>1, FindsStutter

(* A gate rejects a PASS receipt as stale only if the patterns of its      *)
(* check were changed or a file on which the fingerprints differ was       *)
(* edited: who takes a fingerprint, when, beside what and in which order   *)
(* changes nothing, whatever edits put back.                               *)
THEOREM NoFalseStaleHolds == Spec => []NoFalseStale
<1>1. ASSUME Finds PROVE NoFalseStale
  <2> SUFFICES ASSUME NEW g \in Gates, NEW c \in Checks, results[g][c] = "stale",
                      receipts[held[g][c]].globs = gcfg[g][c].globs
               PROVE  \E f \in Matches[receipts[held[g][c]].globs] :
                        /\ receipts[held[g][c]].seen[f] # cache[g][gcfg[g][c].globs].seen[f]
                        /\ past[f] # {}
    BY DEF NoFalseStale
  <2> DEFINE receipt == receipts[held[g][c]]
             taken   == cache[g][gcfg[g][c].globs]
  <2>1. TypeOK /\ gcfg[g] \in Configs /\ c \in DOMAIN gcfg[g] /\ held[g][c] \in Runs
        /\ receipt # None /\ taken # None /\ taken.ok /\ ~Fresh(g, c)
    BY <1>1 DEF Finds, StaleDiffers, Required, Base, GatesWellFormed, TypeOK
  <2>2. gcfg[g][c].globs \in Globs
    BY <2>1, ConfigEntry
  <2>3. receipt \in Receipt /\ taken \in Taken
    BY <2>1, <2>2 DEF TypeOK
  <2>4. receipt.seen \in [Files -> Contents \cup {Unlisted}]
        /\ taken.seen \in [Files -> Contents \cup {Unlisted}]
    BY <2>3 DEF Receipt, Taken, Observation
  <2>5. receipt.seen # taken.seen
    BY <2>1 DEF Fresh
  <2>6. PICK f \in Files : receipt.seen[f] # taken.seen[f]
    <3> HIDE DEF receipt, taken
    <3> QED
      BY <2>4, <2>5
  <2>7. Unedited(receipt.seen, gcfg[g][c].globs) /\ Unedited(taken.seen, gcfg[g][c].globs)
    BY <1>1, <2>1, <2>2 DEF Finds, RunFinds, GateFinds
  <2>8. f \in Matches[gcfg[g][c].globs] /\ past[f] # {}
    BY <2>6, <2>7 DEF Unedited
  <2> QED
    BY <2>6, <2>8
<1> QED
  BY <1>1, FindsInit, FindsStep, PTL DEF Spec

-----------------------------------------------------------------------------
(* The capture buffer of a run.                                            *)

(* Nothing written is nothing captured.                                    *)
LEMMA CapturedNothing ==
  ASSUME NEW limit \in Nat
  PROVE  Captured(<<>>, limit) = [data |-> <<>>, truncated |-> FALSE]
<1>1. SubSeq(<<>>, 1, Lesser(0, limit)) = <<>>
  BY DEF Lesser
<1>2. (0 > limit) = FALSE
  OBVIOUS
<1>3. QED
  BY <1>1, <1>2, Zenon DEF Captured

(* However the output is cut into writes, the buffer has the beginning of it, *)
(* never more than the limit, and is marked truncated exactly when the output *)
(* is longer, an output of just the limit included.                        *)
LEMMA WriteCaptures ==
  ASSUME NEW Bytes, NEW limit \in Nat,
         NEW output \in Seq(Bytes), NEW p \in Seq(Bytes)
  PROVE  Written(Captured(output, limit), p, limit) = Captured(output \o p, limit)
<1> DEFINE kept      == SubSeq(output, 1, Lesser(Len(output), limit))
           remaining == limit - Len(kept)
           more      == SubSeq(p, 1, Lesser(Len(p), remaining))
           all       == output \o p
           both      == Len(output) > limit \/ Len(p) > remaining
<1>1. Len(kept) = Lesser(Len(output), limit) /\ kept \in Seq(Bytes)
  BY DEF Lesser
<1>2. Len(all) = Len(output) + Len(p) /\ all \in Seq(Bytes)
  OBVIOUS
<1>3. both = (Len(all) > limit)
  BY <1>1, <1>2 DEF Lesser
<1>4. Written(Captured(output, limit), p, limit) =
        [data |-> IF remaining > 0 THEN kept \o more ELSE kept, truncated |-> both]
  BY Zenon DEF Written, Captured
<1>5. Captured(all, limit) =
        [data |-> SubSeq(all, 1, Lesser(Len(all), limit)), truncated |-> Len(all) > limit]
  BY Zenon DEF Captured
<1> HIDE DEF both
<1>6. CASE remaining > 0
  <2>1. Len(output) < limit /\ kept = output /\ remaining = limit - Len(output)
    BY <1>1, <1>6 DEF Lesser
  <2>2. Len(more) = Lesser(Len(p), remaining) /\ more \in Seq(Bytes)
    BY <1>6, <2>1 DEF Lesser
  <2>3. output \o more = SubSeq(all, 1, Lesser(Len(all), limit))
    <3>1. Len(output \o more) = Len(SubSeq(all, 1, Lesser(Len(all), limit)))
      BY <1>2, <2>1, <2>2 DEF Lesser
    <3>2. \A i \in 1..Len(output \o more) :
             (output \o more)[i] = SubSeq(all, 1, Lesser(Len(all), limit))[i]
      BY <1>2, <2>1, <2>2 DEF Lesser
    <3>3. QED
      BY <1>2, <2>1, <2>2, <3>1, <3>2, SeqEqual DEF Lesser
  <2>4. QED
    BY <1>3, <1>6, <1>4, <1>5, <2>1, <2>3
<1>7. CASE ~(remaining > 0)
  <2>1. Len(output) >= limit
    BY <1>1, <1>7 DEF Lesser
  <2>2. kept = SubSeq(all, 1, Lesser(Len(all), limit))
    BY <1>1, <1>2, <2>1 DEF Lesser
  <2>3. QED
    BY <1>3, <1>7, <1>4, <1>5, <2>2
<1>8. QED
  BY <1>6, <1>7

(* limitedBuffer.Write: after any number of writes the buffer is what it   *)
(* should be after all that was written.                                   *)
THEOREM BufferCaptures ==
  ASSUME NEW Bytes, NEW limit \in Nat, NEW writes \in [Nat \ {0} -> Seq(Bytes)],
         NEW buffer, NEW output,
         buffer[0] = [data |-> <<>>, truncated |-> FALSE], output[0] = <<>>,
         \A n \in Nat : /\ buffer[n + 1] = Written(buffer[n], writes[n + 1], limit)
                       /\ output[n + 1] = output[n] \o writes[n + 1]
  PROVE  \A n \in Nat : buffer[n] = Captured(output[n], limit)
<1> DEFINE S == {n \in Nat : output[n] \in Seq(Bytes) /\ buffer[n] = Captured(output[n], limit)}
<1>1. 0 \in S
  <2>1. output[0] \in Seq(Bytes)
    OBVIOUS
  <2>2. buffer[0] = Captured(output[0], limit)
    BY CapturedNothing, Zenon
  <2> QED
    BY <2>1, <2>2
<1>2. ASSUME NEW n \in Nat, n \in S PROVE n + 1 \in S
  <2>1. output[n] \in Seq(Bytes) /\ buffer[n] = Captured(output[n], limit) /\ writes[n + 1] \in Seq(Bytes)
    BY <1>2
  <2>2. output[n + 1] = output[n] \o writes[n + 1]
    OBVIOUS
  <2>3. output[n + 1] \in Seq(Bytes)
    BY <2>1, <2>2
  <2>4. buffer[n + 1] = Written(Captured(output[n], limit), writes[n + 1], limit)
    BY <2>1, Zenon
  <2>5. buffer[n + 1] = Captured(output[n + 1], limit)
    <3>1. Written(Captured(output[n], limit), writes[n + 1], limit)
            = Captured(output[n] \o writes[n + 1], limit)
      BY <2>1, WriteCaptures
    <3> QED
      BY <2>2, <2>4, <3>1, Zenon
  <2> QED
    BY <2>3, <2>5
<1>3. Nat \subseteq S
  <2> HIDE DEF S
  <2> QED
    BY <1>1, <1>2, Induction
<1> QED
  BY <1>3

=============================================================================
