--------------------------- MODULE MCInstallation ---------------------------
(* Small numbers of commands, and small sessions, for Installation.        *)
EXTENDS Installation, MCRelevantFiles

Command(target, remove, path) == [target |-> target, remove |-> remove, path |-> path]

MCCommands ==
  {Command(t, FALSE, x) : t \in {"codex", "pi"}, x \in Executables} \cup
  {Command(t, TRUE, CHOOSE x \in Executables : TRUE) : t \in {"codex", "pi"}}

\* No file; an old handler, doubled and beside the user's; the user's only,
\* with an empty group.
MCFirstHooks ==
  {Absent} \cup
  {[e \in Events |-> IF e \in Lifecycle THEN groups ELSE <<<<Legacy>>>>] :
     groups \in {<<<<Legacy>>, <<f, Legacy>>>> : f \in Foreign} \cup
                {<<<<>>, <<f>>>> : f \in Foreign}}

\* What RelevantStaysListed (InstallationProofs) demands of the requests.
ASSUME RequestsAgree == GlobsAgree

\* One of the initial states of Setup.
SameSetups ==
  /\ hooks = Absent /\ edits = 0
  /\ \A p \in Setups : command[p] = Command("pi", FALSE, CHOOSE x \in Executables : TRUE)

NoSetup == SameSetups /\ \A p \in Setups : phase[p] = "idle"

FirstRequest == [patterns |-> <<<<"a">>>>, status |-> [f \in Paths |-> "absent"]]

\* The listings are of interest in one initial state of the others.
MCInit ==
  /\ KeyInit /\ SetupInit /\ PiInit
  /\ \E request \in IF NoSetup THEN Requests ELSE {FirstRequest} :
       Begin(request)

NoKeyYet == \A p \in Signers : at[p] = "idle"
NoPi     == restores = 0 /\ inputs = 0
NoList   == stage = "idle" /\ patterns = FirstRequest.patterns /\ status = FirstRequest.status

\* The extension is there once for all.
InstalledOnce ==
  /\ SameSetups /\ Cardinality({p \in Setups : phase[p] = "done"}) = 1
  /\ \A p \in Setups : phase[p] \in {"idle", "done"}

\* It is installed from one place, and removed, while Pi is used.
Reinstalled ==
  /\ hooks = Absent /\ edits = 0
  /\ Cardinality({p \in Setups : command[p].remove}) = 1
  /\ \A p \in Setups : command[p].target = "pi" /\ command[p].path = CHOOSE x \in Executables : TRUE
  /\ \A p \in Setups : phase[p] # "failed"

\* What setups do between two starts of Pi they may as well do after the first.
PiRests == ~working /\ coming = 0 /\ \A i \in Settles : settling[i] \in {"none", "done"}

SetupRests == \A p \in Setups : phase[p] \notin {"read", "open"}

\* Pi is started first.
Started == restores' > 0

\* Three inputs, or two starts after the first, but not both.
NotBoth == inputs' + restores' < MaxInputs + MaxRestores

ShortSession ==
  inputs' <= 2 /\ Cardinality({i \in Settles : settling'[i] # "none"}) <= 2

\* Only what Pi loads depends on another part, so the parts are explored each
\* while the others rest; Pi with the extension that is there once for all,
\* and a shorter session between setups and removals that are over, those
\* killed in the middle included.
MCNext ==
  \/ NoSetup /\ NoPi /\ NoList /\ KeyPart
  \/ NoSetup /\ NoPi /\ NoKeyYet /\ FilesPart /\ FewChanges
  \/ NoPi /\ NoKeyYet /\ NoList /\ SetupPart
  \/ Reinstalled /\ ~NoPi /\ PiRests /\ SetupPart /\ edits' = 0
  \/ InstalledOnce /\ PiPart /\ Started /\ NotBoth
  \/ Reinstalled /\ SetupRests /\ PiPart /\ Started /\ ShortSession

MCSpec == MCInit /\ [][MCNext]_installationVars

InstallationSymmetry == Permutations(Setups)
=============================================================================
