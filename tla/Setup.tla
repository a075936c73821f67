------------------------------- MODULE Setup --------------------------------
(***************************************************************************)
(* `beforedone setup codex' and `setup pi', with and without --remove.     *)
(* Each reads a file that the user and other commands change too, works    *)
(* out a new one, and overwrites it in place: the file is first emptied    *)
(* and then written.  Nothing is locked.                                   *)
(***************************************************************************)
EXTENDS Naturals, Sequences, SequencesExt

CONSTANTS
  Setups,      \* runs of the command
  Executables, \* the paths BeforeDone is installed at: `setup' pins its own
  Commands,    \* what it may be called for
  Foreign,     \* handlers of the user and of other programs
  Legacy,      \* a BeforeDone handler that names no path
  Lifecycle,   \* the events that BeforeDone handles
  Others,      \* other events of Codex
  FirstHooks,  \* what .codex/hooks.json may be at first
  Absent,      \* there is no file
  Emptied,     \* the file was emptied and not written
  Garbled,     \* two writes lie over each other; in the hooks, also a file
               \* that is not of the form the command expects
  Own,         \* a Pi extension of the user's, under BeforeDone's name
  MaxEdits,    \* bound: how often the user changes a file
  SetupFaults  \* "stop": a command is killed or the disk is full; "config":
               \* there is no valid .beforedone.yaml

Events == Lifecycle \cup Others

\* A handler that stripBeforeDone knows as one of BeforeDone's, by its
\* status message or by its command.
Ours == Executables \cup {Legacy}

\* A group is a sequence of handlers, and an event has a sequence of groups.
HookFiles == [Events -> Seq(Seq(Ours \cup Foreign))]
Unhooked  == [e \in Events |-> <<>>]

\* Where BeforeDone's handlers are.
OurSpots(groups) ==
  UNION {{i} \X {j \in DOMAIN groups[i] : groups[i][j] \in Ours} : i \in DOMAIN groups}

ContainsExact(groups, handler) ==
  \E i \in DOMAIN groups : \E j \in DOMAIN groups[i] : groups[i][j] = handler

\* An event that calls a path of BeforeDone's calls BeforeDone once.
CalledOnce(file) ==
  \A e \in Lifecycle : (\E x \in Executables : ContainsExact(file[e], x)) =>
    Cardinality(OurSpots(file[e])) = 1

Readable(file) == file \notin {Absent, Emptied, Garbled}

ASSUME SetupAssumption ==
  /\ Lifecycle \cap Others = {}
  /\ Executables \cap Foreign = {} /\ Legacy \notin Executables \cup Foreign
  /\ Commands \subseteq [target : {"codex", "pi"}, remove : BOOLEAN, path : Executables]
  /\ Own \notin Executables \cup {Absent, Emptied, Garbled}
  /\ Absent \notin Executables \cup {Emptied, Garbled}
  /\ \A file \in FirstHooks \cap HookFiles : CalledOnce(file)
  /\ FirstHooks \subseteq HookFiles \cup {Absent, Emptied, Garbled}
  /\ {x \in {Absent, Emptied, Garbled} : x \in HookFiles} = {}
  /\ MaxEdits \in Nat
  /\ SetupFaults \subseteq {"stop", "config"}

VARIABLES
  hooks,     \* .codex/hooks.json
  extension, \* .pi/extensions/beforedone.ts
  command,   \* what each run was called for
  phase,     \* how far it is
  output,    \* what it is going to write
  unlinked,  \* the runs whose open file was removed
  handlers,  \* history: the foreign handlers of each event, as the user left them
  owned,     \* history: the user has put an extension of their own
  overtaken, \* history: the targets whose file the user changed between a
             \* run's reading and its writing of it
  edits      \* how often the user changed a file

written   == <<hooks, extension>>
running   == <<command, phase, output, unlinked>>
history   == <<handlers, owned, overtaken, edits>>
setupVars == <<written, running, history>>

\* The handlers of a group that stripBeforeDone leaves in it.
Stripped(group) ==
  FlattenSeq([j \in DOMAIN group |-> IF group[j] \in Ours THEN <<>> ELSE <<group[j]>>])

Alien(groups) == FlattenSeq([i \in DOMAIN groups |-> Stripped(groups[i])])

Aliens(file) == [e \in Events |-> Alien(file[e])]

SetupInit ==
  /\ hooks \in FirstHooks
  /\ extension = Absent
  /\ command \in [Setups -> Commands]
  /\ phase = [p \in Setups |-> "idle"]
  /\ output = [p \in Setups |-> Absent]
  /\ unlinked = {}
  /\ handlers = Aliens(IF Readable(hooks) THEN hooks ELSE Unhooked)
  /\ owned = FALSE
  /\ overtaken = {}
  /\ edits = 0

-----------------------------------------------------------------------------
(* What the commands make of the file they read.                           *)

\* Groups that are left without a handler go, empty ones of the user's too.
Strip(groups) ==
  FlattenSeq([i \in DOMAIN groups |->
                IF Stripped(groups[i]) = <<>> THEN <<>> ELSE <<Stripped(groups[i])>>])

\* Fault: other BeforeDone handlers stay.
InstalledBeside(file, path) ==
  [e \in Events |->
     IF e \in Others \/ ContainsExact(file[e], path) THEN file[e]
     ELSE Append(file[e], <<path>>)]

\* Fault: the event is taken for BeforeDone's alone.
InstalledAlone(file, path) ==
  [e \in Events |->
     IF e \in Others \/ ContainsExact(file[e], path) THEN file[e] ELSE <<<<path>>>>]

Installed(file, path) ==
  [e \in Events |->
     IF e \in Others \/ ContainsExact(file[e], path) THEN file[e]
     ELSE Append(Strip(file[e]), <<path>>)]

Cleared(file) ==
  [e \in Events |->
     IF \E h \in Ours : ContainsExact(file[e], h) THEN Strip(file[e]) ELSE file[e]]

\* What a run of the command writes, given what it reads.
Outcome(c, file) == IF c.remove THEN Cleared(file) ELSE Installed(file, c.path)
-----------------------------------------------------------------------------
(* The commands.                                                           *)

Reach(p, from, to) == phase[p] = from /\ phase' = [phase EXCEPT ![p] = to]

\* Nothing is installed where there is no valid configuration.
NoConfig(p) ==
  /\ "config" \in SetupFaults /\ ~command[p].remove
  /\ Reach(p, "idle", "failed")
  /\ UNCHANGED <<written, command, output, unlinked, history>>

\* `setup codex' and its removal read hooks.json.
ReadHooks(p) ==
  /\ command[p].target = "codex"
  /\ \/ hooks \in {Emptied, Garbled} /\ Reach(p, "idle", "failed") /\ UNCHANGED output
     \/ /\ hooks = Absent /\ command[p].remove
        /\ Reach(p, "idle", "done") /\ UNCHANGED output
     \/ /\ hooks = Absent => ~command[p].remove
        /\ hooks \notin {Emptied, Garbled}
        /\ Reach(p, "idle", "read")
        /\ output' = [output EXCEPT ![p] =
                        Outcome(command[p], IF hooks = Absent THEN Unhooked ELSE hooks)]
  /\ UNCHANGED <<written, command, unlinked, history>>

\* Fault: whatever is there is taken for BeforeDone's.
AnyExtension == extension # Absent

\* IsGeneratedPiExtension looks at the first line, which two writes that lie
\* over each other leave whole.
Generated == extension \in Executables \cup {Garbled}

\* `setup pi' leaves alone what it has not generated, and what is right.
ReadExtension(p) ==
  /\ command[p].target = "pi"
  /\ \/ /\ extension # Absent /\ ~Generated
        /\ Reach(p, "idle", "failed") /\ UNCHANGED output
     \/ /\ extension = IF command[p].remove THEN Absent ELSE command[p].path
        /\ Reach(p, "idle", "done") /\ UNCHANGED output
     \/ /\ IF command[p].remove THEN Generated
           ELSE extension = Absent \/ (Generated /\ extension # command[p].path)
        /\ Reach(p, "idle", "read")
        /\ output' = [output EXCEPT ![p] =
                        IF command[p].remove THEN Absent ELSE command[p].path]
  /\ UNCHANGED <<written, command, unlinked, history>>

\* Every run writes, but for a removal of the extension.
Removes(p) == command[p].target = "pi" /\ command[p].remove

\* WriteFile opens the file, which empties it ...
OpenFile(p) ==
  /\ ~Removes(p)
  /\ Reach(p, "read", "open")
  /\ IF command[p].target = "codex"
     THEN hooks' = Emptied /\ UNCHANGED extension
     ELSE extension' = Emptied /\ UNCHANGED hooks
  /\ UNCHANGED <<command, output, unlinked, history>>

\* ... and writes it from its beginning: what another run has written
\* meanwhile and is longer shows at the end.
Over(file, text) == IF file \in {Emptied, text} THEN {text} ELSE {text, Garbled}

WriteFile(p) ==
  /\ Reach(p, "open", "done")
  /\ IF p \in unlinked THEN UNCHANGED written
     ELSE IF command[p].target = "codex"
     THEN hooks' \in Over(hooks, output[p]) /\ UNCHANGED extension
     ELSE extension' \in Over(extension, output[p]) /\ UNCHANGED hooks
  /\ UNCHANGED <<command, output, unlinked, history>>

\* RemovePi removes the file, whatever it has become; when it is gone, it fails.
RemoveFile(p) ==
  /\ Removes(p)
  /\ Reach(p, "read", IF extension = Absent THEN "failed" ELSE "done")
  /\ extension' = Absent
  /\ unlinked' = unlinked \cup
       {q \in Setups : phase[q] = "open" /\ command[q].target = "pi"}
  /\ UNCHANGED <<hooks, command, output, history>>

\* A kill, or a write that fails: what is in the file stays there.
StopSetup(p) ==
  /\ "stop" \in SetupFaults /\ phase[p] \in {"read", "open"}
  /\ phase' = [phase EXCEPT ![p] = "stopped"]
  /\ UNCHANGED <<written, command, output, unlinked, history>>

-----------------------------------------------------------------------------
(* The user, who does not edit a file that a run has open.                 *)

Edit(target) ==
  /\ edits < MaxEdits /\ edits' = edits + 1
  /\ \A p \in Setups : command[p].target = target => phase[p] # "open"
  /\ overtaken' = overtaken \cup
       {t \in {target} : \E p \in Setups : command[p].target = t /\ phase[p] = "read"}
  /\ UNCHANGED running

\* A handler is added, in a group of its own or in the last one.
AddHandler(e, h) ==
  /\ Edit("codex") /\ hooks \notin {Emptied, Garbled}
  /\ LET file == IF hooks = Absent THEN Unhooked ELSE hooks IN
     \/ hooks' = [file EXCEPT ![e] = Append(@, <<h>>)]
     \/ /\ file[e] # <<>>
        /\ hooks' = [file EXCEPT ![e] = Front(@) \o <<Append(Last(@), h)>>]
  /\ handlers' = [handlers EXCEPT ![e] = Append(@, h)]
  /\ UNCHANGED <<extension, owned>>

\* A file that the command refuses to read is removed.
DropHooks ==
  /\ Edit("codex") /\ hooks \in {Emptied, Garbled}
  /\ hooks' = Absent /\ handlers' = Aliens(Unhooked)
  /\ UNCHANGED <<extension, owned>>

\* An extension of the user's own takes the place of whatever is there.
WriteOwn ==
  /\ Edit("pi") /\ extension # Own
  /\ extension' = Own /\ owned' = TRUE
  /\ UNCHANGED <<hooks, handlers>>

SetupStep(p) ==
  \/ NoConfig(p) \/ ReadHooks(p) \/ ReadExtension(p) \/ OpenFile(p)
  \/ WriteFile(p) \/ RemoveFile(p) \/ StopSetup(p)

SetupNext ==
  \/ \E p \in Setups : SetupStep(p)
  \/ \E e \in Events, h \in Foreign : AddHandler(e, h)
  \/ DropHooks \/ WriteOwn

SetupSpec == SetupInit /\ [][SetupNext]_setupVars
-----------------------------------------------------------------------------
\* The files, and what runs hold of them, are of their type; only a removal of
\* the extension has no text to write.
SetupTypeOK ==
  /\ extension \in Executables \cup {Absent, Emptied, Garbled, Own}
  /\ Readable(hooks) =>
       hooks \in HookFiles /\ handlers \in [Events -> Seq(Foreign)]
  /\ phase \in [Setups -> {"idle", "read", "open", "done", "failed", "stopped"}]
  /\ \A p \in Setups : phase[p] \in {"read", "open"} => (output[p] = Absent <=> Removes(p))
  /\ unlinked \subseteq Setups /\ overtaken \subseteq {"codex", "pi"}

\* Setups from two places, beside each other and again, never leave an event
\* with two BeforeDone handlers, its own or one of another place or an old
\* one: Codex would run them all (README.md:324, codex.go:62-89).
OneHandler == Readable(hooks) => CalledOnce(hooks)

\* Whatever setups and removals ran and however their writes fell, a file
\* that can be read has every handler of the user and of other programs, in
\* their order, unless the user changed it under a run's hands.
ForeignKept ==
  Readable(hooks) /\ "codex" \notin overtaken => Aliens(hooks) = handlers

\* Likewise an extension that BeforeDone has not written is neither
\* overwritten nor removed (pi.go:38-40, pi.go:68-70).
OwnKept == owned /\ "pi" \notin overtaken => extension = Own
=============================================================================
