------------------------- MODULE InstallationProofs -------------------------
(***************************************************************************)
(* What holds of the receipt key for any number of commands, stops and     *)
(* erasures; of the hooks file and the Pi extension's file for any number  *)
(* of setups, removals and edits of the user; of the guard for any number  *)
(* of inputs, settled runs and session starts, whether or not Pi loads the *)
(* extension at each; of the listing of the files that a fingerprint       *)
(* covers for any paths and patterns, whatever Git changes meanwhile; and  *)
(* of all of them in one repository.                                       *)
(***************************************************************************)
EXTENDS Installation, DataLemmas

-----------------------------------------------------------------------------
(* The receipt key.                                                        *)

(* Before any command has run there is no key and no receipt.              *)
LEMMA KeyInitIInv == KeyInit => KeyIInv
  BY KeyAssumption DEF KeyInit, KeyIInv, KeyTypeOK, SignedVerifies, ShortHasCause,
    Short, Whole, Verifies

(* No step of a command, nor a removal by the user, breaks the invariant: a *)
(* whole key stays as it is while a command runs.                          *)
LEMMA KeyNextIInv == KeyIInv /\ [KeyNext]_keyVars => KeyIInv'
<1> USE KeyAssumption
<1> SUFFICES ASSUME KeyIInv, [KeyNext]_keyVars PROVE KeyIInv'
  OBVIOUS
<1> USE DEF KeyIInv, KeyTypeOK, SignedVerifies, ShortHasCause, Short, Whole,
            Verifies, Advance
<1>1. ASSUME NEW p \in Signers, LookAtKey(p) PROVE KeyIInv'
  BY <1>1 DEF LookAtKey
<1>2. ASSUME NEW p \in Signers, CreateKey(p) PROVE KeyIInv'
  <2>1. CASE keyFile = NoKey
    <3>1. keyFile' = [maker |-> p, whole |-> FALSE] /\ Advance(p, "missing", "created")
      BY <1>2, <2>1 DEF CreateKey
    <3>2. UNCHANGED <<signedBy, receipts, erasures>>
      BY <1>2 DEF CreateKey
    <3>3. \A q \in Signers : q \notin receipts /\ at[q] # "signed"
      BY <2>1
    <3>4. KeyTypeOK'
      BY <3>1, <3>2
    <3>5. SignedVerifies'
      BY <3>1, <3>2, <3>3
    <3>6. ShortHasCause'
      BY <3>1
    <3>7. QED
      BY <3>4, <3>5, <3>6
  <2>2. CASE keyFile # NoKey
    BY <1>2, <2>2 DEF CreateKey
  <2>3. QED
    BY <2>1, <2>2
<1>3. ASSUME NEW p \in Signers, WriteKey(p) PROVE KeyIInv'
  BY <1>3 DEF WriteKey
<1>4. ASSUME NEW p \in Signers, EndInit(p) PROVE KeyIInv'
  BY <1>4 DEF EndInit
<1>5. ASSUME NEW p \in Signers, Sign(p) PROVE KeyIInv'
  BY <1>5 DEF Sign
<1>6. ASSUME NEW p \in Signers, Save(p) PROVE KeyIInv'
  BY <1>6 DEF Save
<1>7. ASSUME NEW p \in Signers, StopSigner(p) PROVE KeyIInv'
  BY <1>7 DEF StopSigner, Running
<1>8. CASE RemoveShort
  BY <1>8 DEF RemoveShort
<1>9. CASE Erase
  BY <1>9 DEF Erase, Running
<1>10. CASE UNCHANGED keyVars
  BY <1>10 DEF keyVars
<1>11. QED
  BY <1>1, <1>2, <1>3, <1>4, <1>5, <1>6, <1>7, <1>8, <1>9, <1>10
  DEF KeyNext, SignerStep

(* The state keeps its type, every receipt verifies, and a short key has a *)
(* cause, in every reachable state.                                        *)
THEOREM KeyInvariant == KeySpec => []KeyIInv
  BY KeyInitIInv, KeyNextIInv, PTL DEF KeySpec

(* Every receipt that is saved, or about to be, verifies.                  *)
THEOREM ReceiptsVerify == KeySpec => []SignedVerifies
<1>1. KeyIInv => SignedVerifies
  BY DEF KeyIInv
<1>2. QED
  BY KeyInvariant, <1>1, PTL

(* An invalid key is the doing of a command that is writing it or was stopped. *)
THEOREM ShortKeyHasCause == KeySpec => []ShortHasCause
<1>1. KeyIInv => ShortHasCause
  BY DEF KeyIInv
<1>2. QED
  BY KeyInvariant, <1>1, PTL

-----------------------------------------------------------------------------
(* The Pi extension's file.                                                *)

(* Once the user's extension is there, no run has anything to do with the  *)
(* file, except one that read it before.                                   *)
OwnIsLeft ==
  /\ phase \in [Setups -> {"idle", "read", "open", "done", "failed", "stopped"}]
  /\ \A p \in Setups : command[p].target \in {"codex", "pi"}
  /\ owned /\ "pi" \notin overtaken =>
       /\ extension = Own
       /\ \A p \in Setups : command[p].target = "pi" => phase[p] \notin {"read", "open"}

LEMMA OwnIsLeftInit == SetupInit => OwnIsLeft
BY SetupAssumption DEF SetupInit, OwnIsLeft

(* A run that moves on where it has nothing to do with the file.           *)
LEMMA RunMoves ==
  ASSUME OwnIsLeft, NEW p \in Setups,
         NEW to \in {"idle", "read", "open", "done", "failed", "stopped"},
         phase' = [phase EXCEPT ![p] = to],
         to \in {"read", "open"} => command[p].target = "codex" \/ ~owned \/ "pi" \in overtaken,
         extension' = extension, UNCHANGED <<command, owned, overtaken>>
  PROVE  OwnIsLeft'
<1>1. phase' \in [Setups -> {"idle", "read", "open", "done", "failed", "stopped"}]
  BY DEF OwnIsLeft
<1>2. \A q \in Setups : phase'[q] = IF q = p THEN to ELSE phase[q]
  BY DEF OwnIsLeft
<1> QED
  BY <1>1, <1>2 DEF OwnIsLeft

(* A run that changes the file finds that it is not the user's.            *)
LEMMA RunChanges ==
  ASSUME OwnIsLeft, NEW p \in Setups, command[p].target = "pi", phase[p] \in {"read", "open"},
         NEW to \in {"idle", "read", "open", "done", "failed", "stopped"},
         phase' = [phase EXCEPT ![p] = to], UNCHANGED <<command, owned, overtaken>>
  PROVE  OwnIsLeft'
<1>1. ~(owned /\ "pi" \notin overtaken)
  BY DEF OwnIsLeft
<1>2. phase' \in [Setups -> {"idle", "read", "open", "done", "failed", "stopped"}]
  BY DEF OwnIsLeft
<1> QED
  BY <1>1, <1>2 DEF OwnIsLeft

LEMMA RunKeeps == ASSUME OwnIsLeft, NEW p \in Setups, SetupStep(p) PROVE OwnIsLeft'
<1>1. CASE NoConfig(p)
  BY <1>1, RunMoves DEF NoConfig, Reach, written, history
<1>2. CASE ReadHooks(p)
  BY <1>2, RunMoves DEF ReadHooks, Reach, written, history
<1>3. CASE ReadExtension(p)
  <2>1. CASE extension = Own
    <3>1. extension # Absent /\ ~Generated
      BY <2>1, SetupAssumption DEF Generated
    <3>2. phase' \in {[phase EXCEPT ![p] = "failed"], [phase EXCEPT ![p] = "done"]}
      BY <1>3, <3>1 DEF ReadExtension, Reach
    <3> QED
      BY <1>3, <3>2, RunMoves DEF ReadExtension, written, history
  <2>2. CASE extension # Own
    <3>1. ~owned \/ "pi" \in overtaken
      BY <2>2 DEF OwnIsLeft
    <3> QED
      BY <1>3, <3>1, RunMoves DEF ReadExtension, Reach, written, history
  <2> QED
    BY <2>1, <2>2
<1>4. CASE OpenFile(p)
  <2>1. CASE command[p].target = "codex"
    BY <1>4, <2>1, RunMoves DEF OpenFile, Reach, history
  <2>2. CASE command[p].target = "pi"
    BY <1>4, <2>2, RunChanges DEF OpenFile, Reach, history
  <2> QED
    BY <2>1, <2>2 DEF OwnIsLeft
<1>5. CASE WriteFile(p)
  <2>1. CASE command[p].target = "codex"
    BY <1>5, <2>1, RunMoves DEF WriteFile, Reach, written, history
  <2>2. CASE command[p].target = "pi"
    BY <1>5, <2>2, RunChanges DEF WriteFile, Reach, written, history
  <2> QED
    BY <2>1, <2>2 DEF OwnIsLeft
<1>6. CASE RemoveFile(p)
  <2>1. phase[p] = "read" /\ phase' = [phase EXCEPT ![p] = IF extension = Absent THEN "failed" ELSE "done"]
    BY <1>6 DEF RemoveFile, Reach
  <2>2. command[p].target = "pi"
    BY <1>6 DEF RemoveFile, Removes
  <2> QED
    BY <1>6, <2>1, <2>2, RunChanges DEF RemoveFile, history
<1>7. CASE StopSetup(p)
  BY <1>7, RunMoves DEF StopSetup, written, history
<1> QED
  BY <1>1, <1>2, <1>3, <1>4, <1>5, <1>6, <1>7 DEF SetupStep

LEMMA UserKeeps ==
  ASSUME OwnIsLeft,
         (\E e \in Events, h \in Foreign : AddHandler(e, h)) \/ DropHooks \/ WriteOwn
  PROVE  OwnIsLeft'
<1>1. ASSUME NEW target \in {"codex", "pi"}, Edit(target)
      PROVE  /\ phase' = phase /\ command' = command
             /\ overtaken \subseteq overtaken'
             /\ \A p \in Setups : command[p].target = target =>
                  phase[p] # "open" /\ (phase[p] = "read" => target \in overtaken')
  BY <1>1 DEF Edit, running
<1>2. CASE WriteOwn
  <2>1. /\ extension' = Own
        /\ phase' = phase /\ command' = command
        /\ \A p \in Setups : command[p].target = "pi" =>
             phase[p] # "open" /\ (phase[p] = "read" => "pi" \in overtaken')
    BY <1>1, <1>2 DEF WriteOwn
  <2> QED
    BY <2>1 DEF OwnIsLeft
<1>3. CASE (\E e \in Events, h \in Foreign : AddHandler(e, h)) \/ DropHooks
  <2>1. Edit("codex") /\ extension' = extension /\ owned' = owned
    BY <1>3 DEF AddHandler, DropHooks
  <2>2. phase' = phase /\ command' = command /\ overtaken \subseteq overtaken'
    BY <1>1, <2>1
  <2> QED
    BY <2>1, <2>2 DEF OwnIsLeft
<1> QED
  BY <1>2, <1>3

LEMMA OwnIsLeftStep == ASSUME OwnIsLeft, [SetupNext]_setupVars PROVE OwnIsLeft'
<1>1. CASE \E p \in Setups : SetupStep(p)
  BY <1>1, RunKeeps
<1>2. CASE (\E e \in Events, h \in Foreign : AddHandler(e, h)) \/ DropHooks \/ WriteOwn
  BY <1>2, UserKeeps
<1>3. CASE UNCHANGED setupVars
  BY <1>3 DEF setupVars, written, running, history, OwnIsLeft
<1> QED
  BY <1>1, <1>2, <1>3 DEF SetupNext

(* Pi, RemovePi: an extension of the user's own is neither overwritten nor *)
(* removed, unless it was put there between a run's reading and writing.   *)
THEOREM OwnKeptHolds == SetupSpec => []OwnKept
<1>1. OwnIsLeft => OwnKept
  BY DEF OwnIsLeft, OwnKept
<1> QED
  BY <1>1, OwnIsLeftInit, OwnIsLeftStep, PTL DEF SetupSpec

-----------------------------------------------------------------------------
(* What stripBeforeDone leaves.                                            *)

(* One more handler is left or not, after those before it.                 *)
LEMMA StrippedAppend ==
  ASSUME NEW T, NEW g \in Seq(T)
  PROVE  /\ Stripped(g) \in Seq(T \ Ours)
         /\ \A h \in T : Stripped(Append(g, h)) =
              IF h \in Ours THEN Stripped(g) ELSE Append(Stripped(g), h)
<1> DEFINE C == T \ Ours
           F == [x \in T |-> IF x \in Ours THEN <<>> ELSE <<x>>]
<1>1. Takes(F, T, Seq(C))
  <2> SUFFICES ASSUME NEW x \in T PROVE (IF x \in Ours THEN <<>> ELSE <<x>>) \in Seq(C)
    BY DEF Takes
  <2>1. <<>> \in Seq(C)
    BY EmptySeq
  <2>2. CASE x \notin Ours
    <3>1. x \in C
      BY <2>2
    <3> HIDE DEF C
    <3>2. <<x>> \in Seq(C)
      BY <3>1
    <3> QED
      BY <2>2, <3>2
  <2> QED
    BY <2>1, <2>2
<1>2. \A s \in Seq(T) : Stripped(s) = FlattenSeq(Map(F, s))
  <2> SUFFICES ASSUME NEW s \in Seq(T) PROVE Stripped(s) = FlattenSeq(Map(F, s))
    OBVIOUS
  <2>1. \A j \in DOMAIN s : s[j] \in T
    BY LenProperties, ElementOfSeq
  <2>2. Map(F, s) = [j \in DOMAIN s |-> IF s[j] \in Ours THEN <<>> ELSE <<s[j]>>]
    BY <2>1 DEF Map
  <2> QED
    BY <2>2 DEF Stripped
<1>3. ASSUME NEW h \in T
      PROVE  Stripped(Append(g, h)) = IF h \in Ours THEN Stripped(g) ELSE Append(Stripped(g), h)
  <2>1. F[h] = IF h \in Ours THEN <<>> ELSE <<h>>
    OBVIOUS
  <2> HIDE DEF F
  <2>2. Append(g, h) \in Seq(T)
    BY AppendProperties
  <2>3. Stripped(Append(g, h)) = Stripped(g) \o F[h] /\ Stripped(g) \in Seq(C)
    <3>1. /\ Stripped(Append(g, h)) = FlattenSeq(Map(F, Append(g, h)))
          /\ Stripped(g) = FlattenSeq(Map(F, g))
      BY <1>2, <2>2
    <3>2. /\ FlattenSeq(Map(F, Append(g, h))) = FlattenSeq(Map(F, g)) \o F[h]
          /\ FlattenSeq(Map(F, g)) \in Seq(C)
      BY <1>1, FlattenMap
    <3> QED
      BY <3>1, <3>2
  <2>4. CASE h \in Ours
    BY <2>1, <2>3, <2>4, ConcatEmptySeq
  <2>5. CASE h \notin Ours
    <3>1. h \in C
      BY <2>5
    <3> HIDE DEF C
    <3> QED
      BY <2>1, <2>3, <2>5, <3>1, AppendIsConcat
  <2> QED
    BY <2>4, <2>5
<1>4. Stripped(g) \in Seq(C)
  <2> HIDE DEF F, C
  <2> QED
    BY <1>1, <1>2, FlattenMap
<1> QED
  BY <1>3, <1>4

(* What is left is left a second time.                                     *)
LEMMA StrippedTwice ==
  ASSUME NEW T, NEW g \in Seq(T \ Ours)
  PROVE  Stripped(g) = g
<1> DEFINE C == T \ Ours
           S == {s \in Seq(C) : Stripped(s) = s}
<1>1. <<>> \in S
  <2>1. [j \in DOMAIN <<>> |-> IF <<>>[j] \in Ours THEN <<>> ELSE <<<<>>[j]>>] = <<>>
    OBVIOUS
  <2> QED
    BY <2>1, EmptySeq DEF Stripped, FlattenSeq
<1>2. ASSUME NEW s \in Seq(C), NEW h \in C, s \in S PROVE Append(s, h) \in S
  <2>1. Append(s, h) \in Seq(C) /\ h \notin Ours
    BY AppendProperties
  <2>2. Stripped(Append(s, h)) = Append(Stripped(s), h)
    BY <2>1, StrippedAppend
  <2> QED
    BY <1>2, <2>1, <2>2
<1>3. Seq(C) \subseteq S
  <2> HIDE DEF S
  <2> QED
    BY <1>1, <1>2, SeqInduction
<1> QED
  BY <1>3

(* The groups are stripped one after the other, and so are the foreign     *)
(* handlers gathered.                                                      *)
LEMMA StripAppend ==
  ASSUME NEW T, NEW gs \in Seq(Seq(T))
  PROVE  /\ Alien(gs) \in Seq(T \ Ours) /\ Strip(gs) \in Seq(Seq(T \ Ours))
         /\ \A g \in Seq(T) :
              /\ Alien(Append(gs, g)) = Alien(gs) \o Stripped(g)
              /\ Strip(Append(gs, g)) =
                   IF Stripped(g) = <<>> THEN Strip(gs) ELSE Append(Strip(gs), Stripped(g))
<1> DEFINE C == T \ Ours
           F == [g \in Seq(T) |-> Stripped(g)]
           G == [g \in Seq(T) |-> IF Stripped(g) = <<>> THEN <<>> ELSE <<Stripped(g)>>]
<1>1. \A g \in Seq(T) : Stripped(g) \in Seq(C)
  BY StrippedAppend
<1> HIDE DEF C
<1>2. Takes(F, Seq(T), Seq(C)) /\ Takes(G, Seq(T), Seq(Seq(C)))
  <2>1. \A g \in Seq(T) : <<>> \in Seq(Seq(C)) /\ <<Stripped(g)>> \in Seq(Seq(C))
    BY <1>1, EmptySeq
  <2> QED
    BY <1>1, <2>1 DEF Takes
<1>3. \A hs \in Seq(Seq(T)) : Alien(hs) = FlattenSeq(Map(F, hs)) /\ Strip(hs) = FlattenSeq(Map(G, hs))
  <2> SUFFICES ASSUME NEW hs \in Seq(Seq(T))
               PROVE  Alien(hs) = FlattenSeq(Map(F, hs)) /\ Strip(hs) = FlattenSeq(Map(G, hs))
    OBVIOUS
  <2>1. \A i \in DOMAIN hs : hs[i] \in Seq(T)
    BY LenProperties, ElementOfSeq
  <2>2. Map(F, hs) = [i \in DOMAIN hs |-> Stripped(hs[i])]
    BY <2>1 DEF Map
  <2>3. Map(G, hs) = [i \in DOMAIN hs |->
                        IF Stripped(hs[i]) = <<>> THEN <<>> ELSE <<Stripped(hs[i])>>]
    BY <2>1 DEF Map
  <2> QED
    BY <2>2, <2>3 DEF Alien, Strip
<1>4. ASSUME NEW g \in Seq(T)
      PROVE  /\ Alien(Append(gs, g)) = Alien(gs) \o Stripped(g)
             /\ Strip(Append(gs, g)) =
                  IF Stripped(g) = <<>> THEN Strip(gs) ELSE Append(Strip(gs), Stripped(g))
  <2>1. F[g] = Stripped(g) /\ G[g] = IF Stripped(g) = <<>> THEN <<>> ELSE <<Stripped(g)>>
    OBVIOUS
  <2> HIDE DEF F, G
  <2>2. Append(gs, g) \in Seq(Seq(T))
    BY AppendProperties
  <2>3. Alien(Append(gs, g)) = Alien(gs) \o F[g]
    <3>1. /\ Alien(Append(gs, g)) = FlattenSeq(Map(F, Append(gs, g)))
          /\ Alien(gs) = FlattenSeq(Map(F, gs))
      BY <1>3, <2>2
    <3>2. FlattenSeq(Map(F, Append(gs, g))) = FlattenSeq(Map(F, gs)) \o F[g]
      BY <1>2, FlattenMap
    <3> QED
      BY <3>1, <3>2
  <2>4. Strip(Append(gs, g)) = Strip(gs) \o G[g] /\ Strip(gs) \in Seq(Seq(C))
    <3>1. /\ Strip(Append(gs, g)) = FlattenSeq(Map(G, Append(gs, g)))
          /\ Strip(gs) = FlattenSeq(Map(G, gs))
      BY <1>3, <2>2
    <3>2. /\ FlattenSeq(Map(G, Append(gs, g))) = FlattenSeq(Map(G, gs)) \o G[g]
          /\ FlattenSeq(Map(G, gs)) \in Seq(Seq(C))
      BY <1>2, FlattenMap
    <3> QED
      BY <3>1, <3>2
  <2>5. CASE Stripped(g) = <<>>
    BY <2>1, <2>3, <2>4, <2>5, ConcatEmptySeq
  <2>6. CASE Stripped(g) # <<>>
    <3>1. Stripped(g) \in Seq(C)
      BY <1>1
    <3>2. Append(Strip(gs), Stripped(g)) = Strip(gs) \o <<Stripped(g)>>
      BY <2>4, <3>1, AppendIsConcat
    <3> QED
      BY <2>1, <2>3, <2>4, <2>6, <3>2
  <2> QED
    BY <2>5, <2>6
<1>5. Alien(gs) \in Seq(C) /\ Strip(gs) \in Seq(Seq(C))
  <2> HIDE DEF F, G
  <2> QED
    BY <1>2, <1>3, FlattenMap
<1> QED
  BY <1>4, <1>5 DEF C

(* No group, no handler.                                                   *)
LEMMA AlienEmpty == Alien(<<>>) = <<>> /\ Strip(<<>>) = <<>>
<1>1. [i \in DOMAIN <<>> |-> Stripped(<<>>[i])] = <<>>
  OBVIOUS
<1>2. [i \in DOMAIN <<>> |->
         IF Stripped(<<>>[i]) = <<>> THEN <<>> ELSE <<Stripped(<<>>[i])>>] = <<>>
  OBVIOUS
<1> QED
  BY <1>1, <1>2 DEF Alien, Strip, FlattenSeq

(* Stripping takes no foreign handler away and changes not their order.    *)
LEMMA StripKeepsAliens ==
  ASSUME NEW T, NEW gs \in Seq(Seq(T))
  PROVE  Alien(Strip(gs)) = Alien(gs)
<1> DEFINE C == T \ Ours
           S == {hs \in Seq(Seq(T)) : Alien(Strip(hs)) = Alien(hs)}
<1>1. <<>> \in S
  BY AlienEmpty, EmptySeq
<1>2. ASSUME NEW hs \in Seq(Seq(T)), NEW g \in Seq(T), hs \in S PROVE Append(hs, g) \in S
  <2>1. /\ Append(hs, g) \in Seq(Seq(T)) /\ Strip(hs) \in Seq(Seq(C)) /\ Stripped(g) \in Seq(C)
        /\ Alien(hs) \in Seq(C)
    BY AppendProperties, StripAppend, StrippedAppend
  <2>2. Alien(Append(hs, g)) = Alien(hs) \o Stripped(g)
    BY StripAppend
  <2>3. Strip(Append(hs, g)) =
          IF Stripped(g) = <<>> THEN Strip(hs) ELSE Append(Strip(hs), Stripped(g))
    BY StripAppend
  <2>4. CASE Stripped(g) = <<>>
    BY <1>2, <2>1, <2>2, <2>3, <2>4, ConcatEmptySeq
  <2>5. CASE Stripped(g) # <<>>
    <3>1. Stripped(Stripped(g)) = Stripped(g)
      BY <2>1, StrippedTwice
    <3>2. Alien(Append(Strip(hs), Stripped(g))) = Alien(Strip(hs)) \o Stripped(Stripped(g))
      BY <2>1, StripAppend
    <3> QED
      BY <1>2, <2>1, <2>2, <2>3, <2>5, <3>1, <3>2
  <2> QED
    BY <2>4, <2>5
<1>3. Seq(Seq(T)) \subseteq S
  <2> HIDE DEF S
  <2> QED
    BY <1>1, <1>2, SeqInduction
<1> QED
  BY <1>3

(* One more group of a single handler.                                     *)
LEMMA StrippedOne ==
  ASSUME NEW h
  PROVE  Stripped(<<h>>) = IF h \in Ours THEN <<>> ELSE <<h>>
<1>1. <<>> \in Seq({h}) /\ Append(<<>>, h) = <<h>>
  OBVIOUS
<1>2. Stripped(<<>>) = <<>>
  <2>1. <<>> \in Seq({h} \ Ours)
    OBVIOUS
  <2> QED
    BY <2>1, StrippedTwice
<1>3. Stripped(Append(<<>>, h)) = IF h \in Ours THEN Stripped(<<>>) ELSE Append(Stripped(<<>>), h)
  BY <1>1, StrippedAppend
<1> QED
  BY <1>1, <1>2, <1>3

Spot(gs, i, j) == i \in DOMAIN gs /\ j \in DOMAIN gs[i] /\ gs[i][j] \in Ours

(* What is changed beside BeforeDone's handlers leaves them where they are. *)
LEMMA SameSpots ==
  ASSUME NEW gs, NEW ks,
         \A i, j : Spot(ks, i, j) <=> Spot(gs, i, j),
         \A i, j : Spot(gs, i, j) => ks[i][j] = gs[i][j]
  PROVE  /\ OurSpots(ks) = OurSpots(gs)
         /\ \A x \in Ours : ContainsExact(ks, x) => ContainsExact(gs, x)
<1>1. OurSpots(ks) = OurSpots(gs)
  <2>1. \A s : s \in OurSpots(ks) <=> \E i, j : s = <<i, j>> /\ Spot(ks, i, j)
    BY DEF OurSpots, Spot
  <2>2. \A s : s \in OurSpots(gs) <=> \E i, j : s = <<i, j>> /\ Spot(gs, i, j)
    BY DEF OurSpots, Spot
  <2> QED
    BY <2>1, <2>2
<1>2. ASSUME NEW x \in Ours, ContainsExact(ks, x) PROVE ContainsExact(gs, x)
  <2>1. PICK i, j : i \in DOMAIN ks /\ j \in DOMAIN ks[i] /\ ks[i][j] = x
    BY <1>2 DEF ContainsExact
  <2>2. Spot(ks, i, j)
    BY <2>1 DEF Spot
  <2>3. Spot(gs, i, j) /\ gs[i][j] = x
    BY <2>1, <2>2
  <2> QED
    BY <2>3 DEF Spot, ContainsExact
<1> QED
  BY <1>1, <1>2

(* Stripped, no group calls BeforeDone.                                    *)
LEMMA NoSpots ==
  ASSUME NEW T, T \cap Ours = {}, NEW gs \in Seq(Seq(T))
  PROVE  /\ \A i, j : ~Spot(gs, i, j)
         /\ OurSpots(gs) = {} /\ \A x \in Ours : ~ContainsExact(gs, x)
<1>1. ASSUME NEW i \in DOMAIN gs, NEW j \in DOMAIN gs[i] PROVE gs[i][j] \notin Ours
  <2>1. gs[i] \in Seq(T)
    BY LenProperties, ElementOfSeq
  <2>2. gs[i][j] \in T
    BY <2>1, LenProperties, ElementOfSeq
  <2> QED
    BY <2>2
<1> QED
  BY <1>1 DEF Spot, OurSpots, ContainsExact

(* Where nothing of BeforeDone's is left, the one handler is the only one. *)
LEMMA OneSpot ==
  ASSUME NEW T, T \cap Ours = {}, NEW gs \in Seq(Seq(T)), NEW x \in Ours
  PROVE  Cardinality(OurSpots(Append(gs, <<x>>))) = 1
<1> DEFINE n == Len(gs)
           a == Append(gs, <<x>>)
<1>1. n \in Nat /\ DOMAIN gs = 1 .. n
  BY LenProperties
<1>2. /\ DOMAIN a = 1 .. n + 1 /\ a[n + 1] = <<x>>
      /\ \A i \in 1 .. n : a[i] = gs[i]
  <2>1. gs \in Seq(Seq(T \cup {x})) /\ <<x>> \in Seq(T \cup {x})
    <3>1. Seq(T) \subseteq Seq(T \cup {x})
      BY SeqMonotonic
    <3>2. x \in T \cup {x}
      OBVIOUS
    <3> QED
      BY <3>1, <3>2, SeqMonotonic
  <2> QED
    BY <2>1, AppendProperties, LenProperties
<1> HIDE DEF a, n
<1>3. \A i, j : Spot(a, i, j) <=> i = n + 1 /\ j = 1
  <2>1. \A i, j : ~Spot(gs, i, j)
    BY NoSpots
  <2>2. \A i \in 1 .. n : \A j : ~Spot(a, i, j)
    BY <1>1, <1>2, <2>1 DEF Spot
  <2>3. \A j : Spot(a, n + 1, j) <=> j = 1
    BY <1>1, <1>2 DEF Spot
  <2> QED
    BY <1>1, <1>2, <2>2, <2>3 DEF Spot
<1>4. OurSpots(a) = {<<n + 1, 1>>}
  <2>1. \A s : s \in OurSpots(a) <=> \E i, j : s = <<i, j>> /\ Spot(a, i, j)
    BY DEF OurSpots, Spot
  <2> QED
    BY <1>3, <2>1
<1> QED
  BY <1>4, FS_Singleton DEF a

-----------------------------------------------------------------------------
(* What the commands make of a file.                                       *)

(* BeforeDone's handlers are those of some executable.                     *)
LEMMA HandlersAre ==
  /\ Foreign \cap Ours = {} /\ (Ours \cup Foreign) \ Ours = Foreign
  /\ Executables \subseteq Ours
BY SetupAssumption DEF Ours

(* A group of one handler of BeforeDone's hides no foreign one.            *)
LEMMA AlienOurs ==
  ASSUME NEW gs \in Seq(Seq(Foreign)), NEW x \in Ours
  PROVE  Alien(Append(gs, <<x>>)) = Alien(gs)
<1> DEFINE H == Ours \cup Foreign
<1>1. gs \in Seq(Seq(H)) /\ <<x>> \in Seq(H)
  <2>1. Seq(Foreign) \subseteq Seq(H)
    BY SeqMonotonic
  <2>2. x \in H
    OBVIOUS
  <2> HIDE DEF H
  <2> QED
    BY <2>1, <2>2, SeqMonotonic
<1>2. Alien(Append(gs, <<x>>)) = Alien(gs) \o Stripped(<<x>>) /\ Alien(gs) \in Seq(H \ Ours)
  BY <1>1, StripAppend
<1>3. Stripped(<<x>>) = <<>>
  BY StrippedOne
<1> QED
  BY <1>2, <1>3, ConcatEmptySeq

(* What a run of the command writes is a file of the same kind, in which   *)
(* BeforeDone is called once and no foreign handler is missing.            *)
LEMMA OutcomeIs ==
  ASSUME NEW file \in HookFiles, CalledOnce(file), NEW c \in Commands
  PROVE  /\ Outcome(c, file) \in HookFiles /\ CalledOnce(Outcome(c, file))
         /\ Aliens(Outcome(c, file)) = Aliens(file)
<1> DEFINE H == Ours \cup Foreign
           new == Outcome(c, file)
<1>1. c.path \in Executables /\ c.path \in Ours
  BY SetupAssumption, HandlersAre
<1>2. ASSUME NEW e \in Events
      PROVE  /\ file[e] \in Seq(Seq(H))
             /\ Strip(file[e]) \in Seq(Seq(Foreign)) /\ Strip(file[e]) \in Seq(Seq(H))
             /\ Alien(Strip(file[e])) = Alien(file[e])
  <2>1. file[e] \in Seq(Seq(H))
    BY DEF HookFiles
  <2>2. Strip(file[e]) \in Seq(Seq(H \ Ours)) /\ Alien(Strip(file[e])) = Alien(file[e])
    BY <2>1, StripAppend, StripKeepsAliens
  <2>3. Strip(file[e]) \in Seq(Seq(Foreign))
    BY <2>2, HandlersAre
  <2>4. Seq(Foreign) \subseteq Seq(H)
    BY SeqMonotonic
  <2> HIDE DEF H
  <2> QED
    BY <2>1, <2>2, <2>3, <2>4, SeqMonotonic
<1>3. ASSUME NEW e \in Events
      PROVE  LET gs == Append(Strip(file[e]), <<c.path>>)
             IN  /\ gs \in Seq(Seq(H)) /\ Cardinality(OurSpots(gs)) = 1
                 /\ Alien(gs) = Alien(file[e])
  <2>1. <<c.path>> \in Seq(H)
    <3>1. c.path \in H
      BY <1>1
    <3> HIDE DEF H
    <3> QED
      BY <3>1
  <2>2. Append(Strip(file[e]), <<c.path>>) \in Seq(Seq(H))
    BY <1>2, <2>1, AppendProperties
  <2>3. Cardinality(OurSpots(Append(Strip(file[e]), <<c.path>>))) = 1
    BY <1>1, <1>2, HandlersAre, OneSpot
  <2>4. Alien(Append(Strip(file[e]), <<c.path>>)) = Alien(file[e])
    BY <1>1, <1>2, AlienOurs
  <2> QED
    BY <2>2, <2>3, <2>4
<1>4. ASSUME NEW e \in Events
      PROVE  /\ new[e] \in Seq(Seq(H)) /\ Alien(new[e]) = Alien(file[e])
             /\ \/ new[e] = file[e]
                \/ Cardinality(OurSpots(new[e])) = 1
                \/ \A x \in Ours : ~ContainsExact(new[e], x)
  <2>1. CASE c.remove
    <3>1. new[e] = IF \E h \in Ours : ContainsExact(file[e], h) THEN Strip(file[e]) ELSE file[e]
      BY <2>1 DEF Outcome, Cleared
    <3>2. \A x \in Ours : ~ContainsExact(Strip(file[e]), x)
      BY <1>2, HandlersAre, NoSpots
    <3> QED
      BY <1>2, <3>1, <3>2
  <2>2. CASE ~c.remove
    <3>1. new[e] = IF e \in Others \/ ContainsExact(file[e], c.path) THEN file[e]
                   ELSE Append(Strip(file[e]), <<c.path>>)
      BY <2>2 DEF Outcome, Installed
    <3> QED
      BY <1>2, <1>3, <3>1
  <2> QED
    BY <2>1, <2>2
<1>5. new = [e \in Events |-> new[e]]
  BY DEF Outcome, Cleared, Installed
<1>6. CalledOnce(new)
  <2>1. \A e \in Lifecycle : e \in Events
    BY DEF Events
  <2> HIDE DEF new
  <2> QED
    BY <1>4, <2>1, HandlersAre DEF CalledOnce
<1> HIDE DEF new
<1>7. new \in HookFiles
  BY <1>4, <1>5 DEF HookFiles
<1>8. Aliens(new) = Aliens(file)
  BY <1>4 DEF Aliens
<1> QED
  BY <1>6, <1>7, <1>8 DEF new

(* A handler of the user's, in a group of its own or at the end of the     *)
(* last one, comes after all the others.                                   *)
LEMMA AddedIs ==
  ASSUME NEW gs \in Seq(Seq(Ours \cup Foreign)), NEW h \in Foreign, NEW ks,
         \/ ks = Append(gs, <<h>>)
         \/ gs # <<>> /\ ks = Front(gs) \o <<Append(Last(gs), h)>>
  PROVE  /\ ks \in Seq(Seq(Ours \cup Foreign)) /\ Alien(ks) = Append(Alien(gs), h)
         /\ OurSpots(ks) = OurSpots(gs)
         /\ \A x \in Ours : ContainsExact(ks, x) => ContainsExact(gs, x)
<1> DEFINE H == Ours \cup Foreign
<1>1. h \in H /\ h \notin Ours /\ h \in Foreign /\ Stripped(<<h>>) = <<h>>
  BY HandlersAre, StrippedOne
<1>2. H \ Ours = Foreign
  BY HandlersAre
<1> HIDE DEF H
<1>3. CASE ks = Append(gs, <<h>>)
  <2> DEFINE n == Len(gs)
  <2>1. <<h>> \in Seq(H) /\ gs \in Seq(Seq(H))
    BY <1>1 DEF H
  <2>2. /\ n \in Nat /\ DOMAIN gs = 1 .. n /\ ks \in Seq(Seq(H)) /\ DOMAIN ks = 1 .. n + 1
        /\ \A i \in 1 .. n : ks[i] = gs[i]
        /\ ks[n + 1] = <<h>>
    BY <1>3, <2>1, LenProperties, AppendProperties
  <2> HIDE DEF n
  <2>3. \A i, j : Spot(ks, i, j) <=> Spot(gs, i, j)
    <3>1. \A j : ~Spot(ks, n + 1, j)
      BY <1>1, <2>2 DEF Spot
    <3>2. \A i \in 1 .. n : \A j : Spot(ks, i, j) <=> Spot(gs, i, j)
      BY <2>2 DEF Spot
    <3>3. \A i : i \in DOMAIN ks => i \in 1 .. n \/ i = n + 1
      BY <2>2
    <3> QED
      BY <2>2, <3>1, <3>2, <3>3 DEF Spot
  <2>4. \A i, j : Spot(gs, i, j) => ks[i][j] = gs[i][j]
    BY <2>2 DEF Spot
  <2>5. Alien(ks) = Alien(gs) \o <<h>> /\ Alien(gs) \in Seq(Foreign)
    BY <1>1, <1>2, <1>3, <2>1, StripAppend
  <2>6. Alien(ks) = Append(Alien(gs), h)
    BY <1>1, <2>5, AppendIsConcat
  <2> QED
    BY <2>2, <2>3, <2>4, <2>6, SameSpots DEF H
<1>4. CASE gs # <<>> /\ ks = Front(gs) \o <<Append(Last(gs), h)>>
  <2>1. PICK r \in Seq(Seq(H)), g \in Seq(H) : gs = Append(r, g)
    BY <1>4, SequenceEmptyOrAppend DEF H
  <2> DEFINE n == Len(r)
             k == Append(g, h)
  <2>2. /\ n \in Nat /\ Len(gs) = n + 1 /\ DOMAIN gs = 1 .. n + 1
        /\ \A i \in 1 .. n : gs[i] = r[i]
        /\ gs[n + 1] = g
    BY <2>1, LenProperties, AppendProperties
  <2>3. Last(gs) = g
    BY <2>2 DEF Last
  <2>4. Front(gs) = r
    <3>1. Front(gs) = SubSeq(gs, 1, n)
      BY <2>2 DEF Front
    <3>2. 1 \in Int /\ n \in Int /\ \A i \in 1 .. n : gs[i] \in Seq(H)
      BY <2>1, <2>2, ElementOfSeq
    <3>3. /\ SubSeq(gs, 1, n) \in Seq(Seq(H))
          /\ Len(SubSeq(gs, 1, n)) = IF 1 <= n THEN n - 1 + 1 ELSE 0
          /\ \A i \in 1 .. n - 1 + 1 : SubSeq(gs, 1, n)[i] = gs[1 + i - 1]
      BY <3>2, SubSeqProperties
    <3> DEFINE f == SubSeq(gs, 1, n)
    <3> HIDE DEF f
    <3>4. f \in Seq(Seq(H)) /\ Len(f) = n /\ \A i \in 1 .. n : f[i] = r[i]
      BY <2>2, <3>3 DEF f
    <3>5. f = r
      BY <2>1, <3>4, SeqEqual
    <3> QED
      BY <3>1, <3>5 DEF f
  <2>5. k \in Seq(H) /\ ks = Append(r, k)
    <3>1. k \in Seq(H)
      BY <1>1, AppendProperties
    <3>2. ks = r \o <<k>>
      BY <1>4, <2>3, <2>4
    <3> HIDE DEF k
    <3> QED
      BY <2>1, <3>1, <3>2, AppendIsConcat
  <2>6. /\ ks \in Seq(Seq(H)) /\ DOMAIN ks = 1 .. n + 1
        /\ \A i \in 1 .. n : ks[i] = r[i]
        /\ ks[n + 1] = k
    <3> HIDE DEF k
    <3> QED
      BY <2>1, <2>5, LenProperties, AppendProperties
  <2>7. /\ Len(g) \in Nat /\ DOMAIN g = 1 .. Len(g) /\ DOMAIN k = 1 .. Len(g) + 1
        /\ \A j \in 1 .. Len(g) : k[j] = g[j]
        /\ k[Len(g) + 1] = h
    BY <1>1, LenProperties, AppendProperties
  <2> HIDE DEF n, k
  <2>8. \A i \in 1 .. n + 1 : i \in 1 .. n \/ i = n + 1
    BY <2>2
  <2>9. \A j \in DOMAIN k : j \in DOMAIN g \/ (j = Len(g) + 1 /\ k[j] \notin Ours)
    BY <1>1, <2>7
  <2>10. \A j \in DOMAIN g : j \in DOMAIN k /\ k[j] = g[j]
    BY <2>7
  <2>11. ASSUME NEW i, NEW j
         PROVE  (Spot(ks, i, j) <=> Spot(gs, i, j)) /\ (Spot(gs, i, j) => ks[i][j] = gs[i][j])
    <3>1. CASE i \in 1 .. n
      <4>1. ks[i] = gs[i] /\ i \in DOMAIN ks /\ i \in DOMAIN gs
        BY <2>2, <2>6, <3>1
      <4> QED
        BY <4>1 DEF Spot
    <3>2. CASE i = n + 1
      <4>1. ks[i] = k /\ gs[i] = g /\ i \in DOMAIN ks /\ i \in DOMAIN gs
        BY <2>2, <2>6, <3>2
      <4> QED
        BY <2>9, <2>10, <4>1 DEF Spot
    <3>3. CASE i \notin 1 .. n + 1
      BY <2>2, <2>6, <3>3 DEF Spot
    <3> QED
      BY <2>8, <3>1, <3>2, <3>3
  <2>12. Alien(ks) = Append(Alien(gs), h)
    <3>1. Alien(ks) = Alien(r) \o Stripped(k) /\ Alien(gs) = Alien(r) \o Stripped(g)
      BY <2>1, <2>5, StripAppend
    <3>2. Stripped(k) = Append(Stripped(g), h)
      BY <1>1, StrippedAppend DEF k
    <3>3. Alien(r) \in Seq(Foreign) /\ Stripped(g) \in Seq(Foreign)
      <4>1. Alien(r) \in Seq(H \ Ours) /\ Stripped(g) \in Seq(H \ Ours)
        BY StripAppend, StrippedAppend
      <4> QED
        BY <1>2, <4>1
    <3>4. Alien(r) \o Append(Stripped(g), h) = Append(Alien(r) \o Stripped(g), h)
      BY <1>1, <3>3, AppendToLast
    <3> QED
      BY <3>1, <3>2, <3>4
  <2> QED
    BY <2>6, <2>11, <2>12, SameSpots DEF H
<1> QED
  BY <1>3, <1>4

-----------------------------------------------------------------------------
(* The files that setups and the user write.                               *)

(* What a run that has read its file holds of it.                          *)
OutputHolds(p) ==
  IF command[p].target = "codex"
  THEN /\ output[p] \in HookFiles /\ CalledOnce(output[p])
       /\ "codex" \notin overtaken => Aliens(output[p]) = handlers
  ELSE output[p] = IF command[p].remove THEN Absent ELSE command[p].path

SetupHolds ==
  /\ command \in [Setups -> Commands] /\ DOMAIN output = Setups
  /\ phase \in [Setups -> {"idle", "read", "open", "done", "failed", "stopped"}]
  /\ unlinked \subseteq Setups /\ overtaken \subseteq {"codex", "pi"}
  /\ extension \in Executables \cup {Absent, Emptied, Garbled, Own}
  /\ hooks \in HookFiles \cup {Absent, Emptied, Garbled}
  /\ handlers \in [Events -> Seq(Foreign)]
  /\ \A p \in Setups : phase[p] \in {"read", "open"} => OutputHolds(p)
  /\ hooks \in HookFiles => CalledOnce(hooks)
  /\ "codex" \notin overtaken =>
       /\ hooks \in HookFiles => Aliens(hooks) = handlers
       /\ hooks = Absent => Aliens(Unhooked) = handlers

(* What a run was asked to do.                                             *)
LEMMA CommandsAre ==
  \A c \in Commands : c.target \in {"codex", "pi"} /\ c.remove \in BOOLEAN /\ c.path \in Executables
BY SetupAssumption

(* A missing, an empty and a garbled file are no object of hooks.          *)
LEMMA NoFile == {Absent, Emptied, Garbled} \cap HookFiles = {}
BY SetupAssumption

(* A file with no hook of any event.                                       *)
LEMMA UnhookedIs == Unhooked \in HookFiles /\ CalledOnce(Unhooked)
<1>1. <<>> \in Seq(Seq(Ours \cup Foreign))
  OBVIOUS
<1>2. Unhooked \in HookFiles
  BY <1>1 DEF Unhooked, HookFiles
<1>3. \A e \in Lifecycle : Unhooked[e] = <<>>
  BY DEF Unhooked, Events
<1> QED
  BY <1>2, <1>3 DEF CalledOnce, ContainsExact

(* The foreign handlers of a file, event by event.                         *)
LEMMA AliensAre == \A file \in HookFiles : Aliens(file) \in [Events -> Seq(Foreign)]
<1> SUFFICES ASSUME NEW file \in HookFiles, NEW e \in Events PROVE Alien(file[e]) \in Seq(Foreign)
  BY DEF Aliens
<1>1. file[e] \in Seq(Seq(Ours \cup Foreign))
  BY DEF HookFiles
<1>2. Alien(file[e]) \in Seq((Ours \cup Foreign) \ Ours)
  BY <1>1, StripAppend
<1> QED
  BY <1>2, HandlersAre

(* Before any run the first files are as they were found.                  *)
LEMMA SetupStarts == SetupInit => SetupHolds
<1> SUFFICES ASSUME SetupInit PROVE SetupHolds
  OBVIOUS
<1>1. hooks \in HookFiles \cup {Absent, Emptied, Garbled} /\ (hooks \in HookFiles => CalledOnce(hooks))
  BY SetupAssumption DEF SetupInit
<1>2. handlers = Aliens(IF Readable(hooks) THEN hooks ELSE Unhooked)
  BY DEF SetupInit
<1>3. (hooks \in HookFiles => Aliens(hooks) = handlers) /\ (hooks = Absent => Aliens(Unhooked) = handlers)
  BY <1>1, <1>2, NoFile DEF Readable
<1>4. handlers \in [Events -> Seq(Foreign)]
  BY <1>1, <1>2, AliensAre, UnhookedIs DEF Readable
<1> QED
  BY <1>1, <1>3, <1>4 DEF SetupHolds, SetupInit

(* A step of a run that leaves the files and the history alone.            *)
LEMMA PhaseMoves ==
  ASSUME SetupHolds, NEW p \in Setups, NEW to \in {"open", "done", "failed", "stopped"},
         phase' = [phase EXCEPT ![p] = to], to = "open" => phase[p] = "read",
         UNCHANGED <<command, output, handlers, overtaken>>
  PROVE  /\ phase' \in [Setups -> {"idle", "read", "open", "done", "failed", "stopped"}]
         /\ \A q \in Setups : phase'[q] \in {"read", "open"} => OutputHolds(q)'
<1>1. /\ phase \in [Setups -> {"idle", "read", "open", "done", "failed", "stopped"}]
      /\ \A q \in Setups : phase[q] \in {"read", "open"} => OutputHolds(q)
  BY DEF SetupHolds
<1>2. \A q \in Setups : OutputHolds(q)' <=> OutputHolds(q)
  BY DEF OutputHolds
<1>3. \A q \in Setups : phase'[q] \in {"read", "open"} => phase[q] \in {"read", "open"}
  BY <1>1
<1> QED
  BY <1>1, <1>2, <1>3

(* A run reads the file and decides what to write.                         *)
LEMMA RunReads ==
  ASSUME SetupHolds, NEW p \in Setups, ReadHooks(p) \/ ReadExtension(p)
  PROVE  SetupHolds'
<1>1. UNCHANGED <<hooks, extension, command, unlinked, handlers, owned, overtaken, edits>>
  BY DEF ReadHooks, ReadExtension, written, history
<1>2. ASSUME Reach(p, "idle", "read"), DOMAIN output' = Setups,
             OutputHolds(p)', \A q \in Setups : q # p => output'[q] = output[q]
      PROVE  SetupHolds'
  <2>1. phase' \in [Setups -> {"idle", "read", "open", "done", "failed", "stopped"}]
    BY <1>2 DEF Reach, SetupHolds
  <2>2. ASSUME NEW q \in Setups, q # p, phase'[q] \in {"read", "open"} PROVE OutputHolds(q)'
    <3>1. OutputHolds(q)
      BY <1>2, <2>2 DEF Reach, SetupHolds
    <3> QED
      BY <1>1, <1>2, <2>2, <3>1 DEF OutputHolds
  <2> QED
    BY <1>1, <1>2, <2>1, <2>2 DEF SetupHolds
<1>3. ASSUME NEW to \in {"done", "failed"}, Reach(p, "idle", to), UNCHANGED output
      PROVE  SetupHolds'
  <2>1. /\ phase' \in [Setups -> {"idle", "read", "open", "done", "failed", "stopped"}]
        /\ \A q \in Setups : phase'[q] \in {"read", "open"} => OutputHolds(q)'
    BY <1>1, <1>3, PhaseMoves DEF Reach
  <2> QED
    BY <1>1, <1>3, <2>1 DEF SetupHolds
<1>4. ASSUME ReadHooks(p) PROVE SetupHolds'
  <2> DEFINE file == IF hooks = Absent THEN Unhooked ELSE hooks
  <2>1. CASE /\ hooks \notin {Emptied, Garbled} /\ Reach(p, "idle", "read")
             /\ output' = [output EXCEPT ![p] = Outcome(command[p], file)]
    <3>1. file \in HookFiles /\ CalledOnce(file) /\ command[p] \in Commands
      BY <2>1, UnhookedIs DEF SetupHolds
    <3>2. "codex" \notin overtaken => Aliens(file) = handlers
      BY <2>1 DEF SetupHolds
    <3> HIDE DEF file
    <3>3. /\ Outcome(command[p], file) \in HookFiles /\ CalledOnce(Outcome(command[p], file))
          /\ Aliens(Outcome(command[p], file)) = Aliens(file)
      BY <3>1, OutcomeIs
    <3>4. output'[p] = Outcome(command[p], file) /\ DOMAIN output' = Setups
          /\ \A q \in Setups : q # p => output'[q] = output[q]
      BY <2>1 DEF SetupHolds
    <3>5. OutputHolds(p)'
      BY <1>1, <1>4, <3>2, <3>3, <3>4 DEF OutputHolds, ReadHooks
    <3> QED
      BY <1>2, <2>1, <3>4, <3>5
  <2>2. CASE (Reach(p, "idle", "failed") \/ Reach(p, "idle", "done")) /\ UNCHANGED output
    BY <1>3, <2>2
  <2> QED
    BY <1>4, <2>1, <2>2 DEF ReadHooks
<1>5. ASSUME ReadExtension(p) PROVE SetupHolds'
  <2> DEFINE text == IF command[p].remove THEN Absent ELSE command[p].path
  <2>1. CASE Reach(p, "idle", "read") /\ output' = [output EXCEPT ![p] = text]
    <3>1. output'[p] = text /\ DOMAIN output' = Setups
          /\ \A q \in Setups : q # p => output'[q] = output[q]
      BY <2>1 DEF SetupHolds
    <3>2. OutputHolds(p)'
      BY <1>1, <1>5, <3>1 DEF OutputHolds, ReadExtension
    <3> QED
      BY <1>2, <2>1, <3>1, <3>2
  <2>2. CASE (Reach(p, "idle", "failed") \/ Reach(p, "idle", "done")) /\ UNCHANGED output
    BY <1>3, <2>2
  <2> QED
    BY <1>5, <2>1, <2>2 DEF ReadExtension
<1> QED
  BY <1>4, <1>5

(* A run opens, writes or removes its file, or gives up.                   *)
LEMMA RunWrites ==
  ASSUME SetupHolds, NEW p \in Setups,
         NoConfig(p) \/ OpenFile(p) \/ WriteFile(p) \/ RemoveFile(p) \/ StopSetup(p)
  PROVE  SetupHolds'
<1>1. UNCHANGED <<command, output, handlers, owned, overtaken, edits>>
  BY DEF NoConfig, OpenFile, WriteFile, RemoveFile, StopSetup, history
<1>2. /\ phase' \in [Setups -> {"idle", "read", "open", "done", "failed", "stopped"}]
      /\ \A q \in Setups : phase'[q] \in {"read", "open"} => OutputHolds(q)'
  <2>1. \E to \in {"open", "done", "failed", "stopped"} :
          phase' = [phase EXCEPT ![p] = to] /\ (to = "open" => phase[p] = "read")
    BY DEF NoConfig, OpenFile, WriteFile, RemoveFile, StopSetup, Reach
  <2> QED
    BY <1>1, <2>1, PhaseMoves
<1>3. unlinked' \subseteq Setups
  BY DEF NoConfig, OpenFile, WriteFile, RemoveFile, StopSetup, SetupHolds
<1>4. phase[p] = "open" => OutputHolds(p)
  BY DEF SetupHolds
<1>5. command[p].target \in {"codex", "pi"} /\ command[p].path \in Executables
  BY CommandsAre DEF SetupHolds
<1>6. \/ extension' = extension
      \/ extension' \in {Absent, Emptied, Garbled}
      \/ extension' \in Executables \cup {Absent}
  <2>1. ASSUME WriteFile(p), extension' # extension PROVE extension' \in Executables \cup {Absent, Garbled}
    <3>1. extension' \in {output[p], Garbled} /\ command[p].target # "codex" /\ phase[p] = "open"
      BY <2>1 DEF WriteFile, written, Over, Reach
    <3> QED
      BY <1>4, <1>5, <3>1 DEF OutputHolds
  <2> QED
    BY <2>1 DEF NoConfig, OpenFile, RemoveFile, StopSetup, written
<1>7. \/ hooks' = hooks
      \/ hooks' \in {Emptied, Garbled}
      \/ OutputHolds(p) /\ command[p].target = "codex" /\ hooks' = output[p]
  <2>1. ASSUME WriteFile(p), hooks' # hooks
        PROVE  hooks' \in {output[p], Garbled} /\ command[p].target = "codex" /\ phase[p] = "open"
    BY <2>1 DEF WriteFile, written, Over, Reach
  <2> QED
    BY <1>4, <2>1 DEF NoConfig, OpenFile, RemoveFile, StopSetup, written
<1>8. /\ hooks' \in HookFiles \cup {Absent, Emptied, Garbled}
      /\ hooks' \in HookFiles => CalledOnce(hooks')
      /\ "codex" \notin overtaken =>
           /\ hooks' \in HookFiles => Aliens(hooks') = handlers
           /\ hooks' = Absent => Aliens(Unhooked) = handlers
  <2>1. CASE hooks' = hooks
    BY <2>1 DEF SetupHolds
  <2>2. CASE hooks' \in {Emptied, Garbled}
    <3>1. hooks' \notin HookFiles /\ hooks' # Absent
      BY <2>2, NoFile, SetupAssumption
    <3> QED
      BY <2>2, <3>1
  <2>3. CASE OutputHolds(p) /\ command[p].target = "codex" /\ hooks' = output[p]
    <3>1. hooks' \in HookFiles /\ CalledOnce(hooks') /\ ("codex" \notin overtaken => Aliens(hooks') = handlers)
      BY <2>3 DEF OutputHolds
    <3> QED
      BY <3>1, NoFile
  <2> QED
    BY <1>7, <2>1, <2>2, <2>3
<1> QED
  BY <1>1, <1>2, <1>3, <1>6, <1>8 DEF SetupHolds

(* A user who edits a file has all runs that have read it overtaken.       *)
LEMMA EditOvertakes ==
  ASSUME SetupHolds, NEW target \in {"codex", "pi"}, Edit(target)
  PROVE  /\ UNCHANGED <<command, phase, output, unlinked>>
         /\ overtaken' \subseteq {"codex", "pi"} /\ overtaken \subseteq overtaken'
         /\ \A p \in Setups : phase[p] \in {"read", "open"} /\ command[p].target = target => target \in overtaken'
BY DEF Edit, running, SetupHolds

(* A user adds a handler.                                                  *)
LEMMA UserAdds ==
  ASSUME SetupHolds, NEW e \in Events, NEW h \in Foreign, AddHandler(e, h)
  PROVE  SetupHolds'
<1> DEFINE file == IF hooks = Absent THEN Unhooked ELSE hooks
           gs   == file[e]
           ks   == hooks'[e]
<1>1. /\ UNCHANGED <<command, phase, output, unlinked, extension>>
      /\ overtaken' \subseteq {"codex", "pi"} /\ overtaken \subseteq overtaken'
      /\ \A p \in Setups : phase[p] \in {"read", "open"} /\ command[p].target = "codex" => "codex" \in overtaken'
  BY EditOvertakes DEF AddHandler
<1>2. file \in HookFiles /\ CalledOnce(file) /\ ("codex" \notin overtaken => Aliens(file) = handlers)
  BY UnhookedIs DEF AddHandler, SetupHolds
<1>3. \/ hooks' = [file EXCEPT ![e] = Append(@, <<h>>)]
      \/ file[e] # <<>> /\ hooks' = [file EXCEPT ![e] = Front(@) \o <<Append(Last(@), h)>>]
  BY DEF AddHandler
<1>4. handlers' = [handlers EXCEPT ![e] = Append(@, h)] /\ handlers \in [Events -> Seq(Foreign)]
  BY DEF AddHandler, SetupHolds
<1> HIDE DEF file
<1>5. gs \in Seq(Seq(Ours \cup Foreign)) /\ DOMAIN file = Events
  BY <1>2 DEF HookFiles
<1>6. /\ \/ ks = Append(gs, <<h>>)
         \/ gs # <<>> /\ ks = Front(gs) \o <<Append(Last(gs), h)>>
      /\ hooks' = [file EXCEPT ![e] = ks]
  BY <1>3, <1>5
<1>7. /\ ks \in Seq(Seq(Ours \cup Foreign)) /\ Alien(ks) = Append(Alien(gs), h)
      /\ OurSpots(ks) = OurSpots(gs)
      /\ \A x \in Ours : ContainsExact(ks, x) => ContainsExact(gs, x)
  BY <1>5, <1>6, AddedIs
<1>8. hooks' \in HookFiles
  BY <1>2, <1>6, <1>7 DEF HookFiles
<1>9. \A d \in Events : d # e => hooks'[d] = file[d]
  BY <1>5, <1>6
<1>10. CalledOnce(hooks')
  <2>1. Executables \subseteq Ours
    BY HandlersAre
  <2> QED
    BY <1>2, <1>7, <1>9, <2>1 DEF CalledOnce, Events
<1>11. "codex" \notin overtaken' => Aliens(hooks') = handlers'
  <2> SUFFICES ASSUME "codex" \notin overtaken', NEW d \in Events
               PROVE  Alien(hooks'[d]) = handlers'[d]
    BY <1>4 DEF Aliens
  <2>1. Alien(file[d]) = handlers[d]
    BY <1>1, <1>2 DEF Aliens
  <2> QED
    BY <1>4, <1>7, <1>9, <2>1
<1>12. handlers' \in [Events -> Seq(Foreign)]
  <2>1. Append(handlers[e], h) \in Seq(Foreign)
    BY <1>4, AppendProperties
  <2> QED
    BY <1>4, <2>1
<1>13. \A p \in Setups : phase'[p] \in {"read", "open"} => OutputHolds(p)'
  <2> SUFFICES ASSUME NEW p \in Setups, phase[p] \in {"read", "open"} PROVE OutputHolds(p)'
    BY <1>1
  <2>1. OutputHolds(p)
    BY DEF SetupHolds
  <2> QED
    BY <1>1, <2>1 DEF OutputHolds
<1>14. hooks' # Absent
  BY <1>8, NoFile
<1> QED
  BY <1>1, <1>8, <1>10, <1>11, <1>12, <1>13, <1>14 DEF SetupHolds

(* A user removes the hooks file, or writes an extension of their own.     *)
LEMMA UserDrops ==
  ASSUME SetupHolds, DropHooks \/ WriteOwn
  PROVE  SetupHolds'
<1>1. ASSUME DropHooks PROVE SetupHolds'
  <2>1. /\ UNCHANGED <<command, phase, output, unlinked, extension>>
        /\ overtaken' \subseteq {"codex", "pi"} /\ overtaken \subseteq overtaken'
        /\ \A p \in Setups : phase[p] \in {"read", "open"} /\ command[p].target = "codex" => "codex" \in overtaken'
    BY <1>1, EditOvertakes DEF DropHooks
  <2>2. hooks' = Absent /\ handlers' = Aliens(Unhooked)
    BY <1>1 DEF DropHooks
  <2>3. hooks' \notin HookFiles /\ handlers' \in [Events -> Seq(Foreign)]
    BY <2>2, NoFile, UnhookedIs, AliensAre
  <2>4. \A p \in Setups : phase'[p] \in {"read", "open"} => OutputHolds(p)'
    <3> SUFFICES ASSUME NEW p \in Setups, phase[p] \in {"read", "open"} PROVE OutputHolds(p)'
      BY <2>1
    <3>1. OutputHolds(p)
      BY DEF SetupHolds
    <3> QED
      BY <2>1, <3>1 DEF OutputHolds
  <2> QED
    BY <2>1, <2>2, <2>3, <2>4 DEF SetupHolds
<1>2. ASSUME WriteOwn PROVE SetupHolds'
  <2>1. /\ UNCHANGED <<command, phase, output, unlinked, hooks, handlers>> /\ extension' = Own
        /\ overtaken' \subseteq {"codex", "pi"} /\ overtaken \subseteq overtaken'
    BY <1>2, EditOvertakes DEF WriteOwn
  <2>2. \A p \in Setups : phase'[p] \in {"read", "open"} => OutputHolds(p)'
    <3> SUFFICES ASSUME NEW p \in Setups, phase[p] \in {"read", "open"} PROVE OutputHolds(p)'
      BY <2>1
    <3>1. OutputHolds(p)
      BY DEF SetupHolds
    <3> QED
      BY <2>1, <3>1 DEF OutputHolds
  <2> QED
    BY <2>1, <2>2 DEF SetupHolds
<1> QED
  BY <1>1, <1>2

(* Every step keeps the invariant of the files.                            *)
LEMMA SetupHoldsOn == SetupHolds /\ [SetupNext]_setupVars => SetupHolds'
<1> SUFFICES ASSUME SetupHolds, [SetupNext]_setupVars PROVE SetupHolds'
  OBVIOUS
<1>1. CASE \E p \in Setups : SetupStep(p)
  BY <1>1, RunReads, RunWrites DEF SetupStep
<1>2. CASE \E e \in Events, h \in Foreign : AddHandler(e, h)
  BY <1>2, UserAdds
<1>3. CASE DropHooks \/ WriteOwn
  BY <1>3, UserDrops
<1>4. CASE UNCHANGED setupVars
  <2>1. UNCHANGED <<hooks, extension, command, phase, output, unlinked, handlers, overtaken>>
    BY <1>4 DEF setupVars, written, running, history
  <2>2. \A p \in Setups : OutputHolds(p)' <=> OutputHolds(p)
    BY <2>1 DEF OutputHolds
  <2> QED
    BY <2>1, <2>2 DEF SetupHolds
<1> QED
  BY <1>1, <1>2, <1>3, <1>4 DEF SetupNext

(* Every file is of its type, BeforeDone is called once in each that a     *)
(* setup wrote, and every run that has read the hooks file and was not     *)
(* overtaken by an edit holds a new one with all of the user's handlers    *)
(* (codex.go:120-244).                                                     *)
THEOREM SetupInductive == SetupSpec => []SetupHolds
BY SetupStarts, SetupHoldsOn, PTL DEF SetupSpec

(* The files, the commands and what the runs hold of them are of their     *)
(* types.                                                                  *)
THEOREM SetupTypeCorrect == SetupSpec => []SetupTypeOK
<1>1. SetupHolds => SetupTypeOK
  <2> SUFFICES ASSUME SetupHolds PROVE SetupTypeOK
    OBVIOUS
  <2>1. ASSUME NEW p \in Setups, phase[p] \in {"read", "open"}
        PROVE  output[p] = Absent <=> Removes(p)
    <3>1. OutputHolds(p)
      BY <2>1 DEF SetupHolds
    <3>2. command[p].target \in {"codex", "pi"} /\ command[p].path \in Executables
      BY CommandsAre DEF SetupHolds
    <3>3. Absent \notin Executables /\ Absent \notin HookFiles
      BY SetupAssumption, NoFile
    <3> QED
      BY <3>1, <3>2, <3>3 DEF OutputHolds, Removes
  <2>2. Readable(hooks) => hooks \in HookFiles
    BY DEF Readable, SetupHolds
  <2> QED
    BY <2>1, <2>2 DEF SetupHolds, SetupTypeOK
<1> QED
  BY <1>1, SetupInductive, PTL

(* codexHooks, stripBeforeDone: after any number of setups and removals,   *)
(* from any executables, at once or in turn, no event calls BeforeDone     *)
(* twice.                                                                  *)
THEOREM OneHandlerHolds == SetupSpec => []OneHandler
<1>1. SetupHolds => OneHandler
  BY DEF SetupHolds, OneHandler, Readable
<1> QED
  BY <1>1, SetupInductive, PTL

(* stripBeforeDone: no handler of the user's is lost or changes its place, *)
(* but those added while a run had the file in hand.                       *)
THEOREM ForeignKeptHolds == SetupSpec => []ForeignKept
<1>1. SetupHolds => ForeignKept
  BY DEF SetupHolds, ForeignKept, Readable
<1> QED
  BY <1>1, SetupInductive, PTL

-----------------------------------------------------------------------------
(* The Pi extension.                                                       *)

(* The branch: a correction follows the guard's entry, and only an input   *)
(* of the user lies between it and whatever gives the guard back.          *)
Separated(b) ==
  \A k \in DOMAIN b : b[k] = "sent" =>
    /\ k > 1 /\ b[k - 1] = "used"
    /\ \A m \in k + 1 .. Len(b) : b[m] \in {"free", "sent"} =>
         \E h \in k + 1 .. m - 1 : b[h] = "human"

(* A correction was sent since the user's last input.                      *)
Open(b) ==
  \E k \in DOMAIN b : b[k] = "sent" /\ \A m \in k .. Len(b) : b[m] # "human"

(* The guard in memory and the corrections on the branch.                  *)
GuardKnows ==
  /\ loaded /\ Open(branch) => used
  /\ used => spoiled \/ Open(branch)

GuardHolds ==
  /\ branch \in Seq(Entries)
  /\ {loaded, used, own, unwritten, spoiled} \subseteq BOOLEAN
  /\ coming \in Nat
  /\ Separated(branch)
  /\ used => loaded
  /\ GuardKnows
  /\ GuardOnBranch

(* Only an extension that is loaded has handlers.                          *)
HandlersHold ==
  /\ settling \in [Settles -> {"none", "recording", "gating", "done"}]
  /\ told \in [Settles -> {"none", "allowed", "refused", "unguarded", "sent", "unsent", "lost"}]
  /\ \A i \in Settles : settling[i] = "done" <=> told[i] # "none"
  /\ ingests \in Seq(Settles) /\ IsInjective(ingests)
  /\ ToSet(ingests) = {i \in Settles : settling[i] = "recording"}
  /\ \A i \in Settles : settling[i] \in {"recording", "gating"} => loaded

SessionHolds ==
  /\ working \in BOOLEAN /\ (working => loaded)
  /\ inputs \in 0 .. MaxInputs
  /\ restores \in 0 .. MaxRestores

PiIInv == GuardHolds /\ HandlersHold /\ SessionHolds

-----------------------------------------------------------------------------
(* Branches that grow and branches that are cut.                           *)

LEMMA AppendOne ==
  ASSUME NEW b \in Seq(Entries), NEW x \in Entries
  PROVE  /\ Append(b, x) \in Seq(Entries)
         /\ Len(Append(b, x)) = Len(b) + 1
         /\ Len(b) \in Nat
         /\ DOMAIN b = 1 .. Len(b)
         /\ DOMAIN Append(b, x) = 1 .. Len(b) + 1
         /\ \A k \in 1 .. Len(b) : Append(b, x)[k] = b[k]
         /\ Append(b, x)[Len(b) + 1] = x
OBVIOUS

LEMMA RestoredAfter ==
  ASSUME NEW b \in Seq(Entries), NEW x \in Entries
  PROVE  /\ x = "used" => Restored(Append(b, x))
         /\ x = "free" => ~Restored(Append(b, x))
         /\ x \in {"human", "sent"} => (Restored(Append(b, x)) <=> Restored(b))
<1> DEFINE c == Append(b, x)
<1>1. /\ Len(c) = Len(b) + 1 /\ Len(b) \in Nat
      /\ DOMAIN b = 1 .. Len(b) /\ DOMAIN c = 1 .. Len(b) + 1
      /\ \A k \in 1 .. Len(b) : c[k] = b[k]
      /\ c[Len(b) + 1] = x
  BY AppendOne
<1> HIDE DEF c
<1>2. x = "used" => Restored(c)
  BY <1>1 DEF Restored
<1>3. x = "free" => ~Restored(c)
  BY <1>1 DEF Restored
<1>4. ASSUME x \in {"human", "sent"}, Restored(c) PROVE Restored(b)
  BY <1>1, <1>4 DEF Restored
<1>5. ASSUME x \in {"human", "sent"}, Restored(b) PROVE Restored(c)
  <2>1. PICK k \in 1 .. Len(b) : b[k] = "used" /\ \A m \in k + 1 .. Len(b) : b[m] # "free"
    BY <1>1, <1>5 DEF Restored
  <2>2. \A m \in k + 1 .. Len(c) : m \in k + 1 .. Len(b) \/ m = Len(b) + 1
    BY <1>1
  <2> QED
    BY <1>1, <1>5, <2>1, <2>2 DEF Restored
<1> QED
  BY <1>2, <1>3, <1>4, <1>5 DEF c

LEMMA OpenAfter ==
  ASSUME NEW b \in Seq(Entries), NEW x \in Entries
  PROVE  /\ x = "human" => ~Open(Append(b, x))
         /\ x = "sent" => Open(Append(b, x))
         /\ x \in {"free", "used"} => (Open(Append(b, x)) <=> Open(b))
<1> DEFINE c == Append(b, x)
<1>1. /\ Len(c) = Len(b) + 1 /\ Len(b) \in Nat
      /\ DOMAIN b = 1 .. Len(b) /\ DOMAIN c = 1 .. Len(b) + 1
      /\ \A k \in 1 .. Len(b) : c[k] = b[k]
      /\ c[Len(b) + 1] = x
  BY AppendOne
<1> HIDE DEF c
<1>2. x = "human" => ~Open(c)
  BY <1>1 DEF Open
<1>3. x = "sent" => Open(c)
  <2>1. \A m \in Len(b) + 1 .. Len(c) : m = Len(b) + 1
    BY <1>1
  <2> QED
    BY <1>1, <2>1 DEF Open
<1>4. ASSUME x \in {"free", "used"}, Open(c) PROVE Open(b)
  BY <1>1, <1>4 DEF Open
<1>5. ASSUME x \in {"free", "used"}, Open(b) PROVE Open(c)
  <2>1. PICK k \in 1 .. Len(b) : b[k] = "sent" /\ \A m \in k .. Len(b) : b[m] # "human"
    BY <1>1, <1>5 DEF Open
  <2>2. \A m \in k .. Len(c) : m \in k .. Len(b) \/ m = Len(b) + 1
    BY <1>1
  <2> QED
    BY <1>1, <1>5, <2>1, <2>2 DEF Open
<1> QED
  BY <1>2, <1>3, <1>4, <1>5 DEF c

(* The guard is given back, and a correction sent, only where none is open.*)
LEMMA SeparatedAfter ==
  ASSUME NEW b \in Seq(Entries), NEW x \in Entries, Separated(b),
         x \in {"free", "sent"} => ~Open(b),
         x = "sent" => Len(b) > 0 /\ b[Len(b)] = "used"
  PROVE  Separated(Append(b, x))
<1> DEFINE c == Append(b, x)
<1>1. /\ Len(c) = Len(b) + 1 /\ Len(b) \in Nat
      /\ DOMAIN b = 1 .. Len(b) /\ DOMAIN c = 1 .. Len(b) + 1
      /\ \A k \in 1 .. Len(b) : c[k] = b[k]
      /\ c[Len(b) + 1] = x
  BY AppendOne
<1> HIDE DEF c
<1>2. SUFFICES ASSUME NEW k \in 1 .. Len(b) + 1, c[k] = "sent"
               PROVE  /\ k > 1 /\ c[k - 1] = "used"
                      /\ \A m \in k + 1 .. Len(c) : c[m] \in {"free", "sent"} =>
                           \E h \in k + 1 .. m - 1 : c[h] = "human"
  BY <1>1 DEF Separated, c
<1>3. CASE k = Len(b) + 1
  <2>1. x = "sent" /\ Len(b) > 0 /\ b[Len(b)] = "used"
    BY <1>1, <1>2, <1>3
  <2>2. k - 1 = Len(b) /\ k + 1 .. Len(c) = {}
    BY <1>1, <1>3
  <2> QED
    BY <1>1, <1>3, <2>1, <2>2
<1>4. CASE k \in 1 .. Len(b)
  <2>1. b[k] = "sent"
    BY <1>1, <1>2, <1>4
  <2>2. k > 1 /\ b[k - 1] = "used"
    BY <1>1, <1>4, <2>1 DEF Separated
  <2>3. c[k - 1] = "used"
    BY <1>1, <1>4, <2>2
  <2>4. ASSUME NEW m \in k + 1 .. Len(c), c[m] \in {"free", "sent"}
        PROVE  \E h \in k + 1 .. m - 1 : c[h] = "human"
    <3>1. CASE m \in k + 1 .. Len(b)
      <4>1. b[m] \in {"free", "sent"}
        BY <1>1, <1>4, <2>4, <3>1
      <4>2. PICK h \in k + 1 .. m - 1 : b[h] = "human"
        BY <1>1, <1>4, <2>1, <3>1, <4>1 DEF Separated
      <4> QED
        BY <1>1, <1>4, <3>1, <4>2
    <3>2. CASE m = Len(b) + 1
      <4>1. ~Open(b)
        BY <1>1, <2>4, <3>2
      <4>2. PICK h \in k .. Len(b) : b[h] = "human"
        BY <1>1, <1>4, <2>1, <4>1 DEF Open
      <4>3. h # k
        BY <2>1, <4>2
      <4> QED
        BY <1>1, <1>4, <3>2, <4>2, <4>3
    <3> QED
      BY <1>1, <2>4, <3>1, <3>2
  <2> QED
    BY <2>2, <2>3, <2>4
<1> QED
  BY <1>3, <1>4

(* An earlier entry is the end of a branch of the same form.               *)
LEMMA CutBranch ==
  ASSUME NEW b \in Seq(Entries), NEW n \in 0 .. Len(b), Separated(b)
  PROVE  SubSeq(b, 1, n) \in Seq(Entries) /\ Separated(SubSeq(b, 1, n))
<1> DEFINE c == SubSeq(b, 1, n)
<1>1. /\ c \in Seq(Entries) /\ Len(c) = n /\ DOMAIN c = 1 .. n
      /\ \A k \in 1 .. n : c[k] = b[k]
      /\ DOMAIN b = 1 .. Len(b) /\ Len(b) \in Nat
  OBVIOUS
<1> HIDE DEF c
<1>2. Separated(c)
  BY <1>1 DEF Separated
<1> QED
  BY <1>1, <1>2 DEF c

(* A session start finds the guard used if a correction is open.           *)
LEMMA OpenIsRestored ==
  ASSUME NEW b \in Seq(Entries), Separated(b), Open(b)
  PROVE  Restored(b)
<1>1. DOMAIN b = 1 .. Len(b) /\ Len(b) \in Nat
  OBVIOUS
<1>2. PICK k \in 1 .. Len(b) : b[k] = "sent" /\ \A m \in k .. Len(b) : b[m] # "human"
  BY <1>1 DEF Open
<1>3. k > 1 /\ b[k - 1] = "used"
  BY <1>1, <1>2 DEF Separated
<1>4. \A m \in k + 1 .. Len(b) : b[m] # "free"
  BY <1>1, <1>2 DEF Separated
<1>5. \A m \in (k - 1) + 1 .. Len(b) : m = k \/ m \in k + 1 .. Len(b)
  BY <1>1
<1>6. \A m \in (k - 1) + 1 .. Len(b) : b[m] # "free"
  BY <1>2, <1>4, <1>5
<1>7. k - 1 \in 1 .. Len(b)
  BY <1>1, <1>3
<1> QED
  BY <1>1, <1>3, <1>6, <1>7 DEF Restored

-----------------------------------------------------------------------------
(* The queue of the stopping events.                                       *)

LEMMA QueueGrows ==
  ASSUME NEW S, NEW q \in Seq(S), NEW i \in S, IsInjective(q), i \notin ToSet(q)
  PROVE  /\ Append(q, i) \in Seq(S)
         /\ ToSet(Append(q, i)) = ToSet(q) \cup {i}
         /\ IsInjective(Append(q, i))
<1> DEFINE r == Append(q, i)
<1>1. /\ r \in Seq(S) /\ Len(q) \in Nat
      /\ DOMAIN q = 1 .. Len(q) /\ DOMAIN r = 1 .. Len(q) + 1
      /\ \A k \in 1 .. Len(q) : r[k] = q[k]
      /\ r[Len(q) + 1] = i
  OBVIOUS
<1> HIDE DEF r
<1>2. ToSet(r) = ToSet(q) \cup {i}
  BY <1>1 DEF ToSet
<1>3. IsInjective(r)
  BY <1>1 DEF ToSet, IsInjective
<1> QED
  BY <1>1, <1>2, <1>3 DEF r

LEMMA QueueShrinks ==
  ASSUME NEW S, NEW q \in Seq(S), q # <<>>, IsInjective(q)
  PROVE  /\ Head(q) \in ToSet(q)
         /\ Tail(q) \in Seq(S)
         /\ ToSet(Tail(q)) = ToSet(q) \ {Head(q)}
         /\ IsInjective(Tail(q))
<1> DEFINE r == Tail(q)
<1>1. /\ r \in Seq(S) /\ Len(q) \in Nat /\ Len(q) > 0
      /\ DOMAIN q = 1 .. Len(q) /\ DOMAIN r = 1 .. Len(q) - 1
      /\ \A k \in 1 .. Len(q) - 1 : r[k] = q[k + 1]
      /\ Head(q) = q[1]
  OBVIOUS
<1> HIDE DEF r
<1>2. \A k \in 2 .. Len(q) : k - 1 \in DOMAIN r /\ r[k - 1] = q[k] /\ q[k] # q[1]
  BY <1>1 DEF IsInjective
<1>3. ToSet(r) = ToSet(q) \ {Head(q)}
  <2>1. ToSet(r) \subseteq ToSet(q) \ {Head(q)}
    <3>1. \A k \in DOMAIN r : r[k] = q[k + 1] /\ k + 1 \in DOMAIN q /\ k + 1 \in 2 .. Len(q)
      BY <1>1
    <3> QED
      BY <1>1, <1>2, <3>1 DEF ToSet
  <2>2. ToSet(q) \ {Head(q)} \subseteq ToSet(r)
    <3>1. SUFFICES ASSUME NEW k \in DOMAIN q, q[k] # q[1] PROVE q[k] \in ToSet(r)
      BY <1>1 DEF ToSet
    <3>2. k \in 2 .. Len(q)
      BY <1>1, <3>1
    <3>3. k - 1 \in DOMAIN r /\ r[k - 1] = q[k]
      BY <1>2, <3>2
    <3> QED
      BY <3>3 DEF ToSet
  <2> QED
    BY <2>1, <2>2
<1>4. IsInjective(r)
  <2>1. SUFFICES ASSUME NEW j \in DOMAIN r, NEW k \in DOMAIN r, r[j] = r[k] PROVE j = k
    BY DEF IsInjective
  <2>2. j + 1 \in DOMAIN q /\ k + 1 \in DOMAIN q /\ q[j + 1] = q[k + 1]
    BY <1>1, <2>1
  <2>3. j + 1 = k + 1
    BY <2>2 DEF IsInjective
  <2> QED
    BY <1>1, <2>3
<1>5. Head(q) \in ToSet(q)
  BY <1>1 DEF ToSet
<1> QED
  BY <1>1, <1>3, <1>4, <1>5 DEF r

-----------------------------------------------------------------------------
(* What the handlers do to the branch and the guard.                       *)

(* The guard that a session start finds is used or free.                   *)
LEMMA RestoredIsBoolean == \A b : Restored(b) \in BOOLEAN
BY DEF Restored

LEMMA EntriesAre == {"human", "free", "used", "sent"} \subseteq Entries
BY DEF Entries

LEMMA TakeInputKeeps ==
  ASSUME GuardHolds, NEW source \in {"human", "extension"}, NEW w \in BOOLEAN,
         TakeInput(source, w), loaded' = loaded, coming' \in Nat
  PROVE  GuardHolds'
<1>1. CASE Shares(source)
  BY <1>1 DEF TakeInput, GuardHolds, GuardKnows, GuardOnBranch, piHistory
<1>2. CASE ~Shares(source)
  <2> DEFINE b == IF source = "human" THEN Append(branch, "human") ELSE branch
  <2>1. /\ loaded /\ used' = FALSE /\ own' = FALSE
        /\ branch' = IF w THEN Append(b, "free") ELSE b
        /\ unwritten' = ~w
        /\ spoiled' = (~w \/ (spoiled /\ source # "human"))
    BY <1>2 DEF TakeInput, Persist
  <2>2. b \in Seq(Entries) /\ Separated(b)
    BY EntriesAre, AppendOne, SeparatedAfter DEF GuardHolds
  <2>3. ~Open(b)
    <3>1. CASE source = "human"
      BY <3>1, EntriesAre, OpenAfter DEF GuardHolds
    <3>2. CASE source = "extension"
      BY <1>2, <2>1, <3>2 DEF Shares, GuardHolds, GuardKnows
    <3> QED
      BY <3>1, <3>2
  <2> HIDE DEF b
  <2>4. /\ branch' \in Seq(Entries) /\ Separated(branch')
        /\ ~Open(branch')
        /\ w => ~Restored(branch')
    BY <2>1, <2>2, <2>3, EntriesAre, AppendOne, SeparatedAfter, OpenAfter, RestoredAfter
  <2> QED
    BY <2>1, <2>4, RestoredIsBoolean DEF GuardHolds, GuardKnows, GuardOnBranch
<1> QED
  BY <1>1, <1>2

LEMMA RequestKeeps ==
  ASSUME GuardHolds, loaded, loaded' = loaded, NEW i \in Settles, RequestOneCorrection(i)
  PROVE  GuardHolds'
<1>1. CASE Refuse(i)
  BY <1>1 DEF Refuse, guard, piHistory, GuardHolds, GuardKnows, GuardOnBranch
<1>2. CASE Unguarded(i)
  BY <1>2 DEF Unguarded, Persist, GuardHolds, GuardKnows, GuardOnBranch
<1> DEFINE b == Append(branch, "used")
<1>3. ASSUME ~used
      PROVE  /\ b \in Seq(Entries) /\ Separated(b) /\ ~Open(b) /\ Restored(b)
             /\ Len(b) > 0 /\ b[Len(b)] = "used"
  <2>1. branch \in Seq(Entries) /\ Separated(branch) /\ ~Open(branch)
    BY <1>3 DEF GuardHolds, GuardKnows
  <2> QED
    BY <2>1, EntriesAre, AppendOne, SeparatedAfter, OpenAfter, RestoredAfter
<1>4. CASE Send(i)
  <2>1. /\ ~used /\ used' = TRUE /\ own' = TRUE /\ unwritten' = FALSE
        /\ coming' = coming + 1 /\ spoiled' = spoiled
    BY <1>4 DEF Send
  <2>2. branch' = Append(b, "sent")
    BY <1>4 DEF Send, GuardHolds
  <2> HIDE DEF b
  <2>3. /\ branch' \in Seq(Entries) /\ Separated(branch') /\ Open(branch')
        /\ Restored(branch')
    BY <1>3, <2>1, <2>2, EntriesAre, AppendOne, SeparatedAfter, OpenAfter, RestoredAfter
  <2>4. coming' \in Nat
    BY <2>1 DEF GuardHolds
  <2>5. GuardOnBranch'
    BY <2>1, <2>3, RestoredIsBoolean DEF GuardOnBranch
  <2>6. GuardKnows'
    BY <2>1, <2>3 DEF GuardKnows
  <2> QED
    BY <2>1, <2>3, <2>4, <2>5, <2>6 DEF GuardHolds
<1>5. ASSUME NEW w \in BOOLEAN, SendFailed(i, w) PROVE GuardHolds'
  <2>1. /\ ~used /\ used' = FALSE /\ own' = FALSE /\ coming' = coming
        /\ spoiled' = (spoiled \/ ~w) /\ unwritten' = ~w
        /\ branch' = IF w THEN Append(b, "free") ELSE b
    BY <1>5 DEF SendFailed, Persist
  <2> HIDE DEF b
  <2>2. /\ branch' \in Seq(Entries) /\ Separated(branch') /\ ~Open(branch')
        /\ w => ~Restored(branch')
    BY <1>3, <2>1, EntriesAre, AppendOne, SeparatedAfter, OpenAfter, RestoredAfter
  <2> QED
    BY <2>1, <2>2, RestoredIsBoolean DEF GuardHolds, GuardKnows, GuardOnBranch
<1> QED
  BY <1>1, <1>2, <1>4, <1>5 DEF RequestOneCorrection

LEMMA RestoreKeeps ==
  ASSUME GuardHolds, NEW n, NEW there \in BOOLEAN, Restore(n, there), own' \in BOOLEAN
  PROVE  GuardHolds'
<1>1. /\ n \in 0 .. Len(branch) /\ branch' = SubSeq(branch, 1, n)
      /\ loaded' = there /\ used' = (there /\ Restored(branch'))
      /\ coming' = 0 /\ unwritten' = FALSE /\ spoiled' = TRUE
  BY DEF Restore
<1>2. branch' \in Seq(Entries) /\ Separated(branch')
  BY <1>1, CutBranch DEF GuardHolds
<1>3. Open(branch') => Restored(branch')
  BY <1>2, OpenIsRestored
<1>4. used' \in BOOLEAN /\ loaded' \in BOOLEAN
  BY <1>1, RestoredIsBoolean
<1> QED
  BY <1>1, <1>2, <1>3, <1>4, RestoredIsBoolean DEF GuardHolds, GuardKnows, GuardOnBranch

LEMMA InputUnseenKeeps == ASSUME GuardHolds, InputUnseen PROVE GuardHolds'
<1>1. /\ ~loaded /\ loaded' = loaded /\ branch' = Append(branch, "human")
      /\ used' = used /\ own' = own /\ coming' = coming
      /\ unwritten' = unwritten /\ spoiled' = spoiled
  BY DEF InputUnseen, guard, piHistory
<1>2. branch' \in Seq(Entries) /\ Separated(branch')
  BY <1>1, EntriesAre, AppendOne, SeparatedAfter DEF GuardHolds
<1> QED
  BY <1>1, <1>2 DEF GuardHolds, GuardKnows, GuardOnBranch

-----------------------------------------------------------------------------
(* The handlers.                                                           *)

Ends == {"allowed", "refused", "unguarded", "sent", "unsent"}

LEMMA RequestEnds ==
  ASSUME NEW i \in Settles, RequestOneCorrection(i)
  PROVE  \E how \in Ends : End(i, how)
BY DEF RequestOneCorrection, Refuse, Unguarded, Send, SendFailed, Ends

LEMMA EndKeeps ==
  ASSUME HandlersHold, NEW i \in Settles, NEW how \in Ends, settling[i] = "gating",
         End(i, how), ingests' = ingests, loaded' = loaded
  PROVE  HandlersHold'
<1>1. /\ settling' \in [Settles -> {"none", "recording", "gating", "done"}]
      /\ told' \in [Settles -> {"none", "allowed", "refused", "unguarded", "sent", "unsent", "lost"}]
      /\ settling'[i] = "done" /\ told'[i] = how /\ how # "none"
      /\ \A j \in Settles \ {i} : settling'[j] = settling[j] /\ told'[j] = told[j]
  BY DEF HandlersHold, End, Ends
<1>2. {j \in Settles : settling'[j] = "recording"} = {j \in Settles : settling[j] = "recording"}
  BY <1>1
<1> QED
  BY <1>1, <1>2 DEF HandlersHold

(* The first of the queue leaves it, to ask the gate or at an end.         *)
LEMMA IngestKeeps ==
  ASSUME HandlersHold, NEW i \in Settles, Ingest(i),
         \/ settling' = [settling EXCEPT ![i] = "gating"] /\ told' = told
         \/ \E how \in Ends : End(i, how)
  PROVE  HandlersHold'
<1>1. settling[i] = "recording"
  BY QueueShrinks DEF HandlersHold, Ingest
<1>2. /\ ingests' \in Seq(Settles) /\ IsInjective(ingests')
      /\ ToSet(ingests') = ToSet(ingests) \ {i}
  BY QueueShrinks DEF HandlersHold, Ingest
<1>3. /\ settling' \in [Settles -> {"none", "recording", "gating", "done"}]
      /\ told' \in [Settles -> {"none", "allowed", "refused", "unguarded", "sent", "unsent", "lost"}]
      /\ settling'[i] \in {"gating", "done"}
      /\ settling'[i] = "done" <=> told'[i] # "none"
      /\ \A j \in Settles \ {i} : settling'[j] = settling[j] /\ told'[j] = told[j]
  BY <1>1 DEF HandlersHold, End, Ends
<1>4. {j \in Settles : settling'[j] = "recording"}
        = {j \in Settles : settling[j] = "recording"} \ {i}
  BY <1>3
<1>5. loaded /\ loaded' = loaded
  BY <1>1 DEF HandlersHold, Ingest
<1>6. ToSet(ingests') = {j \in Settles : settling'[j] = "recording"}
  BY <1>2, <1>4 DEF HandlersHold
<1>7. \A j \in Settles : settling'[j] = "done" <=> told'[j] # "none"
  BY <1>3 DEF HandlersHold
<1> QED
  BY <1>2, <1>3, <1>5, <1>6, <1>7 DEF HandlersHold

LEMMA SettledKeeps ==
  ASSUME HandlersHold, SessionHolds, NEW i \in Settles, AgentSettled(i)
  PROVE  HandlersHold'
<1>1. /\ settling[i] = "none" /\ loaded /\ loaded' = loaded /\ told' = told
      /\ ingests' = Append(ingests, i)
      /\ settling' = [settling EXCEPT ![i] = "recording"]
  BY DEF AgentSettled, SessionHolds
<1>2. i \notin ToSet(ingests)
  BY <1>1 DEF HandlersHold
<1>3. /\ ingests' \in Seq(Settles) /\ IsInjective(ingests')
      /\ ToSet(ingests') = ToSet(ingests) \cup {i}
  BY <1>1, <1>2, QueueGrows DEF HandlersHold
<1>4. /\ settling' \in [Settles -> {"none", "recording", "gating", "done"}]
      /\ settling'[i] = "recording"
      /\ \A j \in Settles \ {i} : settling'[j] = settling[j]
  BY <1>1 DEF HandlersHold
<1>5. {j \in Settles : settling'[j] = "recording"}
        = {j \in Settles : settling[j] = "recording"} \cup {i}
  BY <1>4
<1>6. ToSet(ingests') = {j \in Settles : settling'[j] = "recording"}
  BY <1>3, <1>5 DEF HandlersHold
<1>7. \A j \in Settles : settling'[j] = "done" <=> told'[j] # "none"
  BY <1>1, <1>4 DEF HandlersHold
<1> QED
  BY <1>1, <1>3, <1>4, <1>6, <1>7 DEF HandlersHold

LEMMA RestartKeeps ==
  ASSUME HandlersHold, NEW n, NEW there \in BOOLEAN, Restart(n, there)
  PROVE  HandlersHold'
<1>1. /\ ingests' = <<>>
      /\ settling' = [i \in Settles |-> IF settling[i] = "none" THEN "none" ELSE "done"]
      /\ told' = [i \in Settles |->
                    IF settling[i] \in {"recording", "gating"} THEN "lost" ELSE told[i]]
  BY DEF Restart
<1>2. \A i \in Settles : settling'[i] \in {"none", "done"}
  BY <1>1
<1>3. ingests' \in Seq(Settles) /\ IsInjective(ingests') /\ ToSet(ingests') = {}
  BY <1>1 DEF IsInjective, ToSet
<1>4. /\ settling' \in [Settles -> {"none", "recording", "gating", "done"}]
      /\ told' \in [Settles -> {"none", "allowed", "refused", "unguarded", "sent", "unsent", "lost"}]
      /\ \A i \in Settles : settling'[i] = "done" <=> told'[i] # "none"
  BY <1>1 DEF HandlersHold
<1>5. {i \in Settles : settling'[i] = "recording"} = {}
  BY <1>2
<1> QED
  BY <1>2, <1>3, <1>4, <1>5 DEF HandlersHold

-----------------------------------------------------------------------------
(* The inductive invariant.                                                *)

LEMMA BoundsAreNumbers == MaxInputs \in Nat /\ MaxRestores \in Nat
BY PiAssumption

LEMMA PiIInvInit == PiInit => PiIInv
<1> SUFFICES ASSUME PiInit PROVE PiIInv
  OBVIOUS
<1>1. branch = <<>> /\ branch \in Seq(Entries) /\ DOMAIN branch = {}
  BY DEF PiInit
<1>2. Separated(branch) /\ ~Open(branch) /\ ~Restored(branch)
  BY <1>1 DEF Separated, Open, Restored
<1>3. GuardHolds
  BY <1>1, <1>2, RestoredIsBoolean DEF PiInit, GuardHolds, GuardKnows, GuardOnBranch
<1>4. ingests \in Seq(Settles) /\ IsInjective(ingests) /\ ToSet(ingests) = {}
  BY DEF PiInit, IsInjective, ToSet
<1>5. HandlersHold
  BY <1>4 DEF PiInit, HandlersHold
<1>6. SessionHolds
  <2>1. inputs \in 0 .. MaxInputs /\ restores \in 0 .. MaxRestores
    BY BoundsAreNumbers DEF PiInit
  <2>2. working = FALSE
    BY DEF PiInit
  <2> QED
    BY <2>1, <2>2 DEF SessionHolds
<1> QED
  BY <1>3, <1>5, <1>6 DEF PiIInv

LEMMA SessionStarts ==
  ASSUME SessionHolds, NEW n, NEW there, Restore(n, there) PROVE SessionHolds'
<1>1. inputs' = inputs /\ restores' = restores + 1 /\ restores < MaxRestores
  BY DEF Restore
<1>2. working' = FALSE
  BY DEF Restore
<1>3. inputs' \in 0 .. MaxInputs /\ restores' \in 0 .. MaxRestores
  BY <1>1, BoundsAreNumbers DEF SessionHolds
<1> QED
  BY <1>2, <1>3 DEF SessionHolds

LEMMA PiIInvStep ==
  ASSUME PiIInv, NEW there \in BOOLEAN, PiNext(there)
  PROVE  PiIInv'
<1> USE DEF PiIInv
<1>1. ASSUME NEW source \in {"human", "extension"}, NEW w \in BOOLEAN, Input(source, w)
      PROVE  PiIInv'
  <2>1. GuardHolds'
    BY <1>1, TakeInputKeeps DEF Input, GuardHolds
  <2>2. HandlersHold'
    BY <1>1 DEF Input, handler, HandlersHold
  <2>3. SessionHolds'
    BY <1>1, BoundsAreNumbers DEF Input, TakeInput, SessionHolds
  <2> QED
    BY <2>1, <2>2, <2>3
<1>2. ASSUME InputUnseen PROVE PiIInv'
  <2>1. GuardHolds'
    BY <1>2, InputUnseenKeeps
  <2>2. HandlersHold'
    BY <1>2 DEF InputUnseen, handler, HandlersHold
  <2>3. SessionHolds'
    BY <1>2, BoundsAreNumbers DEF InputUnseen, SessionHolds
  <2> QED
    BY <2>1, <2>2, <2>3
<1>3. ASSUME NEW w \in BOOLEAN, CorrectionInput(w) PROVE PiIInv'
  <2>1. coming' \in Nat
    BY <1>3 DEF CorrectionInput, GuardHolds
  <2>2. GuardHolds'
    BY <1>3, <2>1, TakeInputKeeps DEF CorrectionInput
  <2>3. HandlersHold'
    BY <1>3 DEF CorrectionInput, handler, HandlersHold
  <2>4. SessionHolds'
    BY <1>3 DEF CorrectionInput, counts, TakeInput, SessionHolds
  <2> QED
    BY <2>2, <2>3, <2>4
<1>4. ASSUME NEW i \in Settles, AgentSettled(i) PROVE PiIInv'
  <2>1. GuardHolds'
    BY <1>4 DEF AgentSettled, guard, piHistory, GuardHolds, GuardKnows, GuardOnBranch
  <2>2. HandlersHold'
    BY <1>4, SettledKeeps
  <2>3. SessionHolds'
    BY <1>4 DEF AgentSettled, counts, SessionHolds
  <2> QED
    BY <2>1, <2>2, <2>3
<1>5. ASSUME NEW i \in Settles, Recorded(i) PROVE PiIInv'
  <2>1. GuardHolds'
    BY <1>5 DEF Recorded, Ingest, guard, piHistory, GuardHolds, GuardKnows, GuardOnBranch
  <2>2. HandlersHold'
    BY <1>5, IngestKeeps DEF Recorded
  <2>3. SessionHolds'
    BY <1>5 DEF Recorded, Ingest, counts, SessionHolds
  <2> QED
    BY <2>1, <2>2, <2>3
<1>6. ASSUME NEW i \in Settles, NotRecorded(i) PROVE PiIInv'
  <2>1. loaded /\ loaded' = loaded
    BY <1>6, QueueShrinks DEF NotRecorded, Ingest, HandlersHold
  <2>2. GuardHolds'
    BY <1>6, <2>1, RequestKeeps DEF NotRecorded
  <2>3. HandlersHold'
    BY <1>6, IngestKeeps, RequestEnds DEF NotRecorded
  <2>4. SessionHolds'
    BY <1>6 DEF NotRecorded, Ingest, counts, SessionHolds
  <2> QED
    BY <2>2, <2>3, <2>4
<1>7. ASSUME NEW i \in Settles, GateAllows(i) PROVE PiIInv'
  <2>1. GuardHolds'
    BY <1>7 DEF GateAllows, guard, piHistory, GuardHolds, GuardKnows, GuardOnBranch
  <2>2. HandlersHold'
    BY <1>7, EndKeeps DEF GateAllows, Ends
  <2>3. SessionHolds'
    BY <1>7 DEF GateAllows, counts, SessionHolds
  <2> QED
    BY <2>1, <2>2, <2>3
<1>8. ASSUME NEW i \in Settles, GateBlocks(i) PROVE PiIInv'
  <2>1. loaded /\ loaded' = loaded
    BY <1>8 DEF GateBlocks, HandlersHold
  <2>2. GuardHolds'
    BY <1>8, <2>1, RequestKeeps DEF GateBlocks
  <2>3. HandlersHold'
    BY <1>8, <2>1, EndKeeps, RequestEnds DEF GateBlocks
  <2>4. SessionHolds'
    BY <1>8 DEF GateBlocks, counts, SessionHolds
  <2> QED
    BY <2>2, <2>3, <2>4
<1>9. ASSUME NEW n \in 0 .. Len(branch), Restart(n, there) PROVE PiIInv'
  <2>1. GuardHolds'
    BY <1>9, RestoreKeeps DEF Restart
  <2>2. HandlersHold'
    BY <1>9, RestartKeeps
  <2>3. SessionHolds'
    BY <1>9, SessionStarts DEF Restart
  <2> QED
    BY <2>1, <2>2, <2>3
<1>10. ASSUME NEW n \in 0 .. Len(branch), Rewind(n) PROVE PiIInv'
  <2>1. GuardHolds'
    BY <1>10, RestoreKeeps DEF Rewind, GuardHolds
  <2>2. HandlersHold'
    BY <1>10 DEF Rewind, Restore, handler, HandlersHold
  <2>3. SessionHolds'
    BY <1>10, SessionStarts DEF Rewind
  <2> QED
    BY <2>1, <2>2, <2>3
<1> QED
  BY <1>1, <1>2, <1>3, <1>4, <1>5, <1>6, <1>7, <1>8, <1>9, <1>10 DEF PiNext

LEMMA PiIInvStutter == ASSUME PiIInv, UNCHANGED piVars PROVE PiIInv'
BY DEF PiIInv, piVars, guard, handler, counts, piHistory, GuardHolds, GuardKnows,
       GuardOnBranch, HandlersHold, SessionHolds

(* Whatever is said, settles, fails or is started again, the guard, the    *)
(* branch and the handlers keep the relation of the inductive invariant.   *)
THEOREM PiInductive == PiSpec => []PiIInv
<1>1. PiIInv /\ [\E there \in BOOLEAN : PiNext(there)]_piVars => PiIInv'
  BY PiIInvStep, PiIInvStutter
<1> QED
  BY <1>1, PiIInvInit, PTL DEF PiSpec

(* The variables of the extension are of their types, and its queue holds  *)
(* the handlers that wait for it, once.                                    *)
THEOREM PiTypeCorrect == PiSpec => []PiTypeOK
<1>1. PiIInv => PiTypeOK
  BY DEF PiIInv, GuardHolds, HandlersHold, SessionHolds, PiTypeOK
<1> QED
  BY <1>1, PiInductive, PTL

(* requestOneCorrection: no branch has two corrections between two inputs  *)
(* of the user.                                                            *)
THEOREM OneCorrectionHolds == PiSpec => []OneCorrection
<1>1. ASSUME PiIInv PROVE OneCorrection
  <2>1. branch \in Seq(Entries) /\ Separated(branch) /\ DOMAIN branch = 1 .. Len(branch)
        /\ Len(branch) \in Nat
    BY <1>1 DEF PiIInv, GuardHolds
  <2>2. ASSUME NEW k \in Corrections, NEW m \in Corrections, k < m PROVE FALSE
    <3>1. k \in 1 .. Len(branch) /\ m \in k + 1 .. Len(branch) /\ branch[k] = "sent" /\ branch[m] = "sent"
      BY <2>1, <2>2 DEF Corrections
    <3>2. PICK h \in k + 1 .. m - 1 : branch[h] = "human"
      BY <2>1, <3>1 DEF Separated
    <3> QED
      BY <2>1, <3>1, <3>2 DEF Corrections
  <2>3. \A k, m \in Corrections : k = m
    <3>1. Corrections \subseteq Int
      BY <2>1 DEF Corrections
    <3> QED
      BY <2>2, <3>1
  <2>4. Corrections = {} \/ \E k : Corrections = {k}
    BY <2>3
  <2>5. Cardinality(Corrections) = 0 \/ Cardinality(Corrections) = 1
    BY <2>4, FS_EmptySet, FS_Singleton, Zenon
  <2> QED
    BY <2>5 DEF OneCorrection
<1> QED
  BY <1>1, PiInductive, PTL

(* restoreStopState: a session start finds the guard that is in use.       *)
THEOREM GuardOnBranchHolds == PiSpec => []GuardOnBranch
<1>1. PiIInv => GuardOnBranch
  BY DEF PiIInv, GuardHolds
<1> QED
  BY <1>1, PiInductive, PTL

(* requestOneCorrection: no failure uses up the correction of the user's   *)
(* input, unless a session start or the loss of an entry hid it.           *)
THEOREM CorrectionNotWastedHolds == PiSpec => CorrectionNotWasted
<1> DEFINE Kept == \A i \in Settles :
                     told[i] = "none" /\ told'[i] = "refused" => spoiled \/ Corrections # {}
<1>1. ASSUME PiIInv, NEW there \in BOOLEAN, PiNext(there) PROVE Kept
  <2>1. SUFFICES ASSUME NEW i \in Settles, told[i] = "none", told'[i] = "refused"
                 PROVE  spoiled \/ Corrections # {}
    OBVIOUS
  <2>2. told \in [Settles -> {"none", "allowed", "refused", "unguarded", "sent", "unsent", "lost"}]
    BY <1>1 DEF PiIInv, HandlersHold
  <2>3. used
    <3>1. ASSUME NEW j \in Settles, RequestOneCorrection(j) PROVE used
      BY <2>1, <2>2, <3>1
         DEF RequestOneCorrection, Refuse, Unguarded, Send, SendFailed, End
    <3>2. ASSUME NEW j \in Settles, AgentSettled(j) \/ Recorded(j) \/ GateAllows(j) PROVE FALSE
      BY <2>1, <2>2, <3>2 DEF AgentSettled, Recorded, GateAllows, End
    <3>3. ASSUME \/ \E s \in {"human", "extension"}, w \in BOOLEAN : Input(s, w)
                 \/ InputUnseen
                 \/ \E w \in BOOLEAN : CorrectionInput(w)
                 \/ \E n \in 0 .. Len(branch) : Rewind(n)
          PROVE  FALSE
      BY <2>1, <3>3 DEF Input, InputUnseen, CorrectionInput, Rewind, handler
    <3>4. ASSUME NEW n \in 0 .. Len(branch), Restart(n, there) PROVE FALSE
      BY <2>1, <3>4 DEF Restart
    <3> QED
      BY <1>1, <3>1, <3>2, <3>3, <3>4 DEF PiNext, NotRecorded, GateBlocks
  <2>4. Open(branch) => Corrections # {}
    BY DEF Open, Corrections
  <2> QED
    BY <1>1, <2>3, <2>4 DEF PiIInv, GuardHolds, GuardKnows
<1>2. PiIInv /\ [\E there \in BOOLEAN : PiNext(there)]_piVars => [Kept]_piVars
  BY <1>1
<1> QED
  BY <1>2, PiInductive, PTL DEF PiSpec, CorrectionNotWasted

-----------------------------------------------------------------------------
(* The listing of the files that a fingerprint covers.                     *)

(* Each file is in the list once, and there are not too many.              *)
ListIsSound(list) ==
  /\ list \in Seq(Paths) /\ Len(list) <= MaxFiles
  /\ \A i, j \in DOMAIN list : list[i] = list[j] => i = j

(* The first k patterns have been handed to Git, with every ignored file   *)
(* that they match.                                                        *)
HandedOver(k) ==
  /\ pending = SubSeq(patterns, k + 1, Len(patterns))
  /\ GlobsAgree /\ stage # "refused" =>
       \A f \in Paths, i \in 1 .. k :
         been[f] = {"ignored"} /\ Matches(Pieces(patterns[i]), f) => f \in ToSet(files)

ListingHolds ==
  /\ \E request \in Requests : patterns = request.patterns
  /\ status \in [Paths -> Statuses] /\ been \in [Paths -> SUBSET Statuses]
  /\ \A f \in Paths : status[f] \in been[f]
  /\ stage \in {"idle", "files", "ignored", "links", "listed", "refused"}
  /\ modes \cup gitlinks \subseteq Paths
  /\ changes \in 0 .. MaxChanges
  /\ ListIsSound(files)
  /\ stage \in {"ignored", "links", "listed"} =>
       \A f \in Paths : been[f] \subseteq Emitted /\ Relevant(f) => f \in ToSet(files)
  /\ \E k \in 0 .. Len(patterns) : HandedOver(k)
  /\ stage \in {"links", "listed"} => pending = <<>>

(* What a call of Git adds to the list.                                    *)
LEMMA CollectAdds ==
  ASSUME ListIsSound(files), NEW emitted \in SUBSET Paths, NEW next, Collect(emitted, next)
  PROVE  /\ ListIsSound(files')
         /\ ToSet(files) \subseteq ToSet(files')
         /\ \/ stage' = "refused"
            \/ stage' = next /\ \A f \in emitted : Relevant(f) => f \in ToSet(files')
<1> DEFINE found == {f \in emitted : Relevant(f)} \ ToSet(files)
           s     == SetToSeq(found)
<1>1. IsFiniteSet(found) /\ found \subseteq Paths
  <2>1. found \in SUBSET Paths /\ IsFiniteSet(Paths)
    BY FilesAssumption
  <2> QED
    BY <2>1, FS_Subset
<1>2. /\ s \in Seq(found) /\ Len(s) = Cardinality(found)
      /\ \A i, j \in DOMAIN s : s[i] = s[j] => i = j
      /\ ToSet(s) = found
  BY <1>1, SetIsListed
<1>3. CASE stage' = "refused" /\ files' = files
  BY <1>3
<1>4. CASE /\ stage' = next /\ files' = files \o SetToSeq(found)
           /\ ~(Len(files) + Cardinality(found) > MaxFiles)
  <2> DEFINE t == files \o s
  <2>0. found \cap ToSet(files) = {} /\ {f \in emitted : Relevant(f)} \subseteq found \cup ToSet(files)
    OBVIOUS
  <2>1. files \in Seq(Paths) /\ Len(files) <= MaxFiles
        /\ \A i, j \in DOMAIN files : files[i] = files[j] => i = j
    BY DEF ListIsSound
  <2>2. files' = t /\ ~(Len(files) + Cardinality(found) > MaxFiles)
    BY <1>4
  <2> HIDE DEF found, s
  <2>3. s \in Seq(Paths)
    BY <1>1, <1>2, SeqMonotonic
  <2>4. /\ t \in Seq(Paths) /\ Len(t) = Len(files) + Len(s)
        /\ \A i \in 1 .. Len(files) + Len(s) :
             t[i] = IF i <= Len(files) THEN files[i] ELSE s[i - Len(files)]
    BY <2>1, <2>3, ConcatProperties
  <2>5. Len(files) \in Nat /\ Len(s) \in Nat /\ DOMAIN files = 1 .. Len(files)
        /\ DOMAIN s = 1 .. Len(s) /\ DOMAIN t = 1 .. Len(t) /\ MaxFiles \in Nat
    BY <2>1, <2>3, <2>4, LenProperties, FilesAssumption
  <2> HIDE DEF t
  <2>6. \A i \in 1 .. Len(files) : files[i] \in ToSet(files)
    BY <2>5 DEF ToSet
  <2>7. \A i \in 1 .. Len(s) : s[i] \in found
    BY <1>2, <2>5 DEF ToSet
  <2>8. \A i, j \in DOMAIN t : t[i] = t[j] => i = j
    <3> SUFFICES ASSUME NEW i \in DOMAIN t, NEW j \in DOMAIN t, t[i] = t[j], i <= j PROVE i = j
      BY <2>4, <2>5
    <3>1. CASE j <= Len(files)
      BY <2>1, <2>4, <2>5, <3>1
    <3>2. CASE i <= Len(files) /\ j > Len(files)
      <4>1. t[i] = files[i] /\ t[j] = s[j - Len(files)] /\ i \in 1 .. Len(files)
            /\ j - Len(files) \in 1 .. Len(s)
        BY <2>4, <2>5, <3>2
      <4> QED
        BY <2>0, <2>6, <2>7, <4>1
    <3>3. CASE i > Len(files)
      <4>1. t[i] = s[i - Len(files)] /\ t[j] = s[j - Len(files)]
            /\ i - Len(files) \in DOMAIN s /\ j - Len(files) \in DOMAIN s
        BY <2>4, <2>5, <3>3
      <4>2. i - Len(files) = j - Len(files)
        BY <1>2, <4>1
      <4> QED
        BY <2>4, <2>5, <4>2
    <3> QED
      BY <2>4, <2>5, <3>1, <3>2, <3>3
  <2>9. ListIsSound(t)
    BY <1>2, <2>2, <2>4, <2>5, <2>8 DEF ListIsSound
  <2>10. ToSet(files) \subseteq ToSet(t) /\ found \subseteq ToSet(t)
    <3>1. ASSUME NEW i \in DOMAIN files PROVE files[i] \in ToSet(t)
      <4>1. i \in DOMAIN t /\ t[i] = files[i]
        BY <2>4, <2>5, <3>1
      <4> QED
        BY <4>1 DEF ToSet
    <3>2. ASSUME NEW i \in DOMAIN s PROVE s[i] \in ToSet(t)
      <4>1. Len(files) + i \in DOMAIN t /\ t[Len(files) + i] = s[i]
        BY <2>4, <2>5, <3>2
      <4>2. t[Len(files) + i] \in ToSet(t)
        BY <4>1 DEF ToSet
      <4> QED
        BY <4>1, <4>2
    <3> QED
      BY <1>2, <3>1, <3>2 DEF ToSet
  <2> QED
    BY <1>4, <2>0, <2>2, <2>9, <2>10
<1> QED
  BY <1>3, <1>4 DEF Collect

(* There is a batch: as many patterns as fit, the first in any case.       *)
LEMMA BatchIs ==
  ASSUME pending # <<>>, NEW T, pending \in Seq(T)
  PROVE  Batch \in 1 .. Len(pending)
<1> DEFINE last(n) == n = Len(pending) \/ ~InBatch(n + 1)
           S       == {n \in 1 .. Len(pending) : last(n)}
<1>1. Len(pending) \in Nat /\ Len(pending) # 0 /\ DOMAIN pending = 1 .. Len(pending)
  BY LenProperties, EmptySeq
<1>2. Len(pending) \in S /\ S \in SUBSET Nat
  BY <1>1
<1>3. PICK m \in S : \A n \in S : m <= n
  <2> HIDE DEF S
  <2> QED
    BY <1>2, Least
<1>4. InBatch(m)
  <2>1. CASE m = 1
    BY <2>1 DEF InBatch
  <2>2. CASE m # 1
    <3>1. m \in 1 .. Len(pending)
      BY <1>3
    <3> DEFINE k == m - 1
    <3>2. k \in 1 .. Len(pending) /\ k + 1 = m
      <4>1. Len(pending) \in Nat /\ m \in 1 .. Len(pending) /\ m # 1
        BY <1>1, <2>2, <3>1
      <4>2. m \in Nat
        BY <4>1
      <4> HIDE DEF S
      <4> QED
        BY <4>1, <4>2
    <3>3. k \notin S
      <4>1. ~(m <= k)
        BY <3>1, <3>2
      <4> HIDE DEF S
      <4> QED
        BY <1>3, <4>1
    <3>4. ~last(k)
      BY <3>2, <3>3
    <3>5. InBatch(k + 1)
      BY <3>4
    <3> QED
      BY <3>2, <3>5
  <2> QED
    BY <2>1, <2>2
<1>5. \E n \in DOMAIN pending : InBatch(n) /\ (n = Len(pending) \/ ~InBatch(n + 1))
  BY <1>1, <1>3, <1>4
<1> QED
  BY <1>1, <1>5 DEF Batch

(* At first every pattern is still to be handed to Git.                    *)
LEMMA ListingStarts == FilesInit => ListingHolds
<1> SUFFICES ASSUME NEW request \in Requests, Begin(request) PROVE ListingHolds
  BY DEF FilesInit
<1>1. request.patterns \in Seq(Seq(STRING)) /\ request.status \in [Paths -> Statuses]
  BY FilesAssumption
<1>2. patterns = request.patterns /\ status = request.status /\ pending = patterns
  BY DEF Begin
<1>3. patterns \in Seq(Seq(STRING)) /\ Len(patterns) \in Nat
  BY <1>1, <1>2, LenProperties
<1>4. pending = SubSeq(patterns, 0 + 1, Len(patterns))
  BY <1>2, <1>3, SubSeqFull
<1>5. HandedOver(0) /\ 0 \in 0 .. Len(patterns)
  BY <1>3, <1>4 DEF HandedOver
<1>6. ListIsSound(files)
  <2>1. files = <<>> /\ MaxFiles \in Nat
    BY FilesAssumption DEF Begin
  <2> QED
    BY <2>1, EmptySeq DEF ListIsSound
<1>7. 0 \in 0 .. MaxChanges
  BY FilesAssumption
<1>8. been \in [Paths -> SUBSET Statuses] /\ \A f \in Paths : status[f] \in been[f]
  BY <1>1, <1>2 DEF Begin
<1> QED
  BY <1>1, <1>2, <1>5, <1>6, <1>7, <1>8 DEF ListingHolds, Begin

(* What was in the list stays there, and what has always been ignored was. *)
LEMMA HandedOverStays ==
  ASSUME NEW k, HandedOver(k), UNCHANGED <<patterns, pending>>,
         stage' # "refused" => stage # "refused",
         ToSet(files) \subseteq ToSet(files'),
         \A f \in Paths : been'[f] = {"ignored"} => been[f] = {"ignored"}
  PROVE  HandedOver(k)'
BY DEF HandedOver

(* A call of Git with the next patterns.                                   *)
LEMMA IgnoredAreListed ==
  ASSUME ListingHolds, ListIgnored
  PROVE  ListingHolds'
<1>1. /\ pending # <<>> /\ pending' = SubSeq(pending, Batch + 1, Len(pending))
      /\ UNCHANGED <<patterns, status, modes, gitlinks, been, changes>> /\ stage = "ignored"
  BY DEF ListIgnored
<1> DEFINE emitted == {f \in Paths : status[f] = "ignored" /\
                         \E i \in 1 .. Batch : Matches(GitPieces(pending[i]), f)}
<1>2. /\ ListIsSound(files') /\ ToSet(files) \subseteq ToSet(files')
      /\ \/ stage' = "refused"
         \/ stage' = "ignored" /\ \A f \in emitted : Relevant(f) => f \in ToSet(files')
  <2>1. Collect(emitted, "ignored") /\ ListIsSound(files) /\ emitted \in SUBSET Paths
    BY DEF ListIgnored, ListingHolds
  <2> HIDE DEF emitted
  <2> QED
    BY <2>1, CollectAdds
<1>3. PICK request \in Requests : patterns = request.patterns
  BY DEF ListingHolds
<1>4. patterns \in Seq(Seq(STRING)) /\ Len(patterns) \in Nat /\ DOMAIN patterns = 1 .. Len(patterns)
  <2>1. request.patterns \in Seq(Seq(STRING))
    BY FilesAssumption
  <2> QED
    BY <1>3, <2>1, LenProperties
<1>5. PICK k \in 0 .. Len(patterns) : HandedOver(k)
  BY DEF ListingHolds
<1>6. /\ pending \in Seq(Seq(STRING)) /\ Len(pending) = Len(patterns) - k
      /\ \A i \in 1 .. Len(patterns) - k : pending[i] = patterns[k + i]
  BY <1>4, <1>5, RestIs DEF HandedOver
<1>7. PICK b \in 1 .. Len(pending) : b = Batch
  BY <1>1, <1>6, BatchIs
<1>8. PICK m \in 0 .. Len(patterns) : m = k + b
  BY <1>4, <1>5, <1>6, <1>7
<1>9. pending' = SubSeq(patterns, m + 1, Len(patterns))
  <2>1. b \in 0 .. Len(patterns) - k
    BY <1>4, <1>6, <1>7
  <2>2. pending' = SubSeq(pending, b + 1, Len(patterns) - k)
    BY <1>1, <1>6, <1>7
  <2> QED
    BY <1>4, <1>5, <1>8, <2>1, <2>2, RestOfRest DEF HandedOver
<1>10. ASSUME GlobsAgree, stage' # "refused", NEW f \in Paths, NEW i \in 1 .. m,
              been[f] = {"ignored"}, Matches(Pieces(patterns[i]), f)
       PROVE  f \in ToSet(files')
  <2>1. CASE i <= k
    <3>1. i \in 1 .. k
      BY <1>5, <1>8, <2>1
    <3> QED
      BY <1>1, <1>2, <1>5, <1>10, <3>1 DEF HandedOver
  <2>2. CASE i > k
    <3> DEFINE j == i - k
    <3>1. j \in 1 .. b /\ j \in 1 .. Len(patterns) - k /\ k + j = i /\ i \in DOMAIN patterns
      BY <1>4, <1>5, <1>6, <1>7, <1>8, <2>2
    <3> HIDE DEF j
    <3>2. pending[j] = patterns[i]
      BY <1>6, <3>1
    <3>3. Matches(GitPieces(pending[j]), f)
      BY <1>3, <1>10, <3>1, <3>2 DEF GlobsAgree
    <3>4. status[f] = "ignored"
      BY <1>10 DEF ListingHolds
    <3>5. Relevant(f)
      BY <1>10, <3>1 DEF Relevant
    <3>6. f \in emitted
      BY <1>7, <3>1, <3>3, <3>4
    <3> HIDE DEF emitted
    <3> QED
      BY <1>2, <1>10, <3>5, <3>6
  <2> QED
    BY <1>5, <1>8, <2>1, <2>2
<1>11. HandedOver(m)'
  BY <1>1, <1>9, <1>10 DEF HandedOver
<1>12. stage' \in {"ignored", "refused"}
  BY <1>2
<1>13. \A f \in Paths : (been[f] \subseteq Emitted /\ Relevant(f) => f \in ToSet(files))
                       => (been[f] \subseteq Emitted /\ Relevant(f) => f \in ToSet(files))'
  BY <1>1, <1>2 DEF Relevant
<1> QED
  <2>1. \E l \in 0 .. Len(patterns) : HandedOver(l)'
    BY <1>8, <1>11
  <2> QED
    BY <1>1, <1>2, <1>12, <1>13, <2>1 DEF ListingHolds

(* The other steps of a listing.                                           *)
LEMMA ListingMoves ==
  ASSUME ListingHolds, Call \/ ListIndex \/ CheckGitlinks \/ FailListing
  PROVE  ListingHolds'
<1>1. UNCHANGED <<patterns, status, pending, files, been, changes>> /\ stage # "refused"
  BY DEF Call, ListIndex, CheckGitlinks, FailListing
<1>2. PICK k \in 0 .. Len(patterns) : HandedOver(k)
  BY DEF ListingHolds
<1>3. HandedOver(k)'
  BY <1>1, <1>2, HandedOverStays
<1>4. stage' \in {"idle", "files", "ignored", "links", "listed", "refused"}
  BY DEF Call, ListIndex, CheckGitlinks, FailListing
<1>5. modes' \cup gitlinks' \subseteq Paths
  BY DEF Call, ListIndex, CheckGitlinks, FailListing, ListingHolds
<1>6. stage' \in {"ignored", "links", "listed"} => stage \in {"ignored", "links", "listed"}
  BY DEF Call, ListIndex, CheckGitlinks, FailListing
<1>7. stage' \in {"links", "listed"} => pending = <<>>
  BY DEF Call, ListIndex, CheckGitlinks, FailListing, ListingHolds
<1>8. ListIsSound(files)'
  BY <1>1 DEF ListingHolds, ListIsSound
<1>9. (stage \in {"ignored", "links", "listed"} =>
         \A f \in Paths : been[f] \subseteq Emitted /\ Relevant(f) => f \in ToSet(files))'
  BY <1>1, <1>6 DEF ListingHolds, Relevant
<1> QED
  <2>1. \E l \in 0 .. Len(patterns) : HandedOver(l)'
    BY <1>3
  <2> QED
    BY <1>1, <1>4, <1>5, <1>7, <1>8, <1>9, <2>1 DEF ListingHolds

(* A file that Git has never thought ignored or absent is emitted now.     *)
LEMMA EmittedAreListed ==
  ASSUME ListingHolds, ListFiles
  PROVE  ListingHolds'
<1> DEFINE emitted == {f \in Paths : status[f] \in Emitted}
<1>1. UNCHANGED <<patterns, status, pending, modes, gitlinks, been, changes>> /\ stage = "files"
  BY DEF ListFiles
<1>2. /\ ListIsSound(files') /\ ToSet(files) \subseteq ToSet(files')
      /\ \/ stage' = "refused"
         \/ stage' = "ignored" /\ \A f \in emitted : Relevant(f) => f \in ToSet(files')
  <2>1. Collect(emitted, "ignored") /\ ListIsSound(files) /\ emitted \in SUBSET Paths
    BY DEF ListFiles, ListingHolds
  <2> HIDE DEF emitted
  <2> QED
    BY <2>1, CollectAdds
<1>3. PICK k \in 0 .. Len(patterns) : HandedOver(k)
  BY DEF ListingHolds
<1>4. HandedOver(k)'
  BY <1>1, <1>2, <1>3, HandedOverStays
<1>5. (stage \in {"ignored", "links", "listed"} =>
         \A f \in Paths : been[f] \subseteq Emitted /\ Relevant(f) => f \in ToSet(files))'
  <2> SUFFICES ASSUME stage' \in {"ignored", "links", "listed"}, NEW f \in Paths,
                      been[f] \subseteq Emitted, Relevant(f)
               PROVE  f \in ToSet(files')
    BY <1>1 DEF Relevant
  <2>1. f \in emitted
    BY DEF ListingHolds
  <2> HIDE DEF emitted
  <2> QED
    BY <1>2, <2>1
<1> QED
  <2>1. \E l \in 0 .. Len(patterns) : HandedOver(l)'
    BY <1>1, <1>4
  <2>2. stage' \in {"ignored", "refused"}
    BY <1>2
  <2> QED
    BY <1>1, <1>2, <1>5, <2>1, <2>2 DEF ListingHolds

(* What Git said before it changed its mind is remembered.                 *)
LEMMA ChangeKeepsListing ==
  ASSUME ListingHolds, NEW f \in Paths, NEW new \in Statuses, Change(f, new)
  PROVE  ListingHolds'
<1>1. /\ UNCHANGED <<patterns, stage, pending, files, modes, gitlinks>>
      /\ status' = [status EXCEPT ![f] = new] /\ been' = [been EXCEPT ![f] = @ \cup {new}]
      /\ changes' = changes + 1 /\ changes < MaxChanges
  BY DEF Change, listVars
<1>2. /\ status \in [Paths -> Statuses] /\ been \in [Paths -> SUBSET Statuses]
      /\ \A g \in Paths : status[g] \in been[g]
  BY DEF ListingHolds
<1>3. /\ status' \in [Paths -> Statuses] /\ been' \in [Paths -> SUBSET Statuses]
      /\ \A g \in Paths : status'[g] \in been'[g] /\ been[g] \subseteq been'[g] /\ been[g] # {}
  BY <1>1, <1>2
<1>4. \A g \in Paths : been'[g] = {"ignored"} => been[g] = {"ignored"}
  BY <1>3
<1>5. PICK k \in 0 .. Len(patterns) : HandedOver(k)
  BY DEF ListingHolds
<1>6. HandedOver(k)'
  BY <1>1, <1>4, <1>5, HandedOverStays
<1>7. changes' \in 0 .. MaxChanges
  BY <1>1, FilesAssumption DEF ListingHolds
<1>8. ListIsSound(files)'
  BY <1>1 DEF ListingHolds, ListIsSound
<1>9. (stage \in {"ignored", "links", "listed"} =>
         \A g \in Paths : been[g] \subseteq Emitted /\ Relevant(g) => g \in ToSet(files))'
  BY <1>1, <1>3 DEF ListingHolds, Relevant
<1> QED
  <2>1. \E l \in 0 .. Len(patterns) : HandedOver(l)'
    BY <1>1, <1>6
  <2> QED
    BY <1>1, <1>3, <1>7, <1>8, <1>9, <2>1 DEF ListingHolds

(* No part of a listing depends on another part's variables.               *)
LEMMA ListingStays ==
  ASSUME ListingHolds, UNCHANGED filesVars
  PROVE  ListingHolds'
<1>1. UNCHANGED <<patterns, status, stage, pending, files, modes, gitlinks, been, changes>>
  BY DEF filesVars, listVars
<1>2. PICK k \in 0 .. Len(patterns) : HandedOver(k)
  BY DEF ListingHolds
<1>3. HandedOver(k)'
  BY <1>1, <1>2, HandedOverStays
<1>4. ListIsSound(files)'
  BY <1>1 DEF ListingHolds, ListIsSound
<1>5. (stage \in {"ignored", "links", "listed"} =>
         \A g \in Paths : been[g] \subseteq Emitted /\ Relevant(g) => g \in ToSet(files))'
  BY <1>1 DEF ListingHolds, Relevant
<1> QED
  <2>1. \E l \in 0 .. Len(patterns) : HandedOver(l)'
    BY <1>1, <1>3
  <2> QED
    BY <1>1, <1>4, <1>5, <2>1 DEF ListingHolds

(* The invariant of a listing, for every set of paths, every request and   *)
(* every size of a batch.                                                  *)
THEOREM ListingInductive == FilesSpec => []ListingHolds
<1>1. ListingHolds /\ [FilesNext]_filesVars => ListingHolds'
  <2> SUFFICES ASSUME ListingHolds, [FilesNext]_filesVars PROVE ListingHolds'
    OBVIOUS
  <2>1. CASE Call \/ ListIndex \/ CheckGitlinks \/ FailListing
    BY <2>1, ListingMoves
  <2>2. CASE ListFiles
    BY <2>2, EmittedAreListed
  <2>3. CASE ListIgnored
    BY <2>3, IgnoredAreListed
  <2>4. CASE \E f \in Paths, new \in Statuses : Change(f, new)
    BY <2>4, ChangeKeepsListing
  <2>5. CASE UNCHANGED filesVars
    BY <2>5, ListingStays
  <2> QED
    BY <2>1, <2>2, <2>3, <2>4, <2>5 DEF FilesNext
<1> QED
  BY <1>1, ListingStarts, PTL DEF FilesSpec

(* A file that was there all the time and matches is in the list, once:    *)
(* when the index is listed, every pattern has been handed to Git.  That   *)
(* Git's globs reach as far as the code's cannot be left out: the run      *)
(* files_pathspec shows a file that escapes (fingerprint.go:62-80).      *)
THEOREM RelevantStaysListed == ASSUME GlobsAgree PROVE FilesSpec => []RelevantListed
<1>1. ListingHolds => RelevantListed
  <2> SUFFICES ASSUME ListingHolds, stage = "listed" PROVE RelevantListed
    BY DEF RelevantListed
  <2>1. PICK k \in 0 .. Len(patterns) : HandedOver(k)
    BY DEF ListingHolds
  <2>2. patterns \in Seq(Seq(STRING)) /\ Len(patterns) \in Nat /\ DOMAIN patterns = 1 .. Len(patterns)
    <3>1. PICK request \in Requests : patterns = request.patterns
      BY DEF ListingHolds
    <3> QED
      BY <3>1, FilesAssumption, LenProperties
  <2>3. k = Len(patterns)
    <3>1. Len(pending) = 0 /\ Len(pending) = Len(patterns) - k
      BY <2>1, <2>2, RestIs, EmptySeq DEF HandedOver, ListingHolds
    <3>2. Len(patterns) - k = 0
      BY <3>1
    <3>3. Len(patterns) \in Nat
      BY <2>2
    <3> QED
      BY <3>2, <3>3
  <2>4. ASSUME NEW f \in Paths, Relevant(f), been[f] = {"ignored"} PROVE f \in ToSet(files)
    BY <2>1, <2>2, <2>3, <2>4 DEF HandedOver, Relevant
  <2>5. ASSUME NEW f \in Paths, Relevant(f), been[f] \subseteq Emitted PROVE f \in ToSet(files)
    BY <2>5 DEF ListingHolds
  <2> QED
    BY <2>4, <2>5 DEF RelevantListed, ListingHolds, ListIsSound, ToSet
<1> QED
  BY <1>1, ListingInductive, PTL

-----------------------------------------------------------------------------
(* What a match tells of the beginning of a path.                          *)

(* The pieces of a pattern, from each of its places on.                    *)
At(p, i, text) == IsPrefix(text, SubSeq(p, i, Len(p)))

Piece(p, f, i) ==
  IF i > Len(p) THEN <<>>
  ELSE IF At(p, i, <<"*", "*", "/">>) THEN <<"**/">> \o f[i + 3]
  ELSE IF At(p, i, <<"*", "*">>) THEN <<"**">> \o f[i + 2]
  ELSE <<p[i]>> \o f[i + 1]

(* Where stars are found, they fit, and the first of them is a wildcard.   *)
LEMMA AtFits ==
  ASSUME NEW p \in Seq(STRING), NEW i \in 1 .. Len(p)
  PROVE  /\ At(p, i, <<"*", "*", "/">>) => i + 3 <= Len(p) + 1 /\ p[i] = "*"
         /\ At(p, i, <<"*", "*">>) => i + 2 <= Len(p) + 1 /\ p[i] = "*"
<1> DEFINE r == SubSeq(p, i, Len(p))
<1>1. Len(p) \in Nat /\ i \in Int /\ Len(p) \in Int /\ \A j \in i .. Len(p) : p[j] \in STRING
  BY LenProperties, ElementOfSeq
<1>2. /\ r \in Seq(STRING) /\ Len(r) = IF i <= Len(p) THEN Len(p) - i + 1 ELSE 0
      /\ \A j \in 1 .. Len(p) - i + 1 : r[j] = p[i + j - 1]
  BY <1>1, SubSeqProperties
<1>3. Len(r) = Len(p) - i + 1 /\ r[1] = p[i]
  BY <1>1, <1>2
<1> HIDE DEF r
<1>4. ASSUME NEW T, NEW text \in Seq(T), Len(text) > 1, text[1] = "*", IsPrefix(text, r)
      PROVE  Len(text) <= Len(r) /\ r[1] = "*"
  <2>1. Len(text) \in Nat /\ Len(text) <= Len(r) /\ SubSeq(text, 1, Len(text)) = SubSeq(r, 1, Len(text))
    BY <1>4, LenProperties DEF IsPrefix
  <2>2. SubSeq(text, 1, Len(text)) = text
    BY <1>4, SubSeqFull
  <2>3. \A j \in 1 .. Len(text) : r[j] \in STRING
    BY <1>1, <1>2, <1>3, <2>1, ElementOfSeq
  <2>4. \A j \in 1 .. Len(text) - 1 + 1 : SubSeq(r, 1, Len(text))[j] = r[1 + j - 1]
    BY <2>1, <2>3, SubSeqProperties
  <2>5. SubSeq(r, 1, Len(text))[1] = r[1 + 1 - 1]
    BY <1>4, <2>1, <2>4
  <2> QED
    BY <1>4, <2>1, <2>2, <2>5
<1> DEFINE T == {"*", "/"}
<1>5. At(p, i, <<"*", "*", "/">>) => 3 <= Len(r) /\ r[1] = "*"
  <2> DEFINE text == <<"*", "*", "/">>
  <2>1. text \in Seq(T) /\ Len(text) = 3 /\ Len(text) > 1 /\ text[1] = "*"
    BY SeqOfThree
  <2> HIDE DEF text, T
  <2>2. IsPrefix(text, r) => Len(text) <= Len(r) /\ r[1] = "*"
    BY <1>4, <2>1, Zenon
  <2> QED
    BY <2>1, <2>2 DEF At, r, text
<1>6. At(p, i, <<"*", "*">>) => 2 <= Len(r) /\ r[1] = "*"
  <2> DEFINE text == <<"*", "*">>
  <2>1. text \in Seq(T) /\ Len(text) = 2 /\ Len(text) > 1 /\ text[1] = "*"
    BY SeqOfThree
  <2> HIDE DEF text, T
  <2>2. IsPrefix(text, r) => Len(text) <= Len(r) /\ r[1] = "*"
    BY <1>4, <2>1, Zenon
  <2> QED
    BY <2>1, <2>2 DEF At, r, text
<1> QED
  BY <1>1, <1>3, <1>5, <1>6

(* The pieces are well defined, from the last place to the first.          *)
LEMMA PiecesSomehow ==
  ASSUME NEW p \in Seq(STRING)
  PROVE  \E f : f = [i \in 1 .. Len(p) + 1 |-> Piece(p, f, i)]
<1>1. PICK n \in Nat : n = Len(p)
  BY LenProperties
<1> DEFINE From(f, m) == f = [i \in m .. n + 1 |-> Piece(p, f, i)]
           S == {d \in Nat : d <= n => \E f : From(f, (n + 1) - d)}
<1>2. 0 \in S
  <2> DEFINE f == [i \in n + 1 .. n + 1 |-> <<>>]
  <2>1. From(f, n + 1)
    BY <1>1 DEF Piece
  <2>2. (n + 1) - 0 = n + 1
    OBVIOUS
  <2> QED
    BY <2>1, <2>2
<1>3. ASSUME NEW d \in Nat, d \in S PROVE d + 1 \in S
  <2> SUFFICES ASSUME d + 1 <= n PROVE \E f : From(f, (n + 1) - (d + 1))
    OBVIOUS
  <2>1. PICK m \in 1 .. n : m = (n + 1) - (d + 1) /\ m + 1 = (n + 1) - d
    OBVIOUS
  <2>2. PICK g : From(g, m + 1)
    BY <1>3, <2>1
  <2> DEFINE f == [i \in m .. n + 1 |-> IF i = m THEN Piece(p, g, m) ELSE g[i]]
  <2>3. f[m] = Piece(p, g, m) /\ \A i \in m + 1 .. n + 1 : f[i] = g[i]
    OBVIOUS
  <2> HIDE DEF f
  <2>4. \A i \in m .. n + 1 : Piece(p, f, i) = Piece(p, g, i)
    <3> SUFFICES ASSUME NEW i \in m .. n + 1 PROVE Piece(p, f, i) = Piece(p, g, i)
      OBVIOUS
    <3>1. CASE i = n + 1
      BY <1>1, <3>1 DEF Piece
    <3>2. CASE i # n + 1
      <4>1. i \in 1 .. n /\ i + 1 \in m + 1 .. n + 1
        BY <3>2
      <4>2. At(p, i, <<"*", "*", "/">>) => i + 3 \in m + 1 .. n + 1
        BY <1>1, <4>1, AtFits
      <4>3. At(p, i, <<"*", "*">>) => i + 2 \in m + 1 .. n + 1
        BY <1>1, <4>1, AtFits
      <4> QED
        BY <2>3, <4>1, <4>2, <4>3 DEF Piece
    <3> QED
      BY <3>1, <3>2
  <2>5. \A i \in m .. n + 1 : i = m \/ i \in m + 1 .. n + 1
    OBVIOUS
  <2>6. \A i \in m .. n + 1 : f[i] = Piece(p, f, i)
    BY <2>2, <2>3, <2>4, <2>5
  <2>7. f = [i \in m .. n + 1 |-> f[i]]
    BY DEF f
  <2>8. From(f, m)
    BY <2>6, <2>7
  <2> QED
    BY <2>1, <2>8
<1>4. Nat \subseteq S
  <2> HIDE DEF S
  <2> QED
    BY <1>2, <1>3, Induction
<1>5. PICK f : From(f, (n + 1) - n)
  BY <1>4
<1>6. (n + 1) - n = 1
  OBVIOUS
<1> QED
  BY <1>1, <1>5, <1>6

(* What a pattern is cut into, and what its pieces are.                    *)
Marks == STRING \cup {"**", "**/"}

Cut(p, f) == f = [i \in 1 .. Len(p) + 1 |-> Piece(p, f, i)]

(* Pieces is made of what is cut at each place.                            *)
LEMMA PiecesAre ==
  ASSUME NEW p \in Seq(STRING)
  PROVE  \E f : Cut(p, f) /\ Pieces(p) = f[1]
<1> DEFINE u == CHOOSE f : f = [i \in 1 .. Len(p) + 1 |-> Piece(p, f, i)]
<1>1. Pieces(p) = u[1]
  BY DEF Pieces, Piece, At
<1>2. Cut(p, u)
  BY PiecesSomehow DEF Cut
<1> QED
  BY <1>1, <1>2

(* What is cut is characters and marks.                                    *)
LEMMA PiecesType ==
  ASSUME NEW p \in Seq(STRING), NEW f, Cut(p, f)
  PROVE  \A i \in 1 .. Len(p) + 1 : f[i] \in Seq(Marks)
<1>1. PICK n \in Nat : n = Len(p)
  BY LenProperties
<1> DEFINE S == {d \in Nat : \A i \in 1 .. n + 1 : n + 1 - i <= d => f[i] \in Seq(Marks)}
<1>2. f[n + 1] = <<>>
  BY <1>1 DEF Cut, Piece
<1>3. 0 \in S
  <2>1. \A i \in 1 .. n + 1 : n + 1 - i <= 0 => i = n + 1
    OBVIOUS
  <2> QED
    BY <1>2, <2>1, EmptySeq
<1>4. ASSUME NEW d \in Nat, d \in S PROVE d + 1 \in S
  <2> SUFFICES ASSUME NEW i \in 1 .. n + 1, n + 1 - i = d + 1 PROVE f[i] \in Seq(Marks)
    BY <1>4
  <2>1. i \in 1 .. n /\ i + 1 \in 1 .. n + 1 /\ n + 1 - (i + 1) <= d
    OBVIOUS
  <2>2. f[i] = Piece(p, f, i)
    BY <1>1 DEF Cut
  <2>3. CASE At(p, i, <<"*", "*", "/">>)
    <3>1. i + 3 \in 1 .. n + 1 /\ n + 1 - (i + 3) <= d
      BY <1>1, <2>1, <2>3, AtFits
    <3>2. f[i + 3] \in Seq(Marks) /\ "**/" \in Marks
      BY <1>4, <3>1 DEF Marks
    <3> QED
      BY <1>1, <2>1, <2>2, <2>3, <3>2, OneMore DEF Piece
  <2>4. CASE ~At(p, i, <<"*", "*", "/">>) /\ At(p, i, <<"*", "*">>)
    <3>1. i + 2 \in 1 .. n + 1 /\ n + 1 - (i + 2) <= d
      BY <1>1, <2>1, <2>4, AtFits
    <3>2. f[i + 2] \in Seq(Marks) /\ "**" \in Marks
      BY <1>4, <3>1 DEF Marks
    <3> QED
      BY <1>1, <2>1, <2>2, <2>4, <3>2, OneMore DEF Piece
  <2>5. CASE ~At(p, i, <<"*", "*", "/">>) /\ ~At(p, i, <<"*", "*">>)
    <3>1. f[i + 1] \in Seq(Marks) /\ p[i] \in Marks
      BY <1>1, <1>4, <2>1, ElementOfSeq DEF Marks
    <3> QED
      BY <1>1, <2>1, <2>2, <2>5, <3>1, OneMore DEF Piece
  <2> QED
    BY <2>3, <2>4, <2>5
<1>5. Nat \subseteq S
  <2> HIDE DEF S
  <2> QED
    BY <1>3, <1>4, Induction
<1> QED
  <2> SUFFICES ASSUME NEW i \in 1 .. n + 1 PROVE f[i] \in Seq(Marks)
    BY <1>1
  <2>1. n + 1 - i \in Nat
    OBVIOUS
  <2>2. n + 1 - i \in S
    <3> HIDE DEF S
    <3> QED
      BY <1>5, <2>1
  <2> QED
    BY <2>2

(* Up to its first wildcard, a pattern is its own pieces.                  *)
LEMMA LiteralIs ==
  ASSUME NEW p \in Seq(STRING)
  PROVE  /\ LiteralLength(p) \in 0 .. Len(p)
         /\ \A i \in 1 .. LiteralLength(p) : p[i] \notin Wild
<1> DEFINE S == {i \in DOMAIN p : \A j \in 1 .. i : p[j] \notin Wild}
<1>1. PICK n \in Nat : n = Len(p) /\ DOMAIN p = 1 .. n
  BY LenProperties
<1>2. CASE S = {}
  <2>1. LiteralLength(p) = 0
    BY <1>2, FS_EmptySet DEF LiteralLength
  <2> QED
    BY <1>1, <2>1
<1>3. CASE S # {}
  <2>1. PICK m \in S : \A i \in S : i <= m
    <3>1. S \in SUBSET (1 .. n)
      BY <1>1
    <3> HIDE DEF S
    <3> QED
      BY <1>3, <3>1, MaxIs
  <2>2. S = 1 .. m
    BY <1>1, <2>1
  <2>3. m \in Nat /\ m \in Int /\ 1 \in Int /\ m >= 1
    BY <1>1
  <2>4. Cardinality(1 .. m) = m
    <3>1. Cardinality(1 .. m) = IF 1 > m THEN 0 ELSE m - 1 + 1
      BY <2>3, FS_Interval
    <3> QED
      BY <2>3, <3>1
  <2>5. LiteralLength(p) = m
    BY <2>2, <2>4 DEF LiteralLength
  <2> QED
    BY <1>1, <2>1, <2>5
<1> QED
  BY <1>2, <1>3

(* Up to its first wildcard, a pattern is its own pieces.                  *)
LEMMA PiecesStart ==
  ASSUME NEW p \in Seq(STRING)
  PROVE  /\ Pieces(p) \in Seq(Marks) /\ LiteralLength(p) <= Len(Pieces(p))
         /\ \A i \in 1 .. LiteralLength(p) : Pieces(p)[i] = p[i]
         /\ LiteralLength(p) = Len(p) => Len(Pieces(p)) = Len(p)
<1>1. PICK f : Cut(p, f) /\ Pieces(p) = f[1]
  BY PiecesAre
<1>2. PICK n \in Nat : n = Len(p)
  BY LenProperties
<1>3. PICK l \in 0 .. n : l = LiteralLength(p) /\ \A i \in 1 .. l : p[i] \notin Wild
  BY <1>2, LiteralIs
<1>4. \A i \in 1 .. n + 1 : f[i] \in Seq(Marks) /\ Len(f[i]) \in Nat
  BY <1>1, <1>2, PiecesType, LenProperties
<1>5. ASSUME NEW i \in 1 .. l
      PROVE  /\ Len(f[i]) = 1 + Len(f[i + 1]) /\ f[i][1] = p[i]
             /\ \A j \in 1 .. Len(f[i + 1]) : f[i][1 + j] = f[i + 1][j]
  <2>1. i \in 1 .. n /\ i \in 1 .. n + 1 /\ i + 1 \in 1 .. n + 1 /\ ~(i > n)
    OBVIOUS
  <2>2. p[i] # "*"
    BY <1>3 DEF Wild
  <2>3. ~At(p, i, <<"*", "*", "/">>) /\ ~At(p, i, <<"*", "*">>)
    BY <1>2, <2>1, <2>2, AtFits
  <2>4. f[i] = <<p[i]>> \o f[i + 1]
    BY <1>1, <1>2, <2>1, <2>3 DEF Cut, Piece
  <2>5. p[i] \in Marks /\ f[i + 1] \in Seq(Marks)
    BY <1>2, <1>4, <2>1, ElementOfSeq DEF Marks
  <2> QED
    BY <2>4, <2>5, OneMore
<1> DEFINE From(d, rest) == /\ Len(f[1]) = d + Len(rest)
                            /\ \A j \in 1 .. d : f[1][j] = p[j]
                            /\ \A j \in 1 .. Len(rest) : f[1][d + j] = rest[j]
           S == {d \in Nat : d <= l => From(d, f[d + 1])}
<1>6. 0 \in S
  BY <1>4
<1>7. ASSUME NEW d \in Nat, d \in S PROVE d + 1 \in S
  <2> SUFFICES ASSUME d + 1 <= l PROVE From(d + 1, f[d + 1 + 1])
    OBVIOUS
  <2>1. d + 1 \in 1 .. l /\ d + 1 + 1 \in 1 .. n + 1 /\ d + 1 \in 1 .. n + 1 /\ 1 \in 1 .. n + 1
    OBVIOUS
  <2>2. /\ Len(f[d + 1]) = 1 + Len(f[d + 1 + 1]) /\ f[d + 1][1] = p[d + 1]
        /\ \A j \in 1 .. Len(f[d + 1 + 1]) : f[d + 1][1 + j] = f[d + 1 + 1][j]
    BY <1>5, <2>1
  <2>3. /\ Len(f[1]) = d + Len(f[d + 1])
        /\ \A j \in 1 .. d : f[1][j] = p[j]
        /\ \A j \in 1 .. Len(f[d + 1]) : f[1][d + j] = f[d + 1][j]
    BY <1>7
  <2>4. Len(f[d + 1 + 1]) \in Nat /\ Len(f[d + 1]) \in Nat
    BY <1>4, <2>1
  <2>5. f[1][d + 1] = p[d + 1]
    BY <2>2, <2>3, <2>4
  <2>6. ASSUME NEW j \in 1 .. Len(f[d + 1 + 1]) PROVE f[1][(d + 1) + j] = f[d + 1 + 1][j]
    <3>1. 1 + j \in 1 .. Len(f[d + 1]) /\ d + (1 + j) = (d + 1) + j
      BY <2>2, <2>4
    <3> QED
      BY <2>2, <2>3, <3>1
  <2>7. \A j \in 1 .. d + 1 : j \in 1 .. d \/ j = d + 1
    OBVIOUS
  <2>8. Len(f[1]) = (d + 1) + Len(f[d + 1 + 1])
    <3>1. Len(f[d + 1]) = 1 + Len(f[d + 1 + 1]) /\ Len(f[1]) = d + Len(f[d + 1])
      BY <2>2, <2>3
    <3> DEFINE a == Len(f[d + 1 + 1])
               b == Len(f[d + 1])
               c == Len(f[1])
    <3>2. a \in Nat /\ b = 1 + a /\ c = d + b
      BY <2>4, <3>1
    <3> HIDE DEF a, b, c
    <3>3. c = (d + 1) + a
      BY <3>2
    <3> QED
      BY <3>3 DEF a, c
  <2>9. \A j \in 1 .. d + 1 : f[1][j] = p[j]
    BY <2>3, <2>5, <2>7
  <2> QED
    BY <2>6, <2>8, <2>9
<1>8. l \in S
  <2> HIDE DEF S
  <2> QED
    BY <1>6, <1>7, Induction
<1>9. /\ Len(f[1]) = l + Len(f[l + 1])
      /\ \A j \in 1 .. l : f[1][j] = p[j]
  BY <1>8
<1>10. l + 1 \in 1 .. n + 1 /\ 1 \in 1 .. n + 1
  OBVIOUS
<1>11. l = n => Len(f[l + 1]) = 0
  BY <1>1, <1>2, <1>10, EmptySeq DEF Cut, Piece
<1>12. Len(f[l + 1]) \in Nat /\ f[1] \in Seq(Marks)
  BY <1>4, <1>10
<1> HIDE DEF S
<1> QED
  BY <1>1, <1>2, <1>3, <1>9, <1>11, <1>12

(* Where the first i parts of a path may end.                              *)
Ending(pieces, path, before, i) ==
  {k \in 0 .. Len(path) : \E j \in before :
     j <= k /\ Accepts(pieces[i], SubSeq(path, j + 1, k))}

EndsAre(pieces, path, f, n) ==
  f = [i \in 0 .. n |-> IF i = 0 THEN {0} ELSE Ending(pieces, path, f[i - 1], i)]

(* A path matches if the last part may end at its end.                     *)
LEMMA MatchedByEnds ==
  ASSUME NEW n \in Nat, NEW pieces, Len(pieces) = n, NEW path
  PROVE  \E f : /\ EndsAre(pieces, path, f, n)
                /\ Matches(pieces, path) <=> Len(path) \in f[n]
<1> DEFINE S == {m \in Nat : \E f : EndsAre(pieces, path, f, m)}
<1>1. 0 \in S
  <2> DEFINE f == [i \in 0 .. 0 |-> {0}]
  <2>1. \A i \in 0 .. 0 : i = 0
    OBVIOUS
  <2>2. EndsAre(pieces, path, f, 0)
    BY <2>1 DEF EndsAre
  <2> QED
    BY <2>2
<1>2. ASSUME NEW m \in Nat, m \in S PROVE m + 1 \in S
  <2>1. PICK g : EndsAre(pieces, path, g, m)
    BY <1>2
  <2> DEFINE e == Ending(pieces, path, g[m], m + 1)
             f == [i \in 0 .. m + 1 |-> IF i = m + 1 THEN e ELSE g[i]]
  <2>2. f[m + 1] = e /\ (\A i \in 0 .. m : f[i] = g[i])
    OBVIOUS
  <2>3. f = [i \in 0 .. m + 1 |-> f[i]]
    OBVIOUS
  <2> HIDE DEF f
  <2>4. ASSUME NEW i \in 0 .. m + 1
        PROVE  f[i] = IF i = 0 THEN {0} ELSE Ending(pieces, path, f[i - 1], i)
    <3>1. CASE i = m + 1
      <4>1. i # 0 /\ i - 1 = m /\ m \in 0 .. m
        BY <3>1
      <4> QED
        BY <2>2, <3>1, <4>1
    <3>2. CASE i # m + 1
      <4>1. i \in 0 .. m /\ (i # 0 => i - 1 \in 0 .. m)
        BY <3>2
      <4>2. g[i] = IF i = 0 THEN {0} ELSE Ending(pieces, path, g[i - 1], i)
        BY <2>1, <4>1 DEF EndsAre
      <4> QED
        BY <2>2, <4>1, <4>2
    <3> QED
      BY <3>1, <3>2
  <2>5. EndsAre(pieces, path, f, m + 1)
    BY <2>3, <2>4 DEF EndsAre
  <2> QED
    BY <2>5
<1>3. \E f : EndsAre(pieces, path, f, n)
  <2>1. Nat \subseteq S
    <3> HIDE DEF S
    <3> QED
      BY <1>1, <1>2, Induction
  <2> QED
    BY <2>1
<1> DEFINE u == CHOOSE f : f = [i \in 0 .. n |-> IF i = 0 THEN {0} ELSE Ending(pieces, path, f[i - 1], i)]
<1>4. EndsAre(pieces, path, u, n)
  BY <1>3 DEF EndsAre
<1>5. Matches(pieces, path) <=> Len(path) \in u[n]
  BY DEF Matches, Ending
<1> QED
  BY <1>4, <1>5

(* A path that matches begins as the pattern does, up to its first         *)
(* wildcard.                                                               *)
LEMMA MatchStarts ==
  ASSUME NEW p \in Seq(STRING), {"**", "**/"} \cap ToSet(p) = {},
         NEW T, NEW path \in Seq(T), Matches(Pieces(p), path)
  PROVE  /\ LiteralLength(p) <= Len(path)
         /\ \A i \in 1 .. LiteralLength(p) : path[i] = p[i]
         /\ LiteralLength(p) = Len(p) => Len(path) = Len(p)
<1> DEFINE ps == Pieces(p)
<1>1. PICK l \in Nat : l = LiteralLength(p) /\ l <= Len(p) /\ \A i \in 1 .. l : p[i] \notin Wild
  BY LiteralIs, LenProperties
<1>2. PICK n \in Nat : /\ Len(ps) = n /\ l <= n /\ \A i \in 1 .. l : ps[i] = p[i]
                       /\ l = Len(p) => n = l
  BY <1>1, PiecesStart, LenProperties
<1>3. PICK f : EndsAre(ps, path, f, n) /\ (Matches(ps, path) <=> Len(path) \in f[n])
  BY <1>2, MatchedByEnds
<1> HIDE DEF ps
<1>4. Len(path) \in f[n] /\ Len(path) \in Nat
  BY <1>3, LenProperties DEF ps
<1>5. f[0] = {0}
  BY <1>3 DEF EndsAre
<1>6. ASSUME NEW i \in 1 .. n PROVE f[i] = Ending(ps, path, f[i - 1], i)
  <2>1. i \in 0 .. n /\ i # 0
    OBVIOUS
  <2>2. f = [m \in 0 .. n |-> IF m = 0 THEN {0} ELSE Ending(ps, path, f[m - 1], m)]
    BY <1>3 DEF EndsAre
  <2> QED
    BY <2>1, <2>2, Zenon
<1> DEFINE Begins(i) == \A j \in 1 .. l : j <= i => j <= Len(path) /\ path[j] = p[j]
           Ok(i) == f[i] # {} => Begins(i) /\ (i <= l => f[i] \subseteq {i})
           S == {i \in Nat : i <= n => Ok(i)}
<1>7. 0 \in S
  BY <1>5
<1>8. ASSUME NEW i \in Nat, i \in S PROVE i + 1 \in S
  <2> SUFFICES ASSUME i + 1 <= n, NEW k \in f[i + 1]
               PROVE  Begins(i + 1) /\ (i + 1 <= l => k = i + 1)
    OBVIOUS
  <2>1. f[i + 1] = Ending(ps, path, f[i], i + 1)
    <3>1. i + 1 \in 1 .. n /\ (i + 1) - 1 = i
      OBVIOUS
    <3> QED
      BY <1>6, <3>1
  <2>2. PICK j \in f[i] : k \in 0 .. Len(path) /\ j <= k /\ Accepts(ps[i + 1], SubSeq(path, j + 1, k))
    BY <2>1 DEF Ending
  <2>3. Begins(i) /\ (i <= l => f[i] \subseteq {i})
    BY <1>8, <2>2
  <2>4. CASE i + 1 <= l
    <3>1. j = i /\ i + 1 \in 1 .. l
      BY <2>2, <2>3, <2>4
    <3>2. ps[i + 1] = p[i + 1] /\ p[i + 1] \notin Wild /\ p[i + 1] \notin {"**", "**/"}
      <4>1. i + 1 \in DOMAIN p
        BY <1>1, <3>1, LenProperties
      <4> QED
        BY <1>1, <1>2, <3>1, <4>1 DEF ToSet
    <3>3. SubSeq(path, i + 1, k) = <<p[i + 1]>>
      <4>1. Accepts(p[i + 1], SubSeq(path, i + 1, k))
        BY <2>2, <3>1, <3>2
      <4> QED
        BY <3>2, <4>1 DEF Accepts, Wild
    <3>4. \A m \in i + 1 .. k : path[m] \in T
      BY <1>4, <2>2, ElementOfSeq
    <3>5. /\ Len(SubSeq(path, i + 1, k)) = IF i + 1 <= k THEN k - (i + 1) + 1 ELSE 0
          /\ \A m \in 1 .. k - (i + 1) + 1 : SubSeq(path, i + 1, k)[m] = path[i + 1 + m - 1]
      BY <1>4, <2>2, <3>4, SubSeqProperties
    <3>6. Len(<<p[i + 1]>>) = 1 /\ <<p[i + 1]>>[1] = p[i + 1]
      OBVIOUS
    <3>7. k = i + 1
      <4>1. IF i + 1 <= k THEN k - (i + 1) + 1 = 1 ELSE 0 = 1
        BY <3>3, <3>5, <3>6
      <4> QED
        BY <1>4, <2>2, <4>1
    <3>8. path[i + 1] = p[i + 1]
      <4>1. 1 \in 1 .. k - (i + 1) + 1 /\ i + 1 + 1 - 1 = i + 1
        BY <3>7
      <4> QED
        BY <3>3, <3>5, <3>6, <4>1
    <3>9. i + 1 <= Len(path)
      BY <1>4, <2>2, <3>7
    <3>10. \A m \in 1 .. l : m <= i + 1 => m <= i \/ m = i + 1
      OBVIOUS
    <3> QED
      BY <2>3, <3>7, <3>8, <3>9, <3>10
  <2>5. CASE ~(i + 1 <= l)
    <3>1. \A m \in 1 .. l : m <= i
      BY <2>5
    <3> QED
      BY <2>3, <2>5, <3>1
  <2> QED
    BY <2>4, <2>5
<1>9. \A i \in Nat : i \in S
  <2> HIDE DEF S
  <2> QED
    BY <1>7, <1>8, Induction
<1>10. Ok(n)
  BY <1>9
<1>11. Begins(n) /\ (n <= l => Len(path) = n)
  BY <1>4, <1>10
<1>12. \A j \in 1 .. l : j <= Len(path) /\ path[j] = p[j]
  BY <1>2, <1>11
<1>13. l <= Len(path)
  BY <1>4, <1>12
<1> HIDE DEF S, Ok, Begins
<1> QED
  BY <1>1, <1>2, <1>11, <1>12, <1>13

(* MayCoverGitlink omits no pattern that a path below a submodule matches. *)
LEMMA CoversWhatIsBelow ==
  ASSUME NEW p \in Seq(STRING), {"**", "**/"} \cap ToSet(p) = {},
         NEW link \in Seq(STRING), NEW f \in Seq(STRING),
         \/ Matches(Pieces(p), link)
         \/ Matches(Pieces(p), link \o <<"/">> \o f)
  PROVE  MayCoverGitlink(p, link)
<1>1. CASE Matches(Pieces(p), link)
  BY <1>1 DEF MayCoverGitlink
<1>2. CASE Matches(Pieces(p), link \o <<"/">> \o f)
  <2> DEFINE T == STRING \cup {"/"}
             d == Append(link, "/")
             path == link \o <<"/">> \o f
             l == LiteralLength(p)
             literal == SubSeq(p, 1, l)
  <2>1. link \in Seq(T) /\ f \in Seq(T) /\ "/" \in T
    <3>1. STRING \subseteq T
      OBVIOUS
    <3> QED
      BY <3>1
  <2>2. d \in Seq(T) /\ d = link \o <<"/">>
    <3> HIDE DEF T
    <3> QED
      BY <2>1, AppendProperties, AppendIsConcat
  <2>3. /\ path \in Seq(T) /\ Len(path) = Len(d) + Len(f) /\ Len(d) \in Nat /\ Len(f) \in Nat
        /\ \A i \in 1 .. Len(d) : path[i] = d[i]
    <3>1. path = d \o f
      BY <2>2
    <3>2. d \o f \in Seq(T) /\ Len(d \o f) = Len(d) + Len(f) /\ Len(d) \in Nat /\ Len(f) \in Nat
      <4> HIDE DEF T, d
      <4> QED
        BY <2>1, <2>2, ConcatProperties, LenProperties
    <3>3. \A i \in 1 .. Len(d) + Len(f) : (d \o f)[i] = IF i <= Len(d) THEN d[i] ELSE f[i - Len(d)]
      <4> HIDE DEF T, d
      <4> QED
        BY <2>1, <2>2, ConcatProperties
    <3> HIDE DEF T, d, path
    <3>4. \A i \in 1 .. Len(d) : i \in 1 .. Len(d) + Len(f) /\ i <= Len(d)
      BY <3>2
    <3> QED
      BY <3>1, <3>2, <3>3, <3>4
  <2> HIDE DEF T, d, path
  <2>4. l <= Len(path) /\ (\A i \in 1 .. l : path[i] = p[i]) /\ (l = Len(p) => Len(path) = Len(p))
    BY <1>2, <2>3, MatchStarts DEF path
  <2>5. l \in Nat /\ l <= Len(p) /\ Len(p) \in Nat
    BY LiteralIs, LenProperties
  <2>6. literal \in Seq(STRING) /\ Len(literal) = l /\ \A i \in 1 .. l : literal[i] = p[i]
    <3>1. \A i \in 1 .. l : p[i] \in STRING
      BY <2>5, ElementOfSeq
    <3>2. /\ literal \in Seq(STRING) /\ Len(literal) = IF 1 <= l THEN l - 1 + 1 ELSE 0
          /\ \A i \in 1 .. l - 1 + 1 : literal[i] = p[1 + i - 1]
      BY <2>5, <3>1, SubSeqProperties
    <3> HIDE DEF l, literal
    <3>3. \A i \in 1 .. l : i \in 1 .. l - 1 + 1 /\ 1 + i - 1 = i
      BY <2>5
    <3> QED
      BY <2>5, <3>2, <3>3
  <2> HIDE DEF l, literal
  <2>7. CASE Len(d) <= l
    <3>1. \A i \in 1 .. Len(d) : i \in 1 .. l
      BY <2>3, <2>5, <2>7
    <3>2. \A i \in 1 .. Len(d) : d[i] = literal[i]
      BY <2>3, <2>4, <2>6, <3>1
    <3>3. IsPrefix(d, literal)
      BY <2>2, <2>6, <2>7, <3>2, PrefixIs
    <3> QED
      BY <3>3 DEF MayCoverGitlink, d, literal, l
  <2>8. CASE ~(Len(d) <= l)
    <3>1. l # Len(p)
      BY <2>3, <2>4, <2>5, <2>8
    <3>2. literal # p
      BY <2>6, <3>1
    <3>3. l <= Len(d) /\ \A i \in 1 .. l : i \in 1 .. Len(d)
      BY <2>3, <2>5, <2>8
    <3>4. \A i \in 1 .. l : literal[i] = d[i]
      BY <2>3, <2>4, <2>6, <3>3
    <3>5. IsPrefix(literal, d)
      BY <2>2, <2>6, <3>3, <3>4, PrefixIs
    <3> QED
      BY <3>2, <3>5 DEF MayCoverGitlink, d, literal, l
  <2> QED
    BY <2>7, <2>8
<1> QED
  BY <1>1, <1>2

-----------------------------------------------------------------------------
(* The submodules.                                                         *)

(* The listing is of its type and within its bounds; what is left of the   *)
(* patterns is an end of them.                                             *)
THEOREM FilesTypeCorrect == FilesSpec => []FilesTypeOK
<1>1. ListingHolds => FilesTypeOK
  <2> SUFFICES ASSUME ListingHolds PROVE FilesTypeOK
    OBVIOUS
  <2>1. PICK k \in 0 .. Len(patterns) : HandedOver(k)
    BY DEF ListingHolds
  <2>2. patterns \in Seq(Seq(STRING))
    <3>1. PICK request \in Requests : patterns = request.patterns
      BY DEF ListingHolds
    <3> QED
      BY <3>1, FilesAssumption
  <2>3. IsSuffix(pending, patterns)
    BY <2>1, <2>2, RestIsSuffix DEF HandedOver
  <2> QED
    BY <2>3 DEF ListingHolds, ListIsSound, FilesTypeOK
<1> QED
  BY <1>1, ListingInductive, PTL

(* Whatever was a submodule all the time is known as one when the patterns *)
(* are compared with them, and none of them may reach into it.             *)
LinksHold ==
  /\ stage \in {"links", "listed"} =>
       \A link \in Paths : been[link] \subseteq Links => link \in gitlinks
  /\ stage = "listed" =>
       \A link \in gitlinks, i \in DOMAIN patterns : ~MayCoverGitlink(patterns[i], link)

(* The comparison with the submodules, whatever Git changes meanwhile.     *)
LEMMA LinksInductive == FilesSpec => []LinksHold
<1>1. FilesInit => LinksHold
  BY DEF FilesInit, Begin, LinksHold
<1>2. ASSUME ListingHolds, LinksHold, [FilesNext]_filesVars PROVE LinksHold'
  <2>1. CASE Call \/ FailListing
    BY <2>1 DEF Call, FailListing, LinksHold
  <2>2. CASE ListFiles \/ ListIgnored
    <3>1. stage' \notin {"links", "listed"}
      BY <2>2 DEF ListFiles, ListIgnored, Collect
    <3> QED
      BY <3>1 DEF LinksHold
  <2>3. CASE ListIndex
    BY <1>2, <2>3 DEF ListIndex, ListingHolds, LinksHold
  <2>4. CASE CheckGitlinks
    BY <1>2, <2>4 DEF CheckGitlinks, LinksHold
  <2>5. CASE \E f \in Paths, new \in Statuses : Change(f, new)
    <3>1. PICK f \in Paths, new \in Statuses : Change(f, new)
      BY <2>5
    <3>2. /\ UNCHANGED <<patterns, stage, gitlinks>>
          /\ been' = [been EXCEPT ![f] = @ \cup {new}] /\ been \in [Paths -> SUBSET Statuses]
      BY <1>2, <3>1 DEF Change, listVars, ListingHolds
    <3>3. \A link \in Paths : been[link] \subseteq been'[link]
      BY <3>2
    <3> QED
      BY <1>2, <3>2, <3>3 DEF LinksHold
  <2>6. CASE UNCHANGED filesVars
    BY <1>2, <2>6 DEF filesVars, listVars, LinksHold
  <2> QED
    BY <1>2, <2>1, <2>2, <2>3, <2>4, <2>5, <2>6 DEF FilesNext
<1> QED
  BY <1>1, <1>2, ListingInductive, PTL DEF FilesSpec

(* CheckGitlinks: no path below a submodule matches where a fingerprint is *)
(* taken, of whatever patterns, since two beginnings of one path begin     *)
(* each other (fingerprint.go:269-292).                                    *)
THEOREM SubmodulesStayRefused == FilesSpec => []SubmodulesRefused
<1>1. ListingHolds /\ LinksHold => SubmodulesRefused
  <2> SUFFICES ASSUME ListingHolds, LinksHold, stage = "listed",
                      NEW link \in Paths, NEW f \in Paths, been[link] \subseteq Links,
                      Relevant(link) \/ Relevant(link \o <<"/">> \o f)
               PROVE  FALSE
    BY DEF SubmodulesRefused
  <2>1. PICK request \in Requests : patterns = request.patterns
    BY DEF ListingHolds
  <2>2. PICK i \in DOMAIN patterns :
          \/ Matches(Pieces(patterns[i]), link)
          \/ Matches(Pieces(patterns[i]), link \o <<"/">> \o f)
    BY DEF Relevant
  <2>3. patterns[i] \in Seq(STRING) /\ {"**", "**/"} \cap ToSet(patterns[i]) = {}
    <3>1. request.patterns \in Seq(Seq(STRING))
      BY FilesAssumption
    <3>2. i \in 1 .. Len(patterns) /\ patterns \in Seq(Seq(STRING))
      BY <2>1, <3>1, LenProperties
    <3> QED
      BY <2>1, <3>2, ElementOfSeq, FilesAssumption
  <2>4. link \in Seq(STRING) /\ f \in Seq(STRING)
    BY FilesAssumption
  <2>5. MayCoverGitlink(patterns[i], link)
    BY <2>2, <2>3, <2>4, CoversWhatIsBelow
  <2> QED
    BY <2>5 DEF LinksHold
<1> QED
  BY <1>1, ListingInductive, LinksInductive, PTL

-----------------------------------------------------------------------------
(* The parts together.                                                     *)

(* A step of the installation is a step of one part, which leaves the      *)
(* others alone, whatever of the extension's file Pi finds when it starts. *)
THEOREM InstallationHasParts ==
  InstallationSpec => KeySpec /\ SetupSpec /\ PiSpec /\ FilesSpec
<1>1. InstallationInit => KeyInit /\ SetupInit /\ PiInit /\ FilesInit
  BY DEF InstallationInit
<1>2. [InstallationNext]_installationVars => [KeyNext]_keyVars
  BY DEF InstallationNext, KeyPart, SetupPart, PiPart, FilesPart, installationVars
<1>3. [InstallationNext]_installationVars => [SetupNext]_setupVars
  BY DEF InstallationNext, KeyPart, SetupPart, PiPart, FilesPart, installationVars
<1>4. [InstallationNext]_installationVars => [\E there \in BOOLEAN : PiNext(there)]_piVars
  <2>1. Loads \subseteq BOOLEAN
    BY DEF Loads
  <2> QED
    BY <2>1 DEF InstallationNext, KeyPart, SetupPart, PiPart, FilesPart, installationVars
<1>5. [InstallationNext]_installationVars => [FilesNext]_filesVars
  BY DEF InstallationNext, KeyPart, SetupPart, PiPart, FilesPart, installationVars
<1> QED
  BY <1>1, <1>2, <1>3, <1>4, <1>5, PTL DEF InstallationSpec, KeySpec, SetupSpec, PiSpec, FilesSpec

(* Every variable of the installation is of its type.                      *)
THEOREM InstallationTypeCorrect == InstallationSpec => []InstallationTypeOK
<1>1. KeyIInv => KeyTypeOK
  BY DEF KeyIInv
<1>2. KeyTypeOK /\ SetupTypeOK /\ PiTypeOK /\ FilesTypeOK => InstallationTypeOK
  BY DEF InstallationTypeOK
<1> QED
  BY <1>1, <1>2, InstallationHasParts, KeyInvariant, SetupTypeCorrect, PiTypeCorrect,
     FilesTypeCorrect, PTL

(* What the parts promise they keep beside each other in one repository.   *)
THEOREM InstallationKeeps ==
  InstallationSpec =>
    [](SignedVerifies /\ ShortHasCause /\ OneHandler /\ ForeignKept /\ OwnKept
       /\ OneCorrection /\ GuardOnBranch /\ SubmodulesRefused)
BY InstallationHasParts, ReceiptsVerify, ShortKeyHasCause, OneHandlerHolds, ForeignKeptHolds,
   OwnKeptHolds, OneCorrectionHolds, GuardOnBranchHolds, SubmodulesStayRefused, PTL

=============================================================================
