----------------------------- MODULE ReceiptKey -----------------------------
(***************************************************************************)
(* The key that receipts are signed with.  `init' and `check' make it when *)
(* it is missing: the file is created exclusively, with O_EXCL, and then   *)
(* written.  A check reads it again when it signs its receipt.  Nothing    *)
(* else orders the commands, and each may be stopped at any point.         *)
(***************************************************************************)
EXTENDS Naturals

CONSTANTS
  Signers,     \* the runs of `init' and `check'; one also stands for the
               \* random key it makes and for its receipt
  NoKey,       \* there is no file receipt.key
  MaxErasures, \* how often the user removes .git/beforedone
  KeyFaults    \* "stop": a command is killed or the disk is full

ASSUME KeyAssumption ==
  /\ NoKey \notin [maker : Signers, whole : BOOLEAN]
  /\ MaxErasures \in Nat
  /\ KeyFaults \subseteq {"stop"}

VARIABLES
  keyFile,  \* receipt.key: who made it, and whether its text is there
  at,       \* how far each command is
  signedBy, \* the key a check has signed its receipt with
  receipts, \* the checks whose receipt is saved
  erasures  \* how often .git/beforedone was removed

keyVars == <<keyFile, at, signedBy, receipts, erasures>>

Short == keyFile # NoKey /\ ~keyFile.whole
Whole == keyFile # NoKey /\ keyFile.whole

KeyInit ==
  /\ keyFile = NoKey
  /\ at = [p \in Signers |-> "idle"]
  /\ signedBy = [p \in Signers |-> p]
  /\ receipts = {}
  /\ erasures = 0

Advance(p, from, to) == at[p] = from /\ at' = [at EXCEPT ![p] = to]

\* EnsureKey reads the file: a short one is an error, a whole one will do.
LookAtKey(p) ==
  /\ \/ keyFile = NoKey /\ Advance(p, "idle", "missing")
     \/ Short /\ Advance(p, "idle", "failed")
     \/ Whole /\ Advance(p, "idle", "ready")
  /\ UNCHANGED <<keyFile, signedBy, receipts, erasures>>

\* Fault: the key is created without O_EXCL: the file is truncated.
CreateAnyway(p) ==
  /\ Advance(p, "missing", "created")
  /\ keyFile' = [maker |-> p, whole |-> FALSE]
  /\ UNCHANGED <<signedBy, receipts, erasures>>

\* Fault: the created file is taken for a written one.
CreateOnly(p) ==
  /\ Advance(p, "missing", "ready")
  /\ keyFile' = IF keyFile = NoKey THEN [maker |-> p, whole |-> FALSE] ELSE keyFile
  /\ UNCHANGED <<signedBy, receipts, erasures>>

\* Whoever creates the file first has it; the others take it as it is.
CreateKey(p) ==
  /\ \/ /\ keyFile = NoKey
        /\ keyFile' = [maker |-> p, whole |-> FALSE]
        /\ Advance(p, "missing", "created")
     \/ /\ keyFile # NoKey
        /\ Advance(p, "missing", "ready")
        /\ UNCHANGED keyFile
  /\ UNCHANGED <<signedBy, receipts, erasures>>

\* A file that was removed meanwhile is written all the same.
WriteKey(p) ==
  /\ Advance(p, "created", "ready")
  /\ keyFile' = IF keyFile # NoKey /\ keyFile.maker = p
                THEN [keyFile EXCEPT !.whole = TRUE] ELSE keyFile
  /\ UNCHANGED <<signedBy, receipts, erasures>>

\* `init' has no more to do.
EndInit(p) ==
  /\ Advance(p, "ready", "done")
  /\ UNCHANGED <<keyFile, signedBy, receipts, erasures>>

\* After the verifier has run, Sign reads the file again.
Sign(p) ==
  /\ \/ ~Whole /\ Advance(p, "ready", "failed") /\ UNCHANGED signedBy
     \/ /\ Whole /\ Advance(p, "ready", "signed")
        /\ signedBy' = [signedBy EXCEPT ![p] = keyFile.maker]
  /\ UNCHANGED <<keyFile, receipts, erasures>>

Save(p) ==
  /\ Advance(p, "signed", "done")
  /\ receipts' = receipts \cup {p}
  /\ UNCHANGED <<keyFile, signedBy, erasures>>

Running(p) == at[p] \in {"missing", "created", "ready", "signed"}

\* A kill, or a write that fails: what is in the file stays there.
StopSigner(p) ==
  /\ "stop" \in KeyFaults /\ Running(p)
  /\ at' = [at EXCEPT ![p] = "stopped"]
  /\ UNCHANGED <<keyFile, signedBy, receipts, erasures>>

\* The user removes a key that the commands refuse as invalid.
RemoveShort ==
  /\ Short /\ \E p \in Signers : at[p] = "failed"
  /\ keyFile' = NoKey
  /\ UNCHANGED <<at, signedBy, receipts, erasures>>

\* The user removes .git/beforedone once the integrations are uninstalled.
Erase ==
  /\ erasures < MaxErasures /\ \A p \in Signers : ~Running(p)
  /\ keyFile' = NoKey /\ receipts' = {} /\ erasures' = erasures + 1
  /\ UNCHANGED <<at, signedBy>>

SignerStep(p) ==
  \/ LookAtKey(p) \/ CreateKey(p) \/ WriteKey(p) \/ EndInit(p)
  \/ Sign(p) \/ Save(p) \/ StopSigner(p)

KeyNext == (\E p \in Signers : SignerStep(p)) \/ RemoveShort \/ Erase

KeySpec == KeyInit /\ [][KeyNext]_keyVars
-----------------------------------------------------------------------------
\* The state is of its type.
KeyTypeOK ==
  /\ keyFile \in {NoKey} \cup [maker : Signers, whole : BOOLEAN]
  /\ at \in [Signers -> {"idle", "missing", "created", "ready", "signed",
                         "done", "failed", "stopped"}]
  /\ signedBy \in [Signers -> Signers]
  /\ receipts \subseteq Signers
  /\ erasures \in 0..MaxErasures

\* VerifySignature reads the key once more.
Verifies(p) == Whole /\ keyFile.maker = signedBy[p]

\* Two first checks that both find no key, a check whose key is removed as
\* invalid under its hands, and an erasure: every receipt that is saved, or
\* about to be, verifies, whoever made the key (evidence/store.go:53-97).
SignedVerifies ==
  \A p \in Signers : p \in receipts \/ at[p] = "signed" => Verifies(p)

\* A command finds an invalid key only while the one that made it is between
\* creating and writing it, or was stopped there (evidence/store.go:326-339): no two
\* commands that run to their end leave one.
ShortHasCause ==
  Short => at[keyFile.maker] \in {"created", "stopped"}

\* The parts of the invariant that the theorems of InstallationProofs rest on.
KeyIInv == KeyTypeOK /\ SignedVerifies /\ ShortHasCause
=============================================================================
