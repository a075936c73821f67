---------------------------- MODULE Installation ----------------------------
(***************************************************************************)
(* What a repository is given before and beside its checks: the key of its *)
(* receipts, made by `init' or by the first check, the integrations,       *)
(* installed and removed by `setup', and the extension that Pi loads, when *)
(* it starts, from the file `setup' wrote.  The listing of the files that  *)
(* a check covers goes on beside them.                                     *)
(***************************************************************************)
EXTENDS ReceiptKey, Setup, PiExtension, RelevantFiles

installationVars == <<keyVars, setupVars, piVars, filesVars>>

InstallationInit == KeyInit /\ SetupInit /\ PiInit /\ FilesInit

\* The whole extension works, of whatever place; one over which two writes
\* lie may or may not be a program.
Loads == IF extension \in Executables THEN {TRUE}
         ELSE IF extension = Garbled THEN BOOLEAN ELSE {FALSE}

KeyPart   == KeyNext /\ UNCHANGED <<setupVars, piVars, filesVars>>
SetupPart == SetupNext /\ UNCHANGED <<keyVars, piVars, filesVars>>
PiPart    == \E there \in Loads : PiNext(there) /\ UNCHANGED <<keyVars, setupVars, filesVars>>
FilesPart == FilesNext /\ UNCHANGED <<keyVars, setupVars, piVars>>

InstallationNext == KeyPart \/ SetupPart \/ PiPart \/ FilesPart

InstallationSpec == InstallationInit /\ [][InstallationNext]_installationVars

-----------------------------------------------------------------------------
\* Every variable has the values the programs can give it.
InstallationTypeOK == KeyTypeOK /\ SetupTypeOK /\ PiTypeOK /\ FilesTypeOK
=============================================================================
