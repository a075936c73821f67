--------------------------- MODULE RelevantFiles ---------------------------
(***************************************************************************)
(* Which files a fingerprint covers: the patterns of `relevant_files' are  *)
(* compiled to regular expressions, `git ls-files' is called three times   *)
(* or more, what it emits is filtered by them, and submodules that a       *)
(* pattern may reach into are refused.  The index and the exclude files    *)
(* may change between the calls.                                           *)
(*                                                                         *)
(* A path or a pattern is a sequence of characters, since that is what the *)
(* two dialects of globs are about.  How the files that were found are     *)
(* read is in CompletionEvidence.                                          *)
(***************************************************************************)
EXTENDS Naturals, SequencesExt

CONSTANTS
  Paths,      \* the paths that may be in the worktree
  Requests,   \* the patterns of a check, and what Git says of each path when
              \* its fingerprint is asked for
  BatchSize,  \* maxPathspecBatchSize
  MaxFiles,   \* maxRelevantFiles
  MaxChanges  \* bound: how often Git changes its mind about a path

\* What Git may say of a path; unmerged entries are there in several stages.
Links    == {"link", "unmergedLink"}
Emitted  == {"tracked", "unmerged", "untracked"} \cup Links
Statuses == {"absent", "ignored"} \cup Emitted

ASSUME FilesAssumption ==
  /\ Paths \subseteq Seq(STRING) /\ IsFiniteSet(Paths)
  /\ Requests \subseteq [patterns : Seq(Seq(STRING)), status : [Paths -> Statuses]]
  /\ \A request \in Requests : \A i \in DOMAIN request.patterns :
       {"**", "**/"} \cap ToSet(request.patterns[i]) = {}
  /\ {BatchSize, MaxFiles, MaxChanges} \subseteq Nat

VARIABLES
  patterns, \* relevant_files
  status,   \* what Git says of each path
  stage,    \* how far the listing is
  pending,  \* the patterns whose ignored files have yet to be listed
  files,    \* the files found so far
  modes,    \* those of them whose mode the index gives
  gitlinks, \* the submodules in the index
  been,     \* history: what Git has said of each path since the call
  changes   \* how often it has changed its mind

listVars  == <<stage, pending, files, modes, gitlinks>>
filesVars == <<patterns, status, listVars, been, changes>>

Begin(request) ==
  /\ patterns = request.patterns
  /\ status = request.status
  /\ stage = "idle"
  /\ pending = patterns
  /\ files = <<>>
  /\ modes = {}
  /\ gitlinks = {}
  /\ been = [f \in Paths |-> {status[f]}]
  /\ changes = 0

FilesInit == \E request \in Requests : Begin(request)

-----------------------------------------------------------------------------
(* Globs                                                                   *)

Wild == {"*", "?"}

\* No segment of a pattern is `..', and it is relative.
Valid(p) ==
  /\ p # <<>> /\ Head(p) # "/"
  /\ \A i \in 1 .. Len(p) - 1 : p[i] = "." /\ p[i + 1] = "." =>
       \/ i > 1 /\ p[i - 1] # "/"
       \/ i + 1 < Len(p) /\ p[i + 2] # "/"

\* compileGlob: "**" stands for .* and "**/" for (?:.*/)?, wherever they are.
Pieces(p) ==
  LET at(i, text) == IsPrefix(text, SubSeq(p, i, Len(p)))
      from[i \in 1 .. Len(p) + 1] ==
        IF i > Len(p) THEN <<>>
        ELSE IF at(i, <<"*", "*", "/">>) THEN <<"**/">> \o from[i + 3]
        ELSE IF at(i, <<"*", "*">>) THEN <<"**">> \o from[i + 2]
        ELSE <<p[i]>> \o from[i + 1]
  IN from[1]

\* What one piece stands for.
Accepts(piece, text) ==
  CASE piece = "**"  -> TRUE
    [] piece = "**/" -> text = <<>> \/ Last(text) = "/"
    [] piece = "*"   -> "/" \notin ToSet(text)
    [] piece = "?"   -> Len(text) = 1 /\ text # <<"/">>
    [] OTHER         -> text = <<piece>>

\* A path is cut into as many parts as there are pieces: where the first i
\* of them may end.
Matches(pieces, path) ==
  LET ends[i \in 0 .. Len(pieces)] ==
        IF i = 0 THEN {0}
        ELSE LET before == ends[i - 1] IN
             {k \in 0 .. Len(path) : \E j \in before :
                j <= k /\ Accepts(pieces[i], SubSeq(path, j + 1, k))}
  IN Len(path) \in ends[Len(pieces)]

\* matchesAny
Relevant(path) == \E i \in DOMAIN patterns : Matches(Pieces(patterns[i]), path)

\* How many characters a pattern has before its first wildcard.
LiteralLength(p) == Cardinality({i \in DOMAIN p : \A j \in 1 .. i : p[j] \notin Wild})

\* Git's pathspecs, with the magic word `glob': what is before the first
\* wildcard is compared as it is.  Of the rest, two stars or more reach
\* across directories only if they are a whole segment.
GitPieces(p) ==
  LET literal == LiteralLength(p)
      stars(i) == Cardinality({k \in i .. Len(p) : \A j \in i .. k : p[j] = "*"})
      from[i \in 1 .. Len(p) + 1] ==
        IF i > Len(p) THEN <<>>
        ELSE LET after == i + stars(i) IN
             IF after = i THEN <<p[i]>> \o from[i + 1]
             ELSE IF /\ after > i + 1
                     /\ i = literal + 1 \/ p[i - 1] = "/"
                     /\ after > Len(p) \/ p[after] = "/"
             THEN IF after > Len(p) THEN <<"**">> ELSE <<"**/">> \o from[after + 1]
             ELSE <<"*">> \o from[after]
  IN from[1]

\* Git emits every ignored file that the compiled matcher accepts.
GlobsAgree ==
  \A request \in Requests : \A i \in DOMAIN request.patterns, f \in Paths :
    Matches(Pieces(request.patterns[i]), f) => Matches(GitPieces(request.patterns[i]), f)

\* Fault: only a pattern that matches the submodule itself, or names a path
\* below it, is thought to reach into it.
NamesGitlink(p, link) ==
  Matches(Pieces(p), link) \/ IsPrefix(Append(link, "/"), SubSeq(p, 1, LiteralLength(p)))

MayCoverGitlink(p, link) ==
  LET literal    == SubSeq(p, 1, LiteralLength(p))
      descendant == Append(link, "/")
  IN \/ Matches(Pieces(p), link)
     \/ IsPrefix(descendant, literal)
     \/ literal # p /\ IsPrefix(literal, descendant)

-----------------------------------------------------------------------------
(* FingerprintContext, up to the list of files                             *)

Call ==
  /\ stage = "idle"
  /\ stage' = IF \A i \in DOMAIN patterns : Valid(patterns[i]) THEN "files" ELSE "refused"
  /\ UNCHANGED <<patterns, status, pending, files, modes, gitlinks, been, changes>>

\* collectGitFiles: of what Git emits, what matches and is not yet there.
Collect(emitted, next) ==
  LET found == {f \in emitted : Relevant(f)} \ ToSet(files) IN
  IF Len(files) + Cardinality(found) > MaxFiles
  THEN stage' = "refused" /\ UNCHANGED files
  ELSE stage' = next /\ files' = files \o SetToSeq(found)

\* ls-files -co: the index, and what is neither in it nor ignored.
ListFiles ==
  /\ stage = "files"
  /\ Collect({f \in Paths : status[f] \in Emitted}, "ignored")
  /\ UNCHANGED <<patterns, status, pending, modes, gitlinks, been, changes>>

\* ignoredPathspecBatches: as many patterns as fit, and one at least.
InBatch(n) ==
  n = 1 \/ FoldSeq(LAMBDA p, size : size + Len(p) + 1, 0, SubSeq(pending, 1, n)) <= BatchSize

Batch == CHOOSE n \in DOMAIN pending :
           InBatch(n) /\ (n = Len(pending) \/ ~InBatch(n + 1))

\* Fault: the pattern that fits no more in a batch begins none.
ListIgnoredBut ==
  /\ stage = "ignored" /\ pending # <<>>
  /\ Collect({f \in Paths : status[f] = "ignored" /\
                \E i \in 1 .. Batch : Matches(GitPieces(pending[i]), f)}, "ignored")
  /\ pending' = SubSeq(pending, Batch + 2, Len(pending))
  /\ UNCHANGED <<patterns, status, modes, gitlinks, been, changes>>

\* ls-files -oi, with the patterns of one batch as pathspecs.
ListIgnored ==
  /\ stage = "ignored" /\ pending # <<>>
  /\ Collect({f \in Paths : status[f] = "ignored" /\
                \E i \in 1 .. Batch : Matches(GitPieces(pending[i]), f)}, "ignored")
  /\ pending' = SubSeq(pending, Batch + 1, Len(pending))
  /\ UNCHANGED <<patterns, status, modes, gitlinks, been, changes>>

\* collectGitIndex, ls-files --stage: a submodule counts in any stage.
ListIndex ==
  /\ stage = "ignored" /\ pending = <<>>
  /\ gitlinks' = {f \in Paths : status[f] \in Links}
  /\ modes' = {f \in Paths : status[f] \in {"tracked", "link"} /\ Relevant(f)}
  /\ stage' = "links"
  /\ UNCHANGED <<patterns, status, pending, files, been, changes>>

CheckGitlinks ==
  /\ stage = "links"
  /\ stage' = IF \E link \in gitlinks, i \in DOMAIN patterns :
                   MayCoverGitlink(patterns[i], link)
              THEN "refused" ELSE "listed"
  /\ UNCHANGED <<patterns, status, pending, files, modes, gitlinks, been, changes>>

\* Git fails, emits more than maxGitFileListBytes, or time is up.
FailListing ==
  /\ stage \in {"files", "ignored", "links"}
  /\ stage' = "refused"
  /\ UNCHANGED <<patterns, status, pending, files, modes, gitlinks, been, changes>>

Above(f, g) == IsPrefix(Append(f, "/"), g)

\* `git add', `git rm', `git submodule add', an edit of .gitignore ...: no path
\* is at once there and above another.
Change(f, new) ==
  /\ stage \in {"files", "ignored", "links"} /\ changes < MaxChanges /\ new # status[f]
  /\ new # "absent" => \A g \in Paths : Above(f, g) \/ Above(g, f) => status[g] = "absent"
  /\ status' = [status EXCEPT ![f] = new]
  /\ been' = [been EXCEPT ![f] = @ \cup {new}]
  /\ changes' = changes + 1
  /\ UNCHANGED <<patterns, listVars>>

FilesNext ==
  \/ Call \/ ListFiles \/ ListIgnored \/ ListIndex \/ CheckGitlinks \/ FailListing
  \/ \E f \in Paths, new \in Statuses : Change(f, new)

FilesSpec == FilesInit /\ [][FilesNext]_filesVars

-----------------------------------------------------------------------------
\* The listing is of its type, within its bounds, and takes the patterns in order.
FilesTypeOK ==
  /\ status \in [Paths -> Statuses]
  /\ stage \in {"idle", "files", "ignored", "links", "listed", "refused"}
  /\ files \in Seq(Paths) /\ Len(files) <= MaxFiles
  /\ modes \cup gitlinks \subseteq Paths
  /\ IsSuffix(pending, patterns)
  /\ been \in [Paths -> SUBSET Statuses]
  /\ changes \in 0 .. MaxChanges

\* README.md:179 and SECURITY.md:65, a receipt is for the files that match,
\* "Git-ignored files such as generated Go sources" included: one that was in
\* the worktree all the time and matches is in the fingerprint, once, although
\* Git is asked several times and the file is added, unmerged or removed from
\* the index meanwhile.  Only one that is ignored at one time and not at
\* another may escape.
RelevantListed ==
  stage = "listed" =>
    \A f \in Paths :
      /\ Relevant(f) /\ (been[f] \subseteq Emitted \/ been[f] = {"ignored"}) =>
           \E i \in DOMAIN files : files[i] = f
      /\ \A i, j \in DOMAIN files : files[i] = files[j] => i = j

\* fingerprint.go:270-272, "it cannot omit a descendant whose path matches the
\* configured glob": where a fingerprint is taken, no path below a submodule
\* matches, an unmerged one or one that Git changed meanwhile included.
SubmodulesRefused ==
  stage = "listed" =>
    \A link, f \in Paths : been[link] \subseteq Links /\ been[link] # {} =>
      ~Relevant(link) /\ ~Relevant(link \o <<"/">> \o f)
=============================================================================
