---------------------------- MODULE EventLedger ----------------------------
(***************************************************************************)
(* What the event store promises its callers: a ledger to which a batch of *)
(* events is added whole or not at all, once, and never taken away.        *)
(*                                                                         *)
(* A caller whose append returned nil knows that the batch is there; one   *)
(* whose append failed knows nothing.  A read either fails or returns the  *)
(* ledger as it was at some moment since the read began.  A program from   *)
(* before the ledger may write beside it; what it wrote is taken over as   *)
(* the first batch, and never left out of a read in silence.               *)
(***************************************************************************)
EXTENDS Integers, Sequences, FiniteSets

CONSTANTS
  Events,    \* event ids
  Batches,   \* batches callers may append, each a set of event ids
  Initials,  \* what an older program may have written to begin with
  Writers,   \* processes that append
  Readers,   \* processes that read
  Limit,     \* size above which nothing is added
  None       \* no value

VARIABLES
  log,       \* the batches, in the order they were added
  old,       \* events that an older program wrote
  asked,     \* the batch a writer is appending
  added,     \* the writers whose batch has been added
  acked,     \* batches whose append returned nil
  from,      \* the events there were when a read began
  view       \* what a read returned

ledger == <<log, old, asked, added, acked, from, view>>

Held(n) == UNION {log[i] : i \in 1 .. n}

Init ==
  /\ log = <<>>
  /\ old \in Initials
  /\ asked = [w \in Writers |-> None]
  /\ added = {}
  /\ acked = {}
  /\ from = [r \in Readers |-> None]
  /\ view = [r \in Readers |-> None]

Ask(w, b) ==
  /\ asked[w] = None
  /\ asked' = [asked EXCEPT ![w] = b]
  /\ UNCHANGED <<log, old, added, acked, from, view>>

Add(w) ==
  /\ asked[w] # None
  /\ w \notin added
  /\ asked[w] \cap Held(Len(log)) = {}
  /\ Cardinality(asked[w] \cup Held(Len(log))) <= Limit
  /\ log' = Append(log, asked[w])
  /\ added' = added \cup {w}
  /\ UNCHANGED <<old, asked, acked, from, view>>

(* The append returns: nil, which it may only do once the batch is in the  *)
(* ledger, or an error.                                                    *)
Return(w, ok) ==
  /\ asked[w] # None
  /\ ok => w \in added
  /\ acked' = IF ok THEN acked \cup {asked[w]} ELSE acked
  /\ asked' = [asked EXCEPT ![w] = None]
  /\ added' = added \ {w}
  /\ UNCHANGED <<log, old, from, view>>

(* An older program writes one event.                                      *)
WriteBeside(e) ==
  /\ e \notin old
  /\ old' = old \cup {e}
  /\ UNCHANGED <<log, asked, added, acked, from, view>>

(* What it has written, or had a moment ago, becomes the first batch.      *)
TakeOver(b) ==
  /\ log = <<>>
  /\ b # {}
  /\ b \subseteq old
  /\ log' = <<b>>
  /\ UNCHANGED <<old, asked, added, acked, from, view>>

BeginRead(r) ==
  /\ from[r] = None
  /\ from' = [from EXCEPT ![r] = Held(Len(log)) \cup old]
  /\ view' = [view EXCEPT ![r] = None]
  /\ UNCHANGED <<log, old, asked, added, acked>>

EndRead(r) ==
  /\ from[r] # None
  /\ from' = [from EXCEPT ![r] = None]
  /\ \/ view' = [view EXCEPT ![r] = None]
     \/ \E S \in {Held(n) : n \in 0 .. Len(log)} \cup {old} :
          from[r] \subseteq S /\ view' = [view EXCEPT ![r] = S]
  /\ UNCHANGED <<log, old, asked, added, acked>>

Next ==
  \/ \E w \in Writers :
       \/ \E b \in Batches : Ask(w, b)
       \/ Add(w)
       \/ \E ok \in BOOLEAN : Return(w, ok)
  \/ \E e \in Events : WriteBeside(e)
  \/ \E b \in SUBSET old : TakeOver(b)
  \/ \E r \in Readers : BeginRead(r) \/ EndRead(r)

Spec == Init /\ [][Next]_ledger
=============================================================================
