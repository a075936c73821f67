----------------------------- MODULE Divergence -----------------------------
(***************************************************************************)
(* Where an incident report says that things went wrong first: an event    *)
(* that is tied to a failing check, two events between which a check       *)
(* failed, or nowhere.                                                     *)
(*                                                                         *)
(* An event is a record of its id, the time at, whether it is the root of  *)
(* a session, and its claims: the set of the at most one failing check,    *)
(* told by check, argv and verdict, that a finished tool call with a       *)
(* non-zero exit says it ran; the claim may name the receipt.              *)
(* A receipt is a record of its id, check, verdict, start and finish.      *)
(***************************************************************************)
EXTENDS Integers, Sequences, FiniteSets, FiniteSetsExt

CONSTANT Delivery   \* how long an event may take to arrive: five minutes

ASSUME DeliveryAssumption == Delivery \in Nat

-----------------------------------------------------------------------------
Members(es) == {es[i] : i \in DOMAIN es}

Earlier(es, i, j) == es[i].at < es[j].at \/ (es[i].at = es[j].at /\ i < j)

Place(es, i) == Cardinality({j \in DOMAIN es : Earlier(es, j, i)}) + 1

(* Fault: the order of the ledger.                                         *)
Unsorted(es) == es

(* sort.SliceStable by OccurredAt                                          *)
Sorted(es) == [k \in DOMAIN es |-> es[CHOOSE i \in DOMAIN es : Place(es, i) = k]]

(* Fault: from the first root on.                                          *)
FirstSession(es) ==
  LET roots == {i \in DOMAIN es : es[i].root} IN
  IF roots = {} THEN es ELSE SubSeq(es, Min(roots), Len(es))

(* latestSession: from the last root on, its subagents included.           *)
LatestSession(es) ==
  LET roots == {i \in DOMAIN es : es[i].root} IN
  IF roots = {} THEN es ELSE SubSeq(es, Max(roots), Len(es))

-----------------------------------------------------------------------------
(* eventMatchesReceipt                                                     *)
Associated(e, r) ==
  /\ r.verdict = "FAIL"
  /\ r.finish <= e.at
  /\ e.at <= r.finish + Delivery
  /\ \E c \in e.claims : c.check = r.check /\ (c.names = {} \/ r.id \in c.names)

Failures(receipts) == {r \in receipts : r.verdict = "FAIL"}

(* failures[0]: receipts are observed in the order of their checks.        *)
FirstFailure(receipts) ==
  CHOOSE r \in Failures(receipts) : \A q \in Failures(receipts) :
    r.finish < q.finish \/ (r.finish = q.finish /\ r.check <= q.check)

(* Fault: one side is enough.                                              *)
EnclosingHalf(es, r) ==
  LET before == {i \in DOMAIN es : es[i].at <= r.start}
      after  == {i \in DOMAIN es : es[i].at >= r.finish} IN
  [from |-> IF before = {} THEN {} ELSE {es[Max(before)].id},
   to   |-> IF after = {} THEN {} ELSE {es[Min(after)].id}]

(* enclosingEvents: the last event that is not after the start and the     *)
(* first that is not before the finish.                                    *)
Enclosing(es, r) ==
  LET before == {i \in DOMAIN es : es[i].at <= r.start}
      after  == {i \in DOMAIN es : es[i].at >= r.finish} IN
  IF before # {} /\ after # {} /\ Max(before) < Min(after)
  THEN [from |-> {es[Max(before)].id}, to |-> {es[Min(after)].id}]
  ELSE [from |-> {}, to |-> {}]

At(precision, event, from, to) ==
  [precision |-> precision, event |-> event, from |-> from, to |-> to]

(* locateDivergence, of sorted events, which it sorts again in vain.       *)
Locate(es, receipts) ==
  LET hits   == {i \in DOMAIN es : \E r \in receipts : Associated(es[i], r)}
      window == Enclosing(es, FirstFailure(receipts)) IN
  IF hits # {} THEN At("exact_event", {es[Min(hits)].id}, {}, {})
  ELSE IF Failures(receipts) # {} /\ (window.from # {} \/ window.to # {})
  THEN At("time_window", {}, window.from, window.to)
  ELSE At("unlocated", {}, {}, {})

-----------------------------------------------------------------------------
(* The same without an order of the events.                                *)

Tied(E, receipts) == {e \in E : \E r \in receipts : Associated(e, r)}

Before(E, r) == {e \in E : e.at <= r.start}
After(E, r)  == {e \in E : e.at >= r.finish}

(* An exact event is the earliest that is tied to a failing receipt.  A    *)
(* window is there for want of one; it is the narrowest that encloses the  *)
(* failing check that finished first.  Only if neither exists is the       *)
(* divergence unlocated.                                                   *)
EarliestSupported(E, receipts, d) ==
  CASE d.precision = "exact_event" ->
         \E e \in Tied(E, receipts) :
           d.event = {e.id} /\ \A f \in Tied(E, receipts) : e.at <= f.at
    [] d.precision = "time_window" ->
         /\ Tied(E, receipts) = {}
         /\ \E r \in Failures(receipts) :
              /\ \A q \in Failures(receipts) : r.finish <= q.finish
              /\ \E e \in Before(E, r), f \in After(E, r) :
                   /\ d.from = {e.id} /\ d.to = {f.id}
                   /\ \A g \in Before(E, r) : g.at <= e.at
                   /\ \A g \in After(E, r) : f.at <= g.at
    [] d.precision = "unlocated" ->
         /\ Tied(E, receipts) = {}
         /\ Failures(receipts) # {} =>
              \E r \in Failures(receipts) :
                /\ \A q \in Failures(receipts) : r.finish <= q.finish
                /\ Before(E, r) = {} \/ After(E, r) = {}
=============================================================================
