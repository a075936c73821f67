------------------------ MODULE HarnessPluginProofs ------------------------
(* What holds of the plugin for any number of turns, stops, events and     *)
(* queued flushes, and however the CLI ends.                               *)
EXTENDS HarnessPlugin, SequenceTheorems, TLAPS

LEMMA ConstantsAreNumbers ==
  MaxTurns \in Nat /\ MaxStops \in Nat /\ MaxEvents \in Nat /\ MaxFlushes \in Nat
BY PluginAssumption

LEMMA TurnIsNumber == ASSUME NEW t \in Turns PROVE t \in Nat /\ 0 < t /\ t <= MaxTurns
BY ConstantsAreNumbers DEF Turns

-----------------------------------------------------------------------------
(* The chain of flushes.                                                   *)

LEMMA FirstOfChain ==
  ASSUME TypeOK, chain # <<>>
  PROVE  /\ Len(chain) \in Nat /\ Len(chain) > 0
         /\ 1 \in DOMAIN chain
         /\ Head(chain) = chain[1]
         /\ Head(chain) \in Request
         /\ Head(chain).turn \in 0 .. MaxTurns
         /\ Head(chain).by \in {"flush", "stop", "final", "unload"}
         /\ Tail(chain) \in Seq(Request)
         /\ DOMAIN Tail(chain) = 1 .. Len(chain) - 1
         /\ \A i \in DOMAIN Tail(chain) :
              i + 1 \in DOMAIN chain /\ Tail(chain)[i] = chain[i + 1]
<1>1. chain \in Seq(Request)
  BY DEF TypeOK
<1>2. Head(chain) = chain[1] /\ Head(chain) \in Request /\ Len(chain) > 0
  BY <1>1
<1>3. Head(chain).turn \in 0 .. MaxTurns
      /\ Head(chain).by \in {"flush", "stop", "final", "unload"}
  BY <1>2 DEF Request
<1> QED
  BY <1>1, <1>2, <1>3

LEMMA ChainGrows ==
  ASSUME TypeOK, NEW t \in 0 .. MaxTurns,
         NEW by \in {"flush", "stop", "final", "unload"}, Ask(by, t)
  PROVE  /\ chain' \in Seq(Request)
         /\ chain' # <<>>
         /\ DOMAIN chain' = 1 .. Len(chain) + 1
         /\ \A i \in DOMAIN chain : i \in DOMAIN chain' /\ chain'[i] = chain[i]
         /\ chain'[Len(chain) + 1].by = by
         /\ chain'[Len(chain) + 1].turn = t
<1>1. chain \in Seq(Request) /\ [by |-> by, turn |-> t] \in Request
  BY DEF TypeOK, Request
<1> QED
  BY <1>1 DEF Ask

(* A request that is not of a stop leaves the flushes of stops alone.      *)
LEMMA OtherRequest ==
  ASSUME TypeOK, FlushesAreOfStops,
         NEW by \in {"flush", "final", "unload"}, Ask(by, 0),
         stop' = stop, marks' = marks, batch' = batch,
         Acknowledged' = Acknowledged
  PROVE  FlushesAreOfStops'
<1>1. 0 \in 0 .. MaxTurns /\ by \in {"flush", "stop", "final", "unload"}
  BY ConstantsAreNumbers
<1>2. /\ DOMAIN chain' = 1 .. Len(chain) + 1
      /\ \A i \in DOMAIN chain : i \in DOMAIN chain' /\ chain'[i] = chain[i]
      /\ chain'[Len(chain) + 1].by = by
  BY <1>1, ChainGrows
<1>3. chain \in Seq(Request) /\ DOMAIN chain = 1 .. Len(chain) /\ Len(chain) \in Nat
  BY DEF TypeOK
<1>4. \A i : Stopping(i)' <=> Stopping(i)
  BY <1>2, <1>3 DEF Stopping
<1>5. \A i : Stopping(i) => chain'[i] = chain[i]
  BY <1>2 DEF Stopping
<1> QED
  BY <1>4, <1>5 DEF FlushesAreOfStops, Stopping

-----------------------------------------------------------------------------
(* The queue and the ledger.                                               *)

LEMMA QueueGrows ==
  ASSUME TypeOK, QueueFollows, Enqueue, ledger' = ledger, batch' = batch
  PROVE  /\ QueueFollows'
         /\ Acknowledged' = Acknowledged
         /\ made' \in 0 .. MaxEvents /\ made' = made + 1
         /\ pending' \in Seq(1 .. made')
         /\ Len(batch') <= Len(pending')
         /\ batch' \in Seq(1 .. made')
         /\ \A i \in 1 .. Len(batch') : batch'[i] = pending'[i]
         /\ ledger' \in Seq(1 .. made')
<1>1. /\ pending \in Seq(1 .. made) /\ ledger \in Seq(1 .. made) /\ made \in Nat
      /\ batch \in Seq(1 .. made) /\ Len(batch) <= Len(pending)
      /\ \A i \in 1 .. Len(batch) : batch[i] = pending[i]
      /\ made \in 0 .. MaxEvents
  BY ConstantsAreNumbers DEF TypeOK
<1>2. made' = made + 1 /\ pending' = Append(pending, made + 1) /\ made < MaxEvents
  BY DEF Enqueue
<1>3. /\ Len(pending) \in Nat /\ Len(pending') = Len(pending) + 1
      /\ \A i \in 1 .. Len(pending) : pending'[i] = pending[i]
      /\ pending'[Len(pending) + 1] = made + 1
  BY <1>1, <1>2
<1>4. pending' \in Seq(1 .. made') /\ ledger' \in Seq(1 .. made')
  BY <1>1, <1>2
<1>5. Acknowledged' = Acknowledged
  BY <1>1, <1>2, <1>3 DEF Acknowledged
<1>6. Acknowledged + Len(pending) + 1 = made + 1
  BY <1>1, <1>3 DEF Acknowledged
<1>7. \A i \in 1 .. Len(pending') : pending'[i] = Acknowledged' + i
  <2>1. \A i \in 1 .. Len(pending) : pending[i] = Acknowledged + i
    BY DEF QueueFollows
  <2>2. TAKE i \in 1 .. Len(pending')
  <2>3. CASE i \in 1 .. Len(pending)
    BY <2>1, <2>3, <1>3, <1>5
  <2>4. CASE i = Len(pending) + 1
    BY <2>4, <1>3, <1>5, <1>6, <1>1 DEF Acknowledged
  <2>5. i \in 1 .. Len(pending) \/ i = Len(pending) + 1
    BY <1>3
  <2> QED
    BY <2>3, <2>4, <2>5
<1>8. pending' = [i \in 1 .. Len(pending') |-> Acknowledged' + i]
  BY <1>4, <1>7
<1>9. Len(pending) <= made /\ LedgerInOrder /\ Acknowledged <= Len(ledger)
      /\ Len(ledger) <= made
  BY DEF QueueFollows
<1>10. QueueFollows'
  <2>1. Len(pending') <= made' /\ Len(ledger') <= made' /\ LedgerInOrder'
        /\ Acknowledged' <= Len(ledger')
    BY <1>1, <1>2, <1>3, <1>5, <1>9 DEF LedgerInOrder
  <2> QED
    BY <2>1, <1>8 DEF QueueFollows
<1>11. /\ batch' \in Seq(1 .. made') /\ Len(batch') <= Len(pending')
       /\ \A i \in 1 .. Len(batch') : batch'[i] = pending'[i]
  <2>1. Len(batch) \in Nat
    BY <1>1
  <2> QED
    BY <2>1, <1>1, <1>2, <1>3
<1>12. made' \in 0 .. MaxEvents
  BY <1>1, <1>2, ConstantsAreNumbers
<1> QED
  BY <1>2, <1>4, <1>5, <1>10, <1>11, <1>12

(* A sequence of its own indices.                                          *)
LEMMA CountsUp ==
  ASSUME NEW S, NEW s \in Seq(S), \A i \in 1 .. Len(s) : s[i] = i
  PROVE  s = [i \in 1 .. Len(s) |-> i]
OBVIOUS

(* The CLI has stored the batch, which is then the front of the queue and  *)
(* follows what the ledger has.                                            *)
LEMMA StoredFollows ==
  ASSUME TypeOK, QueueFollows, batch # <<>>, ~InLedger(batch)
  PROVE  /\ Acknowledged = Len(ledger)
         /\ Acknowledged + Len(batch) <= made
         /\ Len(ledger \o batch) = Acknowledged + Len(batch)
         /\ ledger \o batch = [i \in 1 .. Len(ledger \o batch) |-> i]
         /\ ledger \o batch \in Seq(1 .. made)
<1>1. /\ pending \in Seq(1 .. made) /\ ledger \in Seq(1 .. made) /\ made \in Nat
      /\ batch \in Seq(1 .. made) /\ Len(batch) <= Len(pending)
      /\ \A i \in 1 .. Len(batch) : batch[i] = pending[i]
  BY ConstantsAreNumbers DEF TypeOK
<1>2. Len(batch) \in Nat /\ DOMAIN batch = 1 .. Len(batch)
      /\ DOMAIN ledger = 1 .. Len(ledger)
  BY <1>1
<1>3. Len(batch) > 0 /\ Len(pending) \in Nat /\ Len(ledger) \in Nat
  BY <1>1, <1>2
<1>4. /\ \A i \in 1 .. Len(pending) : pending[i] = Acknowledged + i
      /\ \A i \in 1 .. Len(ledger) : ledger[i] = i
      /\ Acknowledged <= Len(ledger)
  BY DEF QueueFollows, LedgerInOrder
<1>5. Acknowledged \in Nat /\ Acknowledged + Len(pending) = made
  BY <1>1, <1>3 DEF Acknowledged, QueueFollows
<1>6. \A i \in 1 .. Len(batch) : batch[i] = Acknowledged + i
  <2>1. TAKE i \in 1 .. Len(batch)
  <2>2. i \in 1 .. Len(pending)
    BY <1>1, <1>2, <1>3
  <2>3. pending[i] = Acknowledged + i
    BY <2>2, <1>4
  <2>4. batch[i] = pending[i]
    BY <1>1
  <2> QED
    BY <2>3, <2>4
<1>7. Acknowledged = Len(ledger)
  <2>1. SUFFICES ASSUME Acknowledged < Len(ledger) PROVE FALSE
    BY <1>3, <1>4, <1>5
  <2>2. 1 \in DOMAIN batch /\ batch[1] = Acknowledged + 1
    BY <1>2, <1>3, <1>6
  <2>3. Acknowledged + 1 \in DOMAIN ledger /\ ledger[Acknowledged + 1] = Acknowledged + 1
    BY <2>1, <1>2, <1>3, <1>4, <1>5
  <2> QED
    BY <2>2, <2>3 DEF InLedger
<1>8. Acknowledged + Len(batch) <= made
  BY <1>1, <1>2, <1>3, <1>5
<1>9. /\ Len(ledger \o batch) = Len(ledger) + Len(batch)
      /\ ledger \o batch \in Seq(1 .. made)
      /\ \A i \in 1 .. Len(ledger) : (ledger \o batch)[i] = ledger[i]
      /\ \A i \in 1 .. Len(batch) : (ledger \o batch)[Len(ledger) + i] = batch[i]
  BY <1>1, <1>2
<1>10. \A i \in 1 .. Len(ledger \o batch) : (ledger \o batch)[i] = i
  <2>1. TAKE i \in 1 .. Len(ledger \o batch)
  <2>2. CASE i \in 1 .. Len(ledger)
    BY <2>2, <1>4, <1>9
  <2>3. CASE i \notin 1 .. Len(ledger)
    <3>1. i - Len(ledger) \in 1 .. Len(batch) /\ i = Len(ledger) + (i - Len(ledger))
      BY <2>3, <1>2, <1>3, <1>9
    <3>2. (ledger \o batch)[Len(ledger) + (i - Len(ledger))] = batch[i - Len(ledger)]
      BY <3>1, <1>9
    <3>3. batch[i - Len(ledger)] = Acknowledged + (i - Len(ledger))
      BY <3>1, <1>6
    <3> QED
      BY <3>1, <3>2, <3>3, <1>3, <1>7
  <2> QED
    BY <2>2, <2>3
<1>11. ledger \o batch = [i \in 1 .. Len(ledger \o batch) |-> i]
  BY <1>9, <1>10, CountsUp
<1> QED
  BY <1>7, <1>8, <1>9, <1>11

(* What the end of the CLI does to queue and ledger.                       *)
LEMMA QueueShrinks ==
  ASSUME TypeOK, QueueFollows, batch # <<>>, made' = made, batch' = <<>>,
         NEW stored \in BOOLEAN, NEW ok \in BOOLEAN,
         stored => ~InLedger(batch), ok => stored,
         ledger' = IF stored THEN ledger \o batch ELSE ledger, DropBatch(ok)
  PROVE  /\ QueueFollows'
         /\ pending' \in Seq(1 .. made)
         /\ ledger' \in Seq(1 .. made)
         /\ Len(ledger) <= Len(ledger')
         /\ ok => Len(ledger') = Acknowledged + Len(batch)
<1>1. /\ pending \in Seq(1 .. made) /\ ledger \in Seq(1 .. made) /\ made \in Nat
      /\ batch \in Seq(1 .. made) /\ Len(batch) <= Len(pending)
      /\ \A i \in 1 .. Len(batch) : batch[i] = pending[i]
  BY ConstantsAreNumbers DEF TypeOK
<1>2. Len(batch) \in Nat /\ Len(pending) \in Nat /\ Len(ledger) \in Nat
  BY <1>1
<1>3. /\ pending = [i \in 1 .. Len(pending) |-> Acknowledged + i]
      /\ Len(pending) <= made /\ LedgerInOrder
      /\ Acknowledged <= Len(ledger) /\ Len(ledger) <= made
  BY DEF QueueFollows
<1>4. Acknowledged \in Nat /\ Acknowledged + Len(pending) = made
  BY <1>1, <1>2, <1>3 DEF Acknowledged
<1>5. /\ LedgerInOrder' /\ ledger' \in Seq(1 .. made)
      /\ Len(ledger) <= Len(ledger') /\ Len(ledger') <= made
      /\ stored => Len(ledger') = Acknowledged + Len(batch)
  <2>1. CASE stored
    BY <2>1, <1>1, <1>2, <1>4, StoredFollows DEF LedgerInOrder
  <2>2. CASE ~stored
    BY <2>2, <1>1, <1>3 DEF LedgerInOrder
  <2> QED
    BY <2>1, <2>2
<1>6. CASE ~ok
  <2>1. pending' = pending
    BY <1>6 DEF DropBatch
  <2>2. Acknowledged' = Acknowledged
    BY <2>1 DEF Acknowledged
  <2>3. Acknowledged' <= Len(ledger')
    BY <2>2, <1>2, <1>3, <1>4, <1>5
  <2> QED
    BY <2>1, <2>2, <2>3, <1>1, <1>3, <1>5, <1>6 DEF QueueFollows
<1>7. CASE ok
  <2>1. pending' = SubSeq(pending, Len(batch) + 1, Len(pending))
    BY <1>7 DEF DropBatch
  <2>2. /\ pending' \in Seq(1 .. made)
        /\ Len(pending') = Len(pending) - Len(batch)
        /\ \A i \in 1 .. Len(pending') : pending'[i] = pending[Len(batch) + i]
    <3>1. \A i \in Len(batch) + 1 .. Len(pending) : pending[i] \in 1 .. made
      BY <1>1, <1>2
    <3>2. Len(batch) + 1 \in Int /\ Len(pending) \in Int
      BY <1>2
    <3>3. /\ pending' \in Seq(1 .. made)
          /\ Len(pending') = IF Len(batch) + 1 <= Len(pending)
                             THEN Len(pending) - (Len(batch) + 1) + 1 ELSE 0
          /\ \A i \in 1 .. Len(pending) - (Len(batch) + 1) + 1 :
               pending'[i] = pending[(Len(batch) + 1) + i - 1]
      BY <2>1, <3>1, <3>2, SubSeqProperties, SMT
    <3>4. Len(pending') = Len(pending) - Len(batch)
      BY <3>3, <1>1, <1>2
    <3>5. \A i \in 1 .. Len(pending') : pending'[i] = pending[Len(batch) + i]
      <4>1. TAKE i \in 1 .. Len(pending')
      <4>2. i \in 1 .. Len(pending) - (Len(batch) + 1) + 1
            /\ (Len(batch) + 1) + i - 1 = Len(batch) + i
        BY <4>1, <3>4, <1>2
      <4> QED
        BY <4>2, <3>3
    <3> QED
      BY <3>3, <3>4, <3>5
  <2>3. Acknowledged' = Acknowledged + Len(batch)
    BY <2>2, <1>1, <1>2 DEF Acknowledged
  <2>4. \A i \in 1 .. Len(pending') : pending'[i] = Acknowledged' + i
    <3>1. TAKE i \in 1 .. Len(pending')
    <3>2. Len(batch) + i \in 1 .. Len(pending)
      BY <3>1, <2>2, <1>1, <1>2
    <3>3. pending[Len(batch) + i] = Acknowledged + (Len(batch) + i)
      BY <3>2, <1>3
    <3> QED
      BY <3>1, <3>3, <2>2, <2>3, <1>2, <1>4
  <2>5. pending' = [i \in 1 .. Len(pending') |-> Acknowledged' + i]
    BY <2>2, <2>4
  <2>6. Len(ledger') = Acknowledged + Len(batch)
    BY <1>5, <1>7
  <2>7. Acknowledged' <= Len(ledger')
    BY <2>3, <2>6, <1>2, <1>4
  <2>8. Len(pending') <= made
    BY <2>2, <1>1, <1>2, <1>3
  <2> QED
    BY <2>2, <2>5, <2>6, <2>7, <2>8, <1>5 DEF QueueFollows
<1> QED
  BY <1>6, <1>7

-----------------------------------------------------------------------------
(* The handler of a stopping turn.                                         *)

(* What an end of the handler leaves of the other turns.                   *)
OthersStay(t) ==
  \A u \in Turns : u # t => stop'[u] = stop[u] /\ answer'[u] = answer[u]

TurnsTyped ==
  /\ stop \in [Turns -> StopPhases]
  /\ answer \in [Turns -> Answers]
  /\ steered \subseteq Turns
  /\ forced \in [Turns -> Nat]

(* A turn that is sent back was current, so that steeredTurns told whether *)
(* it had been before.                                                     *)
LEMMA NotAcceptedForcesOnce ==
  ASSUME TypeOK, SteeredIsKnown, NEW t \in Turns, stop[t] # "idle",
         t \notin aborted, NotAccepted(t),
         last' = last, open' = open, aborted' = aborted
  PROVE  /\ TurnsTyped' /\ SteeredIsKnown' /\ OthersStay(t)
         /\ stop'[t] = "idle" /\ answer'[t] # "allowed"
<1>1. /\ stop \in [Turns -> StopPhases] /\ answer \in [Turns -> Answers]
      /\ steered \subseteq Turns /\ forced \in [Turns -> Nat]
  BY DEF TypeOK
<1>2. t = last /\ open
  BY DEF SteeredIsKnown, Current
<1>3. stop' = [stop EXCEPT ![t] = "idle"]
  BY DEF NotAccepted, End
<1>4. CASE t \notin steered
  <2>1. /\ steered' = steered \cup {t} /\ forced' = [forced EXCEPT ![t] = @ + 1]
        /\ answer' = [answer EXCEPT ![t] = "steered"]
    BY <1>4 DEF NotAccepted, End
  <2>2. forced[t] = 0
    BY <1>1, <1>2, <1>4 DEF SteeredIsKnown, Current
  <2>3. forced'[t] = 1 /\ \A u \in Turns : u # t => forced'[u] = forced[u]
    BY <1>1, <2>1, <2>2
  <2>4. TurnsTyped'
    BY <1>1, <1>3, <2>1 DEF TurnsTyped, StopPhases, Answers
  <2>5. OthersStay(t) /\ stop'[t] = "idle" /\ answer'[t] = "steered"
    BY <1>1, <1>3, <2>1 DEF OthersStay
  <2>6. SteeredIsKnown'
    <3>1. SUFFICES ASSUME NEW u \in Turns
          PROVE /\ forced'[u] <= 1
                /\ u \in steered' => forced'[u] = 1
                /\ forced'[u] = 1 /\ Current(u) => u \in steered'
                /\ u > last => forced'[u] = 0 /\ stop'[u] = "idle"
                /\ stop'[u] # "idle" => Current(u) \/ u \in aborted
                /\ answer'[u] = "unresolved" => forced'[u] = 1
      BY DEF SteeredIsKnown, Current
    <3>2. CASE u = t
      BY <3>2, <2>1, <2>3, <2>5, <1>2, ConstantsAreNumbers, TurnIsNumber DEF Turns
    <3>3. CASE u # t
      BY <3>3, <2>1, <2>3, <2>5 DEF SteeredIsKnown, OthersStay
    <3> QED
      BY <3>2, <3>3
  <2> QED
    BY <2>4, <2>5, <2>6
<1>5. CASE t \in steered
  <2>1. /\ steered' = steered /\ forced' = forced
        /\ answer' = [answer EXCEPT ![t] = "unresolved"]
    BY <1>5 DEF NotAccepted, End
  <2>2. TurnsTyped'
    BY <1>1, <1>3, <2>1 DEF TurnsTyped, StopPhases, Answers
  <2>3. OthersStay(t) /\ stop'[t] = "idle" /\ answer'[t] = "unresolved"
    BY <1>1, <1>3, <2>1 DEF OthersStay
  <2>4. SteeredIsKnown'
    BY <1>5, <2>1, <2>3 DEF SteeredIsKnown, OthersStay, Current
  <2> QED
    BY <2>2, <2>3, <2>4
<1> QED
  BY <1>4, <1>5

(* The handler ends or goes on without sending the turn back.              *)
LEMMA HandlerMoves ==
  ASSUME TypeOK, SteeredIsKnown, NEW t \in Turns, stop[t] # "idle",
         NEW p \in {"idle", "gating"}, stop' = [stop EXCEPT ![t] = p],
         NEW a \in Answers \ {"unresolved"},
         answer' = [answer EXCEPT ![t] = a] \/ answer' = answer,
         steered' = steered, forced' = forced,
         last' = last, open' = open, aborted' = aborted
  PROVE  TurnsTyped' /\ SteeredIsKnown' /\ OthersStay(t) /\ stop'[t] = p
<1>1. /\ stop \in [Turns -> StopPhases] /\ answer \in [Turns -> Answers]
      /\ steered \subseteq Turns /\ forced \in [Turns -> Nat]
  BY DEF TypeOK
<1>2. stop'[t] = p /\ \A u \in Turns : u # t => stop'[u] = stop[u]
  BY <1>1
<1>3. /\ answer' \in [Turns -> Answers]
      /\ \A u \in Turns : u # t => answer'[u] = answer[u]
      /\ \A u \in Turns : answer'[u] = "unresolved" => answer[u] = "unresolved"
  BY <1>1
<1>4. stop' \in [Turns -> StopPhases]
  BY <1>1 DEF StopPhases
<1>5. \A u \in Turns : stop'[u] # "idle" => stop[u] # "idle"
  BY <1>2
<1>6. \A u \in Turns : stop[u] = "idle" => stop'[u] = "idle"
  BY <1>2
<1>7. SteeredIsKnown'
  BY <1>3, <1>5, <1>6 DEF SteeredIsKnown, Current
<1>8. TurnsTyped'
  BY <1>1, <1>3, <1>4 DEF TurnsTyped
<1> QED
  BY <1>2, <1>3, <1>7, <1>8 DEF OthersStay

LEMMA FailedForcesOnce ==
  ASSUME TypeOK, SteeredIsKnown, NEW t \in Turns, stop[t] # "idle", Failed(t),
         last' = last, open' = open, aborted' = aborted
  PROVE  /\ TurnsTyped' /\ SteeredIsKnown' /\ OthersStay(t)
         /\ stop'[t] = "idle" /\ answer'[t] # "allowed"
<1>1. CASE t \in aborted
  <2>1. /\ stop' = [stop EXCEPT ![t] = "idle"]
        /\ answer' = [answer EXCEPT ![t] = "aborted"]
        /\ steered' = steered /\ forced' = forced
    BY <1>1 DEF Failed, End
  <2>2. "aborted" \in Answers \ {"unresolved"}
    BY DEF Answers
  <2>3. answer'[t] = "aborted"
    BY <2>1 DEF TypeOK
  <2> QED
    BY <2>1, <2>2, <2>3, HandlerMoves
<1>2. CASE t \notin aborted
  BY <1>2, NotAcceptedForcesOnce DEF Failed
<1> QED
  BY <1>1, <1>2

(* After its flush the handler goes on only if that succeeded.             *)
LEMMA ResumeForcesOnce ==
  ASSUME TypeOK, SteeredIsKnown, NEW t \in Turns, stop[t] # "idle",
         NEW ok \in BOOLEAN, Resume(t, ok),
         last' = last, open' = open, aborted' = aborted
  PROVE  /\ TurnsTyped' /\ SteeredIsKnown' /\ OthersStay(t)
         /\ ~ok => stop'[t] = "idle" /\ answer'[t] # "allowed"
<1>1. CASE ok
  <2>1. /\ stop' = [stop EXCEPT ![t] = "gating"]
        /\ answer' = answer /\ steered' = steered /\ forced' = forced
    BY <1>1 DEF Resume
  <2>2. "none" \in Answers \ {"unresolved"}
    BY DEF Answers
  <2> QED
    BY <1>1, <2>1, <2>2, HandlerMoves
<1>2. CASE ~ok
  BY <1>2, FailedForcesOnce DEF Resume
<1> QED
  BY <1>1, <1>2

-----------------------------------------------------------------------------
(* The end of a flush.                                                     *)

(* If the flush at the head of the chain is a stop's and has succeeded,    *)
(* the stop is in the ledger, and so may the gate be asked.                *)
LEMMA SettleKeepsIInv ==
  ASSUME IInv, chain # <<>>, NEW ok \in BOOLEAN, Settle(ok),
         QueueFollows', pending' \in Seq(1 .. made), ledger' \in Seq(1 .. made),
         Len(ledger) <= Len(ledger'),
         ok /\ Stopping(1) => marks[chain[1].turn] <= Len(ledger')
  PROVE  IInv'
<1>1. TypeOK /\ FlushesAreOfStops /\ GatedIsRecorded /\ SteeredIsKnown
  BY DEF IInv
<1>2. /\ 1 \in DOMAIN chain /\ Head(chain) = chain[1] /\ Tail(chain) \in Seq(Request)
      /\ \A i \in DOMAIN Tail(chain) :
           i + 1 \in DOMAIN chain /\ Tail(chain)[i] = chain[i + 1]
      /\ DOMAIN Tail(chain) = 1 .. Len(chain) - 1 /\ Len(chain) \in Nat
  BY <1>1, FirstOfChain
<1>3. /\ chain' = Tail(chain) /\ batch' = <<>>
      /\ session' \in {"forgotten", session}
      /\ made' = made /\ last' = last /\ open' = open /\ aborted' = aborted
      /\ stops' = stops /\ marks' = marks
  BY DEF Settle
<1>4. /\ Stopping(1) => chain[1].turn \in Turns /\ stop[chain[1].turn] = "flushing"
                        /\ Resume(chain[1].turn, ok)
      /\ ~Stopping(1) => stop' = stop /\ answer' = answer /\ steered' = steered
                         /\ forced' = forced
  BY <1>1, <1>2 DEF Settle, Stopping, FlushesAreOfStops
<1>5. TurnsTyped' /\ SteeredIsKnown'
  <2>1. CASE Stopping(1)
    BY <2>1, <1>1, <1>3, <1>4, ResumeForcesOnce
  <2>2. CASE ~Stopping(1)
    BY <2>2, <1>1, <1>3, <1>4 DEF TurnsTyped, TypeOK, SteeredIsKnown, Current
  <2> QED
    BY <2>1, <2>2
<1>6. \A u \in Turns : (Stopping(1) /\ u = chain[1].turn)
                       \/ (stop'[u] = stop[u] /\ answer'[u] = answer[u])
  <2>1. CASE Stopping(1)
    BY <2>1, <1>1, <1>3, <1>4, ResumeForcesOnce DEF OthersStay
  <2>2. CASE ~Stopping(1)
    BY <2>2, <1>4
  <2> QED
    BY <2>1, <2>2
<1>7. TypeOK'
  <2>1. /\ Len(batch') = 0 /\ batch' \in Seq(1 .. made')
        /\ Len(pending') \in Nat
    BY <1>3
  <2>2. Len(batch') <= Len(pending') /\ \A i \in 1 .. Len(batch') : batch'[i] = pending'[i]
    BY <2>1
  <2> QED
    BY <2>1, <2>2, <1>1, <1>2, <1>3, <1>5 DEF TypeOK, TurnsTyped
<1>8. FlushesAreOfStops'
  <2>1. \A i : Stopping(i)' => Stopping(i + 1) /\ chain'[i] = chain[i + 1] /\ i \in Nat /\ i > 0
    BY <1>2, <1>3 DEF Stopping
  <2>2. \A i \in DOMAIN chain' : Stopping(i)' =>
          chain'[i].turn \in Turns /\ stop'[chain'[i].turn] = "flushing"
    <3>1. SUFFICES ASSUME NEW i \in DOMAIN chain', Stopping(i)'
                   PROVE  chain'[i].turn \in Turns /\ stop'[chain'[i].turn] = "flushing"
      OBVIOUS
    <3>2. Stopping(i + 1) /\ chain'[i] = chain[i + 1] /\ i \in Nat /\ i > 0
          /\ i + 1 \in DOMAIN chain
      BY <3>1, <2>1 DEF Stopping
    <3>3. chain[i + 1].turn \in Turns /\ stop[chain[i + 1].turn] = "flushing"
      BY <3>2, <1>1 DEF FlushesAreOfStops
    <3>4. ~(Stopping(1) /\ chain[i + 1].turn = chain[1].turn)
      <4>1. i + 1 # 1
        BY <3>2
      <4> QED
        BY <4>1, <3>2, <1>1, <1>2 DEF FlushesAreOfStops
    <3> QED
      BY <3>2, <3>3, <3>4, <1>6
  <2>3. \A i, j \in DOMAIN chain' :
          Stopping(i)' /\ Stopping(j)' /\ chain'[i].turn = chain'[j].turn => i = j
    <3>1. SUFFICES ASSUME NEW i \in DOMAIN chain', NEW j \in DOMAIN chain',
                          Stopping(i)', Stopping(j)', chain'[i].turn = chain'[j].turn
                   PROVE  i = j
      OBVIOUS
    <3>2. /\ Stopping(i + 1) /\ chain'[i] = chain[i + 1] /\ i \in Nat
          /\ Stopping(j + 1) /\ chain'[j] = chain[j + 1] /\ j \in Nat
      BY <3>1, <2>1
    <3>3. i + 1 = j + 1
      BY <3>1, <3>2, <1>1 DEF FlushesAreOfStops, Stopping
    <3> QED
      BY <3>2, <3>3
  <2> QED
    BY <2>2, <2>3, <1>3 DEF FlushesAreOfStops
<1>9. GatedIsRecorded'
  <2>1. SUFFICES ASSUME NEW u \in Turns, stop'[u] = "gating" \/ answer'[u] = "allowed"
                 PROVE  marks[u] <= Len(ledger')
    BY <1>3 DEF GatedIsRecorded
  <2>2. /\ Len(ledger) \in Nat /\ Len(ledger') \in Nat /\ marks[u] \in Nat
    BY <1>1, ConstantsAreNumbers DEF TypeOK
  <2>3. CASE stop'[u] = stop[u] /\ answer'[u] = answer[u]
    BY <2>1, <2>2, <2>3, <1>1 DEF GatedIsRecorded
  <2>4. CASE Stopping(1) /\ u = chain[1].turn
    <3>1. ok
      BY <2>1, <2>4, <1>1, <1>3, <1>4, ResumeForcesOnce
    <3> QED
      BY <3>1, <2>4
  <2> QED
    BY <2>3, <2>4, <1>6
<1> QED
  BY <1>5, <1>7, <1>8, <1>9 DEF IInv

LEMMA FlushNothingKeepsIInv == ASSUME IInv, FlushNothing PROVE IInv'
<1>1. TypeOK /\ QueueFollows /\ FlushesAreOfStops
  BY DEF IInv
<1>2. /\ chain # <<>> /\ pending = <<>> /\ Settle(TRUE)
      /\ pending' = pending /\ ledger' = ledger /\ made' = made
  BY DEF FlushNothing, Settle
<1>3. pending' \in Seq(1 .. made) /\ ledger' \in Seq(1 .. made)
      /\ Len(ledger) \in Nat /\ Len(pending) = 0
  BY <1>1, <1>2 DEF TypeOK
<1>4. QueueFollows'
  BY <1>1, <1>2 DEF QueueFollows, Acknowledged, LedgerInOrder
<1>5. Stopping(1) => marks[chain[1].turn] <= Len(ledger')
  <2>1. SUFFICES ASSUME Stopping(1) PROVE marks[chain[1].turn] <= Len(ledger)
    BY <1>2
  <2>2. chain[1].turn \in Turns
    BY <2>1, <1>1 DEF FlushesAreOfStops, Stopping
  <2>3. marks[chain[1].turn] \in 0 .. made /\ made \in Nat
    BY <2>2, <1>1, ConstantsAreNumbers DEF TypeOK
  <2>4. made <= Len(ledger)
    BY <2>3, <1>1, <1>3 DEF QueueFollows, Acknowledged
  <2> QED
    BY <2>3, <2>4, <1>3
<1>6. PICK ok \in BOOLEAN : Settle(ok)
  BY <1>2
<1>7. Len(ledger) <= Len(ledger')
  BY <1>2, <1>3
<1> QED
  BY <1>2, <1>3, <1>4, <1>5, <1>6, <1>7, SettleKeepsIInv

LEMMA IngestKeepsIInv == ASSUME IInv, Ingest PROVE IInv'
<1>1. TypeOK /\ QueueFollows /\ FlushesAreOfStops /\ GatedIsRecorded /\ SteeredIsKnown
  BY DEF IInv
<1>2. /\ batch' = pending /\ chain # <<>> /\ pending' = pending
      /\ UNCHANGED <<session, made, chain, ledger, last, open, stop, aborted, steered,
                     stops, marks, forced, answer>>
  BY DEF Ingest, capture, turn
<1>3. made \in Nat /\ Len(pending) \in Nat
  BY <1>1, ConstantsAreNumbers DEF TypeOK
<1>4. TypeOK'
  BY <1>1, <1>2, <1>3 DEF TypeOK
<1>5. QueueFollows' /\ GatedIsRecorded' /\ SteeredIsKnown'
  BY <1>1, <1>2 DEF QueueFollows, Acknowledged, LedgerInOrder, GatedIsRecorded,
                    SteeredIsKnown, Current
<1>6. FlushesAreOfStops'
  <2>1. \A i : Stopping(i)' <=> Stopping(i)
    BY <1>2 DEF Stopping
  <2>2. Stopping(1) => marks[chain[1].turn] <= (Acknowledged + Len(batch))'
    <3>1. SUFFICES ASSUME Stopping(1) PROVE marks[chain[1].turn] <= made
      BY <1>2, <1>3 DEF Acknowledged
    <3>2. chain[1].turn \in Turns
      BY <3>1, <1>1 DEF FlushesAreOfStops, Stopping
    <3> QED
      BY <3>2, <1>1, <1>3 DEF TypeOK
  <2> QED
    BY <2>1, <2>2, <1>1, <1>2 DEF FlushesAreOfStops
<1> QED
  BY <1>4, <1>5, <1>6 DEF IInv

LEMMA EndIngestKeepsIInv == ASSUME IInv, NEW o \in Outcomes, EndIngest(o) PROVE IInv'
<1> DEFINE stored == o # "failed" /\ ~InLedger(batch)
           interrupted == Head(chain).by = "stop" /\ Head(chain).turn \in aborted
           ok == stored /\ o = "stored" /\ ~interrupted
<1>1. TypeOK /\ QueueFollows /\ FlushesAreOfStops
  BY DEF IInv
<1>2. /\ batch # <<>> /\ Settle(ok) /\ DropBatch(ok)
      /\ ledger' = IF stored THEN ledger \o batch ELSE ledger
  BY DEF EndIngest
<1>3. /\ chain # <<>> /\ made' = made /\ batch' = <<>>
      /\ stored \in BOOLEAN /\ ok \in BOOLEAN
      /\ stored => ~InLedger(batch)
      /\ ok => stored
  BY <1>1, <1>2 DEF TypeOK, Settle
<1> HIDE DEF stored, ok
<1>4. /\ QueueFollows' /\ pending' \in Seq(1 .. made) /\ ledger' \in Seq(1 .. made)
      /\ Len(ledger) <= Len(ledger')
      /\ ok => Len(ledger') = Acknowledged + Len(batch)
  BY <1>1, <1>2, <1>3, QueueShrinks
<1>5. ok /\ Stopping(1) => marks[chain[1].turn] <= Len(ledger')
  BY <1>1, <1>2, <1>4 DEF FlushesAreOfStops
<1> QED
  BY <1>2, <1>3, <1>4, <1>5, SettleKeepsIInv

-----------------------------------------------------------------------------
(* The handlers of the harness's events, and the end of the gate.          *)

LEMMA CaptureKeepsIInv == ASSUME IInv, Capture PROVE IInv'
<1>1. TypeOK /\ QueueFollows /\ FlushesAreOfStops /\ GatedIsRecorded /\ SteeredIsKnown
  BY DEF IInv
<1>2. Enqueue
      /\ UNCHANGED <<session, chain, batch, ledger, last, open, stop, aborted, steered,
                     stops, marks, forced, answer>>
  BY DEF Capture, flush, turn
<1>3. /\ QueueFollows' /\ Acknowledged' = Acknowledged
      /\ made' \in 0 .. MaxEvents /\ made' = made + 1
      /\ pending' \in Seq(1 .. made') /\ Len(batch') <= Len(pending')
      /\ batch' \in Seq(1 .. made')
      /\ \A i \in 1 .. Len(batch') : batch'[i] = pending'[i]
      /\ ledger' \in Seq(1 .. made')
  BY <1>1, <1>2, QueueGrows
<1>4. marks' \in [Turns -> 0 .. made']
  BY <1>1, <1>2, <1>3, ConstantsAreNumbers DEF TypeOK
<1>5. TypeOK'
  BY <1>1, <1>2, <1>3, <1>4 DEF TypeOK
<1>6. FlushesAreOfStops' /\ GatedIsRecorded' /\ SteeredIsKnown'
  BY <1>1, <1>2, <1>3 DEF FlushesAreOfStops, Stopping, GatedIsRecorded, SteeredIsKnown,
                          Current
<1> QED
  BY <1>3, <1>5, <1>6 DEF IInv

LEMMA TurnStartKeepsIInv == ASSUME IInv, TurnStart PROVE IInv'
<1>1. TypeOK /\ QueueFollows /\ FlushesAreOfStops /\ GatedIsRecorded /\ SteeredIsKnown
  BY DEF IInv
<1>2. /\ ~open /\ last < MaxTurns /\ last' = last + 1 /\ open' = TRUE
      /\ UNCHANGED <<session, made, pending, chain, batch, ledger, stop, aborted,
                     steered, stops, marks, forced, answer>>
  BY DEF TurnStart, capture, flush
<1>3. last \in Nat /\ last' \in 0 .. MaxTurns /\ last' > 0
  BY <1>1, <1>2, ConstantsAreNumbers DEF TypeOK
<1>4. TypeOK'
  BY <1>1, <1>2, <1>3 DEF TypeOK
<1>5. QueueFollows' /\ FlushesAreOfStops' /\ GatedIsRecorded'
  BY <1>1, <1>2 DEF QueueFollows, Acknowledged, LedgerInOrder, FlushesAreOfStops, Stopping,
                    GatedIsRecorded
<1>6. SteeredIsKnown'
  <2>1. SUFFICES ASSUME NEW t \in Turns
        PROVE /\ forced[t] <= 1
              /\ t \in steered => forced[t] = 1
              /\ forced[t] = 1 /\ Current(t)' => t \in steered
              /\ t > last + 1 => forced[t] = 0 /\ stop[t] = "idle"
              /\ stop[t] # "idle" => Current(t)' \/ t \in aborted
              /\ answer[t] = "unresolved" => forced[t] = 1
    BY <1>2 DEF SteeredIsKnown
  <2>2. t \in Nat
    BY TurnIsNumber
  <2>3. forced[t] = 1 => t <= last
    BY <2>2, <1>1, <1>3 DEF SteeredIsKnown
  <2>4. ~Current(t)
    BY <1>2 DEF Current
  <2>5. Current(t)' => t = last + 1
    BY <1>2 DEF Current
  <2> QED
    BY <2>2, <2>3, <2>4, <2>5, <1>1, <1>3 DEF SteeredIsKnown
<1> QED
  BY <1>4, <1>5, <1>6 DEF IInv

LEMMA TurnEndKeepsIInv == ASSUME IInv, TurnEnd PROVE IInv'
<1>1. TypeOK /\ QueueFollows /\ FlushesAreOfStops /\ GatedIsRecorded /\ SteeredIsKnown
  BY DEF IInv
<1>2. /\ stop[last] = "idle" \/ last \in aborted
      /\ open' = FALSE /\ steered' = steered \ {last}
      /\ UNCHANGED <<session, made, pending, chain, batch, ledger, last, stop, aborted,
                     stops, marks, forced, answer>>
  BY DEF TurnEnd, capture, flush
<1>3. TypeOK'
  BY <1>1, <1>2 DEF TypeOK
<1>4. QueueFollows' /\ FlushesAreOfStops' /\ GatedIsRecorded'
  BY <1>1, <1>2 DEF QueueFollows, Acknowledged, LedgerInOrder, FlushesAreOfStops, Stopping,
                    GatedIsRecorded
<1>5. SteeredIsKnown'
  BY <1>1, <1>2 DEF SteeredIsKnown, Current
<1> QED
  BY <1>3, <1>4, <1>5 DEF IInv

LEMMA SessionFlushKeepsIInv == ASSUME IInv, SessionFlush PROVE IInv'
<1>1. TypeOK /\ QueueFollows /\ FlushesAreOfStops /\ GatedIsRecorded /\ SteeredIsKnown
  BY DEF IInv
<1>2. /\ Ask("flush", 0)
      /\ UNCHANGED <<session, made, pending, batch, ledger, last, open, stop, aborted,
                     steered, stops, marks, forced, answer>>
  BY DEF SessionFlush, capture, turn
<1>3. Acknowledged' = Acknowledged
  BY <1>2 DEF Acknowledged
<1>4. chain' \in Seq(Request) /\ chain' # <<>>
  BY <1>1, <1>2, ChainGrows, ConstantsAreNumbers
<1>5. TypeOK'
  BY <1>1, <1>2, <1>4 DEF TypeOK
<1>6. FlushesAreOfStops'
  BY <1>1, <1>2, <1>3, OtherRequest
<1>7. QueueFollows' /\ GatedIsRecorded' /\ SteeredIsKnown'
  BY <1>1, <1>2, <1>3 DEF QueueFollows, LedgerInOrder, GatedIsRecorded, SteeredIsKnown,
                          Current
<1> QED
  BY <1>5, <1>6, <1>7 DEF IInv

LEMMA UnloadKeepsIInv == ASSUME IInv, Unload PROVE IInv'
<1>1. TypeOK /\ QueueFollows /\ FlushesAreOfStops /\ GatedIsRecorded /\ SteeredIsKnown
  BY DEF IInv
<1>2. /\ Ask("unload", 0) /\ session' = "unloading"
      /\ UNCHANGED <<made, pending, batch, ledger, last, open, stop, aborted, steered,
                     stops, marks, forced, answer>>
  BY DEF Unload, capture, turn
<1>3. Acknowledged' = Acknowledged
  BY <1>2 DEF Acknowledged
<1>4. chain' \in Seq(Request) /\ chain' # <<>>
  BY <1>1, <1>2, ChainGrows, ConstantsAreNumbers
<1>5. TypeOK'
  BY <1>1, <1>2, <1>4 DEF TypeOK
<1>6. FlushesAreOfStops'
  BY <1>1, <1>2, <1>3, OtherRequest
<1>7. QueueFollows' /\ GatedIsRecorded' /\ SteeredIsKnown'
  BY <1>1, <1>2, <1>3 DEF QueueFollows, LedgerInOrder, GatedIsRecorded, SteeredIsKnown,
                          Current
<1> QED
  BY <1>5, <1>6, <1>7 DEF IInv

LEMMA DisposeKeepsIInv == ASSUME IInv, Dispose PROVE IInv'
<1>1. TypeOK /\ QueueFollows /\ FlushesAreOfStops /\ GatedIsRecorded /\ SteeredIsKnown
  BY DEF IInv
<1>2. /\ Enqueue /\ Ask("final", 0) /\ session' = "disposed"
      /\ UNCHANGED <<batch, ledger, last, open, stop, aborted, steered, stops, marks,
                     forced, answer>>
  BY DEF Dispose, turn
<1>3. /\ QueueFollows' /\ Acknowledged' = Acknowledged
      /\ made' \in 0 .. MaxEvents /\ made' = made + 1
      /\ pending' \in Seq(1 .. made') /\ Len(batch') <= Len(pending')
      /\ batch' \in Seq(1 .. made')
      /\ \A i \in 1 .. Len(batch') : batch'[i] = pending'[i]
      /\ ledger' \in Seq(1 .. made')
  BY <1>1, <1>2, QueueGrows
<1>4. chain' \in Seq(Request) /\ chain' # <<>>
  BY <1>1, <1>2, ChainGrows, ConstantsAreNumbers
<1>5. marks' \in [Turns -> 0 .. made']
  BY <1>1, <1>2, <1>3, ConstantsAreNumbers DEF TypeOK
<1>6. TypeOK'
  BY <1>1, <1>2, <1>3, <1>4, <1>5 DEF TypeOK
<1>7. FlushesAreOfStops'
  BY <1>1, <1>2, <1>3, OtherRequest
<1>8. GatedIsRecorded' /\ SteeredIsKnown'
  BY <1>1, <1>2 DEF GatedIsRecorded, SteeredIsKnown, Current
<1> QED
  BY <1>3, <1>6, <1>7, <1>8 DEF IInv

LEMMA AbortKeepsIInv == ASSUME IInv, Abort PROVE IInv'
<1>1. TypeOK /\ QueueFollows /\ FlushesAreOfStops /\ GatedIsRecorded /\ SteeredIsKnown
  BY DEF IInv
<1>2. /\ open /\ aborted' = aborted \cup {last}
      /\ UNCHANGED <<session, made, pending, chain, batch, ledger, last, open, stop,
                     steered, stops, marks, forced, answer>>
  BY DEF Abort, capture, flush
<1>3. last \in Turns
  BY <1>1, <1>2, ConstantsAreNumbers DEF TypeOK, Turns
<1>4. TypeOK'
  BY <1>1, <1>2, <1>3 DEF TypeOK
<1>5. QueueFollows' /\ FlushesAreOfStops' /\ GatedIsRecorded' /\ SteeredIsKnown'
  BY <1>1, <1>2 DEF QueueFollows, Acknowledged, LedgerInOrder, FlushesAreOfStops, Stopping,
                    GatedIsRecorded, SteeredIsKnown, Current
<1> QED
  BY <1>4, <1>5 DEF IInv

(* A turn that stops has no other flush in the chain, so that its own is   *)
(* the only one whose end lets the gate be asked.                          *)
LEMMA TurnStoppingKeepsIInv == ASSUME IInv, TurnStopping PROVE IInv'
<1>1. TypeOK /\ QueueFollows /\ FlushesAreOfStops /\ GatedIsRecorded /\ SteeredIsKnown
  BY DEF IInv
<1>2. /\ open /\ stop[last] = "idle" /\ stops < MaxStops
      /\ Enqueue /\ Ask("stop", last)
      /\ stop' = [stop EXCEPT ![last] = "flushing"]
      /\ stops' = stops + 1
      /\ marks' = [marks EXCEPT ![last] = made + 1]
      /\ answer' = [answer EXCEPT ![last] = "none"]
      /\ UNCHANGED <<session, batch, ledger, last, open, aborted, steered, forced>>
  BY DEF TurnStopping
<1>3. last \in Turns /\ last \in 0 .. MaxTurns
  BY <1>1, <1>2, ConstantsAreNumbers DEF TypeOK, Turns
<1>4. /\ QueueFollows' /\ Acknowledged' = Acknowledged
      /\ made' \in 0 .. MaxEvents /\ made' = made + 1
      /\ pending' \in Seq(1 .. made') /\ Len(batch') <= Len(pending')
      /\ batch' \in Seq(1 .. made')
      /\ \A i \in 1 .. Len(batch') : batch'[i] = pending'[i]
      /\ ledger' \in Seq(1 .. made')
  BY <1>1, <1>2, QueueGrows
<1>5. /\ chain' \in Seq(Request) /\ chain' # <<>>
      /\ DOMAIN chain' = 1 .. Len(chain) + 1
      /\ \A i \in DOMAIN chain : i \in DOMAIN chain' /\ chain'[i] = chain[i]
      /\ chain'[Len(chain) + 1].by = "stop"
      /\ chain'[Len(chain) + 1].turn = last
  BY <1>1, <1>2, <1>3, ChainGrows
<1>6. /\ stop'[last] = "flushing" /\ answer'[last] = "none"
      /\ \A u \in Turns : u # last =>
           stop'[u] = stop[u] /\ answer'[u] = answer[u] /\ marks'[u] = marks[u]
  BY <1>1, <1>2, <1>3 DEF TypeOK
<1>7. TypeOK'
  <2>1. marks' \in [Turns -> 0 .. made']
    BY <1>1, <1>2, <1>3, <1>4, ConstantsAreNumbers DEF TypeOK
  <2>2. stop' \in [Turns -> StopPhases] /\ answer' \in [Turns -> Answers]
    BY <1>1, <1>2, <1>3 DEF TypeOK, StopPhases, Answers
  <2>3. stops' \in 0 .. MaxStops
    BY <1>1, <1>2, ConstantsAreNumbers DEF TypeOK
  <2> QED
    BY <2>1, <2>2, <2>3, <1>1, <1>2, <1>4, <1>5 DEF TypeOK
<1>8. FlushesAreOfStops'
  <2>1. DOMAIN chain = 1 .. Len(chain) /\ Len(chain) \in Nat
    BY <1>1 DEF TypeOK
  <2>2. \A i : Stopping(i)' <=> Stopping(i) \/ i = Len(chain) + 1
    BY <2>1, <1>5 DEF Stopping
  <2>3. \A i : Stopping(i) => /\ chain'[i] = chain[i] /\ i # Len(chain) + 1
                              /\ chain[i].turn \in Turns /\ chain[i].turn # last
                              /\ stop[chain[i].turn] = "flushing"
    BY <2>1, <1>1, <1>2, <1>5 DEF FlushesAreOfStops, Stopping
  <2>4. \A i \in DOMAIN chain' : Stopping(i)' =>
          chain'[i].turn \in Turns /\ stop'[chain'[i].turn] = "flushing"
    <3>1. SUFFICES ASSUME NEW i \in DOMAIN chain', Stopping(i)'
                   PROVE  chain'[i].turn \in Turns /\ stop'[chain'[i].turn] = "flushing"
      OBVIOUS
    <3>2. CASE i = Len(chain) + 1
      BY <3>2, <1>3, <1>5, <1>6
    <3>3. CASE Stopping(i)
      BY <3>3, <2>3, <1>6
    <3> QED
      BY <3>1, <3>2, <3>3, <2>2
  <2>5. \A i, j \in DOMAIN chain' :
          Stopping(i)' /\ Stopping(j)' /\ chain'[i].turn = chain'[j].turn => i = j
    BY <2>2, <2>3, <1>1, <1>5 DEF FlushesAreOfStops, Stopping
  <2>6. batch' # <<>> /\ Stopping(1)' =>
          marks'[chain'[1].turn] <= (Acknowledged + Len(batch))'
    <3>1. SUFFICES ASSUME batch # <<>>, Stopping(1)'
                   PROVE  marks'[chain'[1].turn] <= Acknowledged + Len(batch)
      BY <1>2, <1>4
    <3>2. 1 \in DOMAIN chain
      BY <3>1, <2>1, <1>1 DEF TypeOK
    <3>3. Stopping(1)
      BY <3>1, <3>2, <2>1, <2>2
    <3> QED
      BY <3>1, <3>3, <2>3, <1>1, <1>6 DEF FlushesAreOfStops
  <2> QED
    BY <2>4, <2>5, <2>6 DEF FlushesAreOfStops
<1>9. GatedIsRecorded'
  BY <1>1, <1>2, <1>6 DEF GatedIsRecorded
<1>10. SteeredIsKnown'
  <2>1. SUFFICES ASSUME NEW u \in Turns
        PROVE /\ forced[u] <= 1
              /\ u \in steered => forced[u] = 1
              /\ forced[u] = 1 /\ Current(u) => u \in steered
              /\ u > last => forced[u] = 0 /\ stop'[u] = "idle"
              /\ stop'[u] # "idle" => Current(u) \/ u \in aborted
              /\ answer'[u] = "unresolved" => forced[u] = 1
    BY <1>2 DEF SteeredIsKnown, Current
  <2>2. CASE u # last
    BY <2>2, <1>1, <1>6 DEF SteeredIsKnown
  <2>3. CASE u = last
    <3>1. ~(u > last)
      BY <2>3, <1>3, ConstantsAreNumbers
    <3>2. Current(u)
      BY <2>3, <1>2 DEF Current
    <3> QED
      BY <2>3, <3>1, <3>2, <1>1, <1>6 DEF SteeredIsKnown
  <2> QED
    BY <2>2, <2>3
<1> QED
  BY <1>4, <1>7, <1>8, <1>9, <1>10 DEF IInv

LEMMA EndGateKeepsIInv ==
  ASSUME IInv, NEW t \in Turns, NEW v \in Verdicts, EndGate(t, v)
  PROVE  IInv'
<1>1. TypeOK /\ QueueFollows /\ FlushesAreOfStops /\ GatedIsRecorded /\ SteeredIsKnown
  BY DEF IInv
<1>2. /\ stop[t] = "gating"
      /\ UNCHANGED <<session, made, pending, chain, batch, ledger, last, open, aborted,
                     stops, marks>>
  BY DEF EndGate, capture, flush
<1>3. /\ TurnsTyped' /\ SteeredIsKnown' /\ OthersStay(t) /\ stop'[t] = "idle"
  <2>1. CASE t \in aborted \/ v = "error"
    <3>1. Failed(t)
      BY <2>1 DEF EndGate
    <3> QED
      BY <3>1, <1>1, <1>2, FailedForcesOnce
  <2>2. CASE ~(t \in aborted \/ v = "error") /\ v = "allow"
    <3>1. /\ stop' = [stop EXCEPT ![t] = "idle"]
          /\ answer' = [answer EXCEPT ![t] = "allowed"]
          /\ steered' = steered /\ forced' = forced
      BY <2>2 DEF EndGate, End
    <3>2. "allowed" \in Answers \ {"unresolved"}
      BY DEF Answers
    <3> QED
      BY <3>1, <3>2, <1>1, <1>2, HandlerMoves
  <2>3. CASE ~(t \in aborted \/ v = "error") /\ v # "allow"
    <3>1. NotAccepted(t)
      BY <2>3 DEF EndGate
    <3> QED
      BY <2>3, <3>1, <1>1, <1>2, NotAcceptedForcesOnce
  <2> QED
    BY <2>1, <2>2, <2>3
<1>4. TypeOK'
  BY <1>1, <1>2, <1>3 DEF TypeOK, TurnsTyped
<1>5. QueueFollows'
  BY <1>1, <1>2 DEF QueueFollows, Acknowledged, LedgerInOrder
<1>6. FlushesAreOfStops'
  <2>1. \A i : Stopping(i)' <=> Stopping(i)
    BY <1>2 DEF Stopping
  <2>2. \A u \in Turns : stop[u] = "flushing" => stop'[u] = "flushing"
    BY <1>2, <1>3 DEF OthersStay
  <2>3. Acknowledged' = Acknowledged
    BY <1>2 DEF Acknowledged
  <2> QED
    BY <2>1, <2>2, <2>3, <1>1, <1>2 DEF FlushesAreOfStops
<1>7. GatedIsRecorded'
  <2>1. SUFFICES ASSUME NEW u \in Turns, stop'[u] = "gating" \/ answer'[u] = "allowed"
                 PROVE  marks[u] <= Len(ledger)
    BY <1>2 DEF GatedIsRecorded
  <2>2. CASE u = t
    BY <2>2, <1>1, <1>2 DEF GatedIsRecorded
  <2>3. CASE u # t
    BY <2>1, <2>3, <1>1, <1>3 DEF GatedIsRecorded, OthersStay
  <2> QED
    BY <2>2, <2>3
<1> QED
  BY <1>3, <1>4, <1>5, <1>6, <1>7 DEF IInv

-----------------------------------------------------------------------------
LEMMA IInvInit == ASSUME Init PROVE IInv
<1>1. TypeOK
  <2>1. /\ made = 0 /\ pending \in Seq(1 .. made) /\ batch \in Seq(1 .. made)
        /\ ledger \in Seq(1 .. made) /\ chain \in Seq(Request)
        /\ Len(batch) = 0 /\ Len(pending) = 0
    BY DEF Init
  <2>2. /\ stop \in [Turns -> StopPhases] /\ answer \in [Turns -> Answers]
        /\ marks \in [Turns -> 0 .. made] /\ forced \in [Turns -> Nat]
    BY <2>1 DEF Init, StopPhases, Answers
  <2>3. /\ Len(batch) <= Len(pending)
        /\ \A i \in 1 .. Len(batch) : batch[i] = pending[i]
    BY <2>1
  <2>4. made \in 0 .. MaxEvents /\ last \in 0 .. MaxTurns /\ stops \in 0 .. MaxStops
    BY ConstantsAreNumbers DEF Init
  <2> QED
    BY <2>1, <2>2, <2>3, <2>4 DEF Init, TypeOK
<1>2. QueueFollows
  <2>1. /\ made = 0 /\ pending = <<>> /\ ledger = <<>>
        /\ Len(pending) = 0 /\ Len(ledger) = 0
    BY DEF Init
  <2>2. /\ pending = [i \in 1 .. Len(pending) |-> Acknowledged + i]
        /\ ledger = [i \in 1 .. Len(ledger) |-> i]
    BY <2>1
  <2>3. Len(pending) <= made /\ Acknowledged <= Len(ledger) /\ Len(ledger) <= made
    BY <2>1 DEF Acknowledged
  <2> QED
    BY <2>2, <2>3 DEF QueueFollows, LedgerInOrder
<1>3. FlushesAreOfStops
  BY DEF Init, FlushesAreOfStops, Stopping
<1>4. GatedIsRecorded /\ SteeredIsKnown
  BY DEF Init, GatedIsRecorded, SteeredIsKnown, Current
<1> QED
  BY <1>1, <1>2, <1>3, <1>4 DEF IInv

LEMMA IInvStep == ASSUME IInv, [Next]_vars PROVE IInv'
<1>1. CASE Harness
  BY <1>1, CaptureKeepsIInv, TurnStartKeepsIInv, TurnEndKeepsIInv, SessionFlushKeepsIInv,
     TurnStoppingKeepsIInv, AbortKeepsIInv, DisposeKeepsIInv, UnloadKeepsIInv DEF Harness
<1>2. CASE Flushing
  BY <1>2, FlushNothingKeepsIInv, IngestKeepsIInv, EndIngestKeepsIInv DEF Flushing
<1>3. ASSUME NEW t \in Turns, Gating(t) PROVE IInv'
  BY <1>3, EndGateKeepsIInv DEF Gating
<1>4. CASE UNCHANGED vars
  BY <1>4 DEF vars, capture, flush, turn, IInv, TypeOK, QueueFollows, Acknowledged,
              LedgerInOrder, FlushesAreOfStops, Stopping, GatedIsRecorded,
              SteeredIsKnown, Current
<1> QED
  BY <1>1, <1>2, <1>3, <1>4 DEF Next

-----------------------------------------------------------------------------
(* Whatever the harness, the CLI and the user do, the queue, the ledger    *)
(* and the turns keep the relation of the inductive invariant.             *)
THEOREM Inductive == Spec => []IInv
BY IInvInit, IInvStep, PTL DEF Spec

(* flushState: the ledger has the first of the session's events, in the    *)
(* order in which they were enqueued, each of them once.                   *)
THEOREM LedgerInOrderHolds == Spec => []LedgerInOrder
<1>1. IInv => LedgerInOrder
  BY DEF IInv, QueueFollows
<1> QED
  BY <1>1, Inductive, PTL

(* onTurnStopping: a stop that was allowed is in the ledger, with all that *)
(* was captured before it.                                                 *)
THEOREM AllowedIsRecordedHolds == Spec => []AllowedIsRecorded
<1>1. IInv => AllowedIsRecorded
  BY DEF IInv, GatedIsRecorded, AllowedIsRecorded
<1> QED
  BY <1>1, Inductive, PTL

(* steeredTurns: a turn is sent back at most once, even if its handler     *)
(* outlives it.                                                            *)
THEOREM ForcedOnceHolds == Spec => []ForcedOnce
<1>1. IInv => ForcedOnce
  BY DEF IInv, SteeredIsKnown, ForcedOnce
<1> QED
  BY <1>1, Inductive, PTL

(* A stop is left unresolved only in a turn that was sent back before.     *)
THEOREM UnresolvedWasForcedHolds == Spec => []UnresolvedWasForced
<1>1. IInv => UnresolvedWasForced
  BY DEF IInv, SteeredIsKnown, UnresolvedWasForced
<1> QED
  BY <1>1, Inductive, PTL

=============================================================================
