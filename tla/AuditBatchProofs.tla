-------------------------- MODULE AuditBatchProofs --------------------------
(***************************************************************************)
(* The safety properties of AuditBatch for every set of entries and every  *)
(* size of a batch. The properties speak of what is written and reported;  *)
(* the invariant adds where each entry is until then, and that it is in    *)
(* one place only.                                                         *)
(* And those of ServiceHealth, which holds what it counts in memory and    *)
(* writes it in batches too, for every set of windows, pages and views:    *)
(* only the flush whose turn it is has a copy of the minutes, and of a     *)
(* closed minute the copy is what was counted.                             *)
(***************************************************************************)
EXTENDS AuditBatch, ServiceHealth, SequenceTheorems, TLAPS

NoRepeat(s) == \A i, j \in DOMAIN s : s[i] = s[j] => i = j

Doubt(e) == IF e \in unsure THEN 1 ELSE 0

\* An entry is pending or waits in one flush, not both, and was recorded.
InOnePlace ==
  /\ NoRepeat(pendingAudit) /\ Elems(pendingAudit) \subseteq recorded
  /\ \A f \in flushes : /\ f.rows # <<>> /\ NoRepeat(f.rows)
                        /\ Elems(f.rows) \subseteq recorded
                        /\ Elems(f.rows) \cap Elems(pendingAudit) = {}
  /\ \A f, g \in flushes : f # g => Elems(f.rows) \cap Elems(g.rows) = {}

\* How often an entry can have been written, by where it is.
Counted ==
  /\ \A e \in Entries : written[e] <= 1 + Doubt(e)
  /\ \A e \in Entries : e \notin recorded \/ e \in Elems(pendingAudit) => written[e] = 0
  /\ Elems(pendingAudit) \cap unsure = {}
  /\ \A f \in flushes :
       /\ ~f.one => Elems(f.rows) \cap unsure = {}
       /\ ~f.one /\ f.stage = "sent" => \A e \in Elems(f.rows) : written[e] = 0
       /\ f.one => \A e \in Elems(f.rows) : (f.stage = "sent" \/ e # Head(f.rows)) => written[e] <= Doubt(e)
       /\ f.stage = "ran" => \A e \in Sent(f) : written[e] > 0

\* The exit waits for one flush, and for every entry that was pending then.
LastWaits ==
  /\ status = "serving" => \A f \in flushes : ~f.last
  /\ \A f, g \in flushes : f.last /\ g.last => f = g
  /\ status = "closing" =>
       \A e \in lastBatch : \/ written[e] > 0
                            \/ e \in reported
                            \/ \E f \in flushes : f.last /\ e \in Elems(f.rows)

IInv == /\ TypeOK /\ InOnePlace /\ Counted /\ LastWaits
        /\ NothingDropped /\ PendingWrittenAtStop
-----------------------------------------------------------------------------
(* What the operators on sequences do to the entries held *)

\* The empty sequence holds nothing.
LEMMA EmptyHolds == Elems(<<>>) = {} /\ NoRepeat(<<>>)
BY DEF Elems, NoRepeat

\* A sequence with an entry added holds that entry too.
LEMMA AppendHolds ==
  ASSUME NEW S, NEW s \in Seq(S), NEW e \in S
  PROVE  /\ Append(s, e) \in Seq(S) /\ Append(s, e) # <<>>
         /\ Len(Append(s, e)) = Len(s) + 1
         /\ Elems(Append(s, e)) = Elems(s) \cup {e}
         /\ NoRepeat(s) /\ e \notin Elems(s) => NoRepeat(Append(s, e))
<1>1. /\ Append(s, e) \in Seq(S) /\ Len(Append(s, e)) = Len(s) + 1
      /\ DOMAIN Append(s, e) = 1 .. Len(s) + 1 /\ DOMAIN s = 1 .. Len(s) /\ Len(s) \in Nat
      /\ Append(s, e)[Len(s) + 1] = e
      /\ \A i \in DOMAIN s : Append(s, e)[i] = s[i]
  OBVIOUS
<1>2. Append(s, e) # <<>>
  BY <1>1, EmptySeq
<1>3. Elems(Append(s, e)) = Elems(s) \cup {e}
  BY <1>1 DEF Elems
<1>4. NoRepeat(s) /\ e \notin Elems(s) => NoRepeat(Append(s, e))
  BY <1>1 DEF Elems, NoRepeat
<1> QED
  BY <1>1, <1>2, <1>3, <1>4

\* The first entry is held, and is all there is of a sequence of one.
LEMMA HeadHolds ==
  ASSUME NEW S, NEW s \in Seq(S), s # <<>>
  PROVE  /\ Head(s) \in Elems(s) /\ Elems(s) \subseteq S
         /\ Len(s) = 1 => Elems(s) = {Head(s)}
BY DEF Elems

\* The other entries are those of the tail.
LEMMA TailHolds ==
  ASSUME NEW S, NEW s \in Seq(S), s # <<>>, Len(s) # 1
  PROVE  /\ Tail(s) \in Seq(S) /\ Tail(s) # <<>>
         /\ Elems(s) = {Head(s)} \cup Elems(Tail(s))
         /\ NoRepeat(s) => NoRepeat(Tail(s)) /\ Head(s) \notin Elems(Tail(s))
<1>0. Len(s) \in Nat \ {0} /\ DOMAIN s = 1 .. Len(s) /\ Head(s) = s[1]
  BY EmptySeq, LenProperties
<1>1. /\ Len(s) \in Nat /\ Len(s) > 1 /\ DOMAIN s = 1 .. Len(s) /\ Head(s) = s[1]
      /\ Tail(s) \in Seq(S) /\ Len(Tail(s)) = Len(s) - 1
      /\ DOMAIN Tail(s) = 1 .. Len(s) - 1
      /\ \A i \in 1 .. Len(s) - 1 : Tail(s)[i] = s[i + 1]
  BY <1>0, HeadTailProperties, LenProperties
<1>2. Tail(s) # <<>>
  <2>1. Len(Tail(s)) # 0
    BY <1>1
  <2>2. Len(<<>>) = 0
    BY EmptySeq
  <2> QED
    BY <2>1, <2>2, Zenon
<1>3. \A i \in DOMAIN s : i = 1 \/ (i - 1 \in DOMAIN Tail(s) /\ s[i] = Tail(s)[i - 1])
  BY <1>1
<1>4. Elems(s) = {Head(s)} \cup Elems(Tail(s))
  BY <1>1, <1>3 DEF Elems
<1>5. NoRepeat(s) => NoRepeat(Tail(s)) /\ Head(s) \notin Elems(Tail(s))
  BY <1>1 DEF Elems, NoRepeat
<1> QED
  BY <1>1, <1>2, <1>4, <1>5

-----------------------------------------------------------------------------
(* The invariant *)

\* It holds when the process starts.
LEMMA IInvInit == Init => IInv
<1> SUFFICES ASSUME Init PROVE IInv
  OBVIOUS
<1>1. pendingAudit \in Seq(Entries) /\ Len(pendingAudit) = 0
  BY EmptySeq DEF Init
<1>2. TypeOK
  <2>1. Len(pendingAudit) < AUDIT_BATCH_MAX
    BY <1>1, MaxAssumption
  <2>2. written \in [Entries -> 0 .. 2]
    BY DEF Init
  <2> QED
    BY <1>1, <2>1, <2>2 DEF Init, TypeOK
<1>3. InOnePlace
  BY EmptyHolds DEF Init, InOnePlace
<1>4. Counted /\ LastWaits /\ NothingDropped /\ PendingWrittenAtStop
  BY EmptyHolds DEF Init, Counted, LastWaits, NothingDropped, PendingWrittenAtStop, Doubt
<1> QED
  BY <1>2, <1>3, <1>4 DEF IInv

\* A flush takes rows that wait nowhere else and have not been written.
LEMMA FlushKeeps ==
  ASSUME IInv, NEW batch, NEW last \in BOOLEAN, FlushEntries(batch, last),
         batch \in Seq(Entries), NoRepeat(batch), Elems(batch) \subseteq recorded',
         Elems(batch) \cap Waiting = {},
         \A e \in Elems(batch) : written[e] = 0 /\ e \notin unsure,
         Elems(pendingAudit) \subseteq Elems(batch),
         recorded \subseteq recorded', recorded' \subseteq recorded \cup Elems(batch), recorded' \subseteq Entries,
         UNCHANGED <<written, reported, unsure>>
  PROVE  /\ pendingAudit' \in Seq(Entries) /\ Len(pendingAudit') < AUDIT_BATCH_MAX
         /\ auditTimer' \in BOOLEAN /\ flushes' \subseteq Flush
         /\ Elems(batch) \subseteq Waiting' /\ Waiting \subseteq Waiting'
         /\ flushes \subseteq flushes'
         /\ \A f \in flushes' \ flushes : f.rows = batch /\ f.last = last /\ batch # <<>> /\ flushes' = flushes \cup {f}
         /\ batch # <<>> => \E f \in flushes' : f.rows = batch /\ f.last = last
         /\ InOnePlace' /\ Counted'
<1> DEFINE g == [rows |-> batch, one |-> FALSE, stage |-> "sent", last |-> last]
<1>1. /\ pendingAudit' = <<>> /\ auditTimer' = FALSE
      /\ flushes' = IF batch = <<>> THEN flushes ELSE flushes \cup {g}
  BY DEF FlushEntries
<1>2. /\ g \in Flush /\ g.rows = batch /\ g.one = FALSE /\ g.stage = "sent" /\ g.last = last
  BY DEF Flush
<1> HIDE DEF g
<1>3. Elems(pendingAudit') = {} /\ NoRepeat(pendingAudit')
  BY <1>1, EmptyHolds
<1>4. pendingAudit' \in Seq(Entries) /\ Len(pendingAudit') < AUDIT_BATCH_MAX
  BY <1>1, EmptySeq, MaxAssumption
<1>5. batch = <<>> => Elems(batch) = {}
  BY EmptyHolds
<1>6. flushes' \subseteq Flush /\ Elems(batch) \subseteq Waiting' /\ Waiting \subseteq Waiting'
  BY <1>1, <1>2, <1>5 DEF IInv, TypeOK, Waiting
<1>7. \A f \in flushes : Elems(f.rows) \cap Elems(batch) = {}
  BY DEF Waiting
<1>8. InOnePlace'
  BY <1>1, <1>2, <1>3, <1>7 DEF IInv, InOnePlace
<1>9. Counted'
  <2>1. \A e \in Entries : written'[e] <= 1 + Doubt(e)'
    BY DEF IInv, Counted, Doubt
  <2>2. \A e \in Entries : e \notin recorded' \/ e \in Elems(pendingAudit') => written'[e] = 0
    BY <1>3 DEF IInv, Counted
  <2>3. \A f \in flushes' : f = g \/ f \in flushes
    BY <1>1
  <2>4. ASSUME NEW f \in flushes'
        PROVE  /\ ~f.one => Elems(f.rows) \cap unsure' = {}
               /\ ~f.one /\ f.stage = "sent" => \A e \in Elems(f.rows) : written'[e] = 0
               /\ f.one => \A e \in Elems(f.rows) : (f.stage = "sent" \/ e # Head(f.rows)) => written'[e] <= Doubt(e)'
               /\ f.stage = "ran" => \A e \in Sent(f) : written'[e] > 0
    <3>1. CASE f = g
      BY <1>2, <3>1
    <3>2. CASE f \in flushes
      BY <3>2 DEF IInv, Counted, Doubt
    <3> QED
      BY <2>3, <3>1, <3>2
  <2>5. Elems(pendingAudit') \cap unsure' = {}
    BY <1>3
  <2> QED
    BY <2>1, <2>2, <2>4, <2>5 DEF Counted, Sent
<1> QED
  BY <1>1, <1>2, <1>4, <1>6, <1>8, <1>9

\* A flush the exit does not wait for changes nothing else.
LEMMA FlushGoesOn ==
  ASSUME IInv, NEW batch, FlushEntries(batch, FALSE),
         batch \in Seq(Entries), NoRepeat(batch), Elems(batch) \subseteq recorded',
         Elems(batch) \cap Waiting = {},
         \A e \in Elems(batch) : written[e] = 0 /\ e \notin unsure,
         Elems(pendingAudit) \subseteq Elems(batch),
         recorded \subseteq recorded', recorded' \subseteq recorded \cup Elems(batch), recorded' \subseteq Entries,
         UNCHANGED <<status, written, reported, outage, unsure, lastBatch>>
  PROVE  IInv'
<1>1. /\ pendingAudit' \in Seq(Entries) /\ Len(pendingAudit') < AUDIT_BATCH_MAX
      /\ auditTimer' \in BOOLEAN /\ flushes' \subseteq Flush
      /\ Elems(batch) \subseteq Waiting' /\ Waiting \subseteq Waiting'
      /\ flushes \subseteq flushes' /\ \A f \in flushes' \ flushes : f.last = FALSE
      /\ InOnePlace' /\ Counted'
  BY FlushKeeps
<1>2. TypeOK'
  BY <1>1 DEF IInv, TypeOK
<1>3. LastWaits'
  BY <1>1 DEF IInv, LastWaits
<1>4. NothingDropped'
  BY <1>1 DEF IInv, NothingDropped
<1>5. PendingWrittenAtStop'
  BY DEF IInv, PendingWrittenAtStop
<1> QED
  BY <1>1, <1>2, <1>3, <1>4, <1>5 DEF IInv

\* An entry is recorded: it is pending, or goes with the batch that is full.
LEMMA RecordStep ==
  ASSUME IInv, NEW e \in Entries, RecordAudit(e)
  PROVE  IInv'
<1> DEFINE batch == Append(pendingAudit, e)
<1>1. /\ status # "exited" /\ e \notin recorded /\ recorded' = recorded \cup {e}
      /\ UNCHANGED <<status, written, reported, outage, unsure, lastBatch>>
      /\ IF Len(batch) >= AUDIT_BATCH_MAX
           THEN FlushEntries(batch, FALSE)
           ELSE pendingAudit' = batch /\ auditTimer' = TRUE /\ UNCHANGED flushes
  BY DEF RecordAudit
<1>2. e \notin Elems(pendingAudit) /\ e \notin Waiting /\ written[e] = 0 /\ e \notin unsure
  BY <1>1 DEF IInv, InOnePlace, Counted, Waiting, TypeOK
<1>3. /\ batch \in Seq(Entries) /\ batch # <<>> /\ Len(batch) \in Nat /\ NoRepeat(batch)
      /\ Elems(batch) = Elems(pendingAudit) \cup {e}
  BY <1>2, AppendHolds, LenProperties DEF IInv, TypeOK, InOnePlace
<1> HIDE DEF batch
<1>4. /\ Elems(batch) \cap Waiting = {} /\ \A x \in Elems(batch) : written[x] = 0 /\ x \notin unsure
      /\ Elems(batch) \subseteq recorded' /\ recorded' \subseteq Entries
  <2>1. Elems(pendingAudit) \cap Waiting = {} /\ Elems(pendingAudit) \subseteq Entries
    BY DEF IInv, InOnePlace, Waiting, TypeOK
  <2>2. \A x \in Elems(pendingAudit) : written[x] = 0 /\ x \notin unsure
    BY <2>1 DEF IInv, Counted
  <2> QED
    BY <1>1, <1>2, <1>3, <2>1, <2>2 DEF IInv, InOnePlace, TypeOK
<1>5. CASE Len(batch) >= AUDIT_BATCH_MAX
  <2>1. FlushEntries(batch, FALSE)
    BY <1>1, <1>5
  <2> QED
    BY <1>1, <1>3, <1>4, <2>1, FlushGoesOn
<1>6. CASE ~(Len(batch) >= AUDIT_BATCH_MAX)
  <2>1. pendingAudit' = batch /\ auditTimer' = TRUE /\ UNCHANGED flushes /\ Len(batch) < AUDIT_BATCH_MAX
    BY <1>1, <1>3, <1>6, MaxAssumption
  <2>2. TypeOK'
    BY <1>1, <1>3, <1>4, <2>1 DEF IInv, TypeOK
  <2>3. InOnePlace'
    BY <1>1, <1>3, <1>4, <2>1 DEF IInv, InOnePlace, Waiting
  <2>4. Counted'
    BY <1>1, <1>3, <1>4, <2>1 DEF IInv, Counted, Doubt, Sent
  <2>5. LastWaits' /\ PendingWrittenAtStop'
    BY <1>1, <2>1 DEF IInv, LastWaits, PendingWrittenAtStop
  <2>6. NothingDropped'
    BY <1>1, <1>3, <2>1 DEF IInv, NothingDropped, Waiting
  <2> QED
    BY <2>2, <2>3, <2>4, <2>5, <2>6 DEF IInv
<1> QED
  BY <1>5, <1>6

\* What is pending waits nowhere else and has not been written.
LEMMA PendingFresh ==
  ASSUME IInv
  PROVE  /\ pendingAudit \in Seq(Entries) /\ NoRepeat(pendingAudit) /\ Elems(pendingAudit) \subseteq recorded
         /\ Elems(pendingAudit) \cap Waiting = {} /\ recorded \subseteq Entries
         /\ \A e \in Elems(pendingAudit) : written[e] = 0 /\ e \notin unsure
<1>1. /\ pendingAudit \in Seq(Entries) /\ NoRepeat(pendingAudit) /\ Elems(pendingAudit) \subseteq recorded
      /\ Elems(pendingAudit) \cap Waiting = {} /\ recorded \subseteq Entries
  BY DEF IInv, TypeOK, InOnePlace, Waiting
<1> QED
  BY <1>1 DEF IInv, Counted

\* The timer takes what is pending.
LEMMA TimerStep ==
  ASSUME IInv, TimerFires
  PROVE  IInv'
<1>1. FlushEntries(pendingAudit, FALSE) /\ UNCHANGED <<status, written, reported, recorded, outage, unsure, lastBatch>>
  BY DEF TimerFires, history
<1> QED
  BY <1>1, PendingFresh, FlushGoesOn

\* SIGTERM takes what is pending, and the exit waits for it.
LEMMA CloseStep ==
  ASSUME IInv, CloseServer
  PROVE  IInv'
<1>1. /\ status = "serving" /\ status' = IF pendingAudit = <<>> THEN "exited" ELSE "closing"
      /\ lastBatch' = Elems(pendingAudit) /\ FlushEntries(pendingAudit, TRUE)
      /\ UNCHANGED <<written, reported, recorded, outage, unsure>>
  BY DEF CloseServer
<1>2. /\ pendingAudit' \in Seq(Entries) /\ Len(pendingAudit') < AUDIT_BATCH_MAX
      /\ auditTimer' \in BOOLEAN /\ flushes' \subseteq Flush
      /\ Elems(pendingAudit) \subseteq Waiting' /\ Waiting \subseteq Waiting'
      /\ flushes \subseteq flushes'
      /\ \A f \in flushes' \ flushes : f.rows = pendingAudit /\ f.last = TRUE /\ flushes' = flushes \cup {f}
      /\ pendingAudit # <<>> => \E f \in flushes' : f.rows = pendingAudit /\ f.last = TRUE
      /\ InOnePlace' /\ Counted'
  <2>1. TRUE \in BOOLEAN
    OBVIOUS
  <2> QED
    BY <1>1, <2>1, PendingFresh, FlushKeeps
<1>3. TypeOK'
  BY <1>1, <1>2, PendingFresh DEF IInv, TypeOK
<1>4. LastWaits'
  <2>1. \A f \in flushes : ~f.last
    BY <1>1 DEF IInv, LastWaits
  <2>2. status' # "serving"
    BY <1>1
  <2>3. \A f, g \in flushes' : f.last /\ g.last => f = g
    BY <1>2, <2>1
  <2> QED
    BY <1>1, <1>2, <2>2, <2>3 DEF LastWaits
<1>5. NothingDropped'
  BY <1>1, <1>2 DEF IInv, NothingDropped
<1>6. PendingWrittenAtStop'
  BY <1>1, EmptyHolds DEF PendingWrittenAtStop
<1> QED
  BY <1>2, <1>3, <1>4, <1>5, <1>6 DEF IInv

\* A flush in hand: what the invariant says of it.
LEMMA InHand ==
  ASSUME IInv, NEW f \in flushes
  PROVE  /\ f.rows \in Seq(Entries) /\ f.rows # <<>> /\ NoRepeat(f.rows)
         /\ f.one \in BOOLEAN /\ f.stage \in {"sent", "ran"} /\ f.last \in BOOLEAN
         /\ Elems(f.rows) \subseteq recorded /\ recorded \subseteq Entries
         /\ Head(f.rows) \in Elems(f.rows) /\ Sent(f) \subseteq Elems(f.rows)
         /\ Elems(f.rows) \cap Elems(pendingAudit) = {}
         /\ Elems(f.rows) \subseteq Waiting
<1>1. f \in Flush /\ f.rows # <<>> /\ NoRepeat(f.rows)
  BY DEF IInv, TypeOK, InOnePlace
<1>2. f.rows \in Seq(Entries) /\ f.one \in BOOLEAN /\ f.stage \in {"sent", "ran"} /\ f.last \in BOOLEAN
  BY <1>1 DEF Flush
<1>3. Head(f.rows) \in Elems(f.rows) /\ Sent(f) \subseteq Elems(f.rows)
  BY <1>1, <1>2, HeadHolds DEF Sent
<1> QED
  BY <1>1, <1>2, <1>3 DEF IInv, TypeOK, InOnePlace, Waiting

\* The database runs a statement: its rows are in the log once more.
LEMMA RunStep ==
  ASSUME IInv, NEW f \in flushes, RunInsert(f)
  PROVE  IInv'
<1> DEFINE g == [f EXCEPT !.stage = "ran"]
<1>1. /\ f.stage = "sent"
      /\ written' = [e \in Entries |-> IF e \in Sent(f) THEN written[e] + 1 ELSE written[e]]
      /\ flushes' = (flushes \ {f}) \cup {g}
      /\ UNCHANGED <<status, pendingAudit, auditTimer, reported, recorded, outage, unsure, lastBatch>>
  BY DEF RunInsert, Replace, history
<1>2. f \in Flush
  BY DEF IInv, TypeOK
<1>3. g \in Flush /\ g.rows = f.rows /\ g.one = f.one /\ g.stage = "ran" /\ g.last = f.last /\ Sent(g) = Sent(f)
  BY <1>2 DEF Flush, Sent
<1> HIDE DEF g
<1>4. /\ \A e \in Entries : written[e] \in 0 .. 2 /\ written[e] <= 1 + Doubt(e)
      /\ \A e \in Elems(f.rows) : e \in Entries
      /\ \A e \in Sent(f) : e \in Elems(f.rows) /\ written[e] <= Doubt(e)
  BY <1>1, InHand DEF IInv, TypeOK, Counted, Doubt, Sent
<1>5. \A e \in Entries : /\ written'[e] \in Nat /\ written'[e] <= 1 + Doubt(e)
                         /\ written[e] > 0 => written'[e] > 0
                         /\ e \notin Sent(f) => written'[e] = written[e]
                         /\ e \in Sent(f) => written'[e] > 0
  BY <1>1, <1>4 DEF Doubt
<1>6. \A h \in flushes \ {f} : Elems(h.rows) \cap Elems(f.rows) = {} /\ Elems(h.rows) \subseteq Entries
  BY InHand DEF IInv, InOnePlace
<1>7. Waiting' = Waiting
  BY <1>1, <1>3 DEF Waiting
<1>8. TypeOK'
  <2>1. written' \in [Entries -> 0 .. 2]
    BY <1>1, <1>5 DEF Doubt
  <2> QED
    BY <1>1, <1>3, <2>1 DEF IInv, TypeOK
<1>9. InOnePlace'
  BY <1>1, <1>3, <1>6 DEF IInv, InOnePlace
<1>10. Counted'
  <2>1. \A e \in Entries : written'[e] <= 1 + Doubt(e)'
    BY <1>1, <1>5 DEF Doubt
  <2>2. \A e \in Entries : e \notin recorded' \/ e \in Elems(pendingAudit)' => written'[e] = 0
    BY <1>1, <1>5, <1>4, InHand DEF IInv, Counted
  <2>3. ASSUME NEW h \in flushes'
        PROVE  /\ ~h.one => Elems(h.rows) \cap unsure' = {}
               /\ ~h.one /\ h.stage = "sent" => \A e \in Elems(h.rows) : written'[e] = 0
               /\ h.one => \A e \in Elems(h.rows) : (h.stage = "sent" \/ e # Head(h.rows)) => written'[e] <= Doubt(e)'
               /\ h.stage = "ran" => \A e \in Sent(h) : written'[e] > 0
    <3>1. CASE h = g
      <4>1. f.one => \A e \in Elems(f.rows) : e # Head(f.rows) => e \notin Sent(f) /\ written[e] <= Doubt(e)
        BY <1>1 DEF IInv, Counted, Sent
      <4> QED
        BY <1>1, <1>3, <1>4, <1>5, <3>1, <4>1 DEF IInv, Counted, Doubt
    <3>2. CASE h \in flushes \ {f}
      <4>1. \A e \in Elems(h.rows) : written'[e] = written[e]
        BY <1>4, <1>5, <1>6, <3>2
      <4>2. Sent(h) \subseteq Elems(h.rows)
        BY <3>2, InHand
      <4> QED
        BY <1>1, <3>2, <4>1, <4>2 DEF IInv, Counted, Doubt
    <3> QED
      BY <1>1, <3>1, <3>2
  <2> QED
    BY <1>1, <2>1, <2>2, <2>3 DEF IInv, Counted, Sent
<1>11. LastWaits'
  <2>1. \A h \in flushes' : \E k \in flushes : h.last = k.last /\ h.rows = k.rows
    BY <1>1, <1>3
  <2>2. \A k \in flushes : \E h \in flushes' : h.last = k.last /\ h.rows = k.rows
    BY <1>1, <1>3
  <2>3. \A h, k \in flushes' : h.last /\ k.last => h = k
    BY <1>1, <1>3 DEF IInv, LastWaits
  <2>4. lastBatch \subseteq Entries
    BY DEF IInv, TypeOK
  <2> QED
    BY <1>1, <1>5, <2>1, <2>2, <2>3, <2>4 DEF IInv, LastWaits
<1>12. NothingDropped' /\ PendingWrittenAtStop'
  BY <1>1, <1>5, <1>7 DEF IInv, TypeOK, NothingDropped, PendingWrittenAtStop
<1> QED
  BY <1>8, <1>9, <1>10, <1>11, <1>12 DEF IInv

\* A flush goes on with the rows in G, one at a time, or is over; the rows it
\* leaves behind are written or reported.
LEMMA Advance ==
  ASSUME IInv, NEW f \in flushes, status # "exited", NEW G,
         flushes' = (flushes \ {f}) \cup G, \A g, h \in G : g = h,
         \A g \in G : /\ g \in Flush /\ g.last = f.last /\ g.one = TRUE /\ g.stage = "sent"
                     /\ g.rows # <<>> /\ NoRepeat(g.rows) /\ Elems(g.rows) \subseteq Elems(f.rows)
                     /\ \A e \in Elems(g.rows) : written[e] <= Doubt(e)',
         \A e \in Elems(f.rows) : written[e] > 0 \/ e \in reported' \/ \E g \in G : e \in Elems(g.rows),
         status' = IF G = {} /\ f.last THEN "exited" ELSE status,
         reported \subseteq reported', reported' \subseteq recorded,
         unsure \subseteq unsure', unsure' \subseteq unsure \cup Elems(f.rows), outage' \in BOOLEAN,
         UNCHANGED <<pendingAudit, auditTimer, written, recorded, lastBatch>>
  PROVE  IInv'
<1>1. /\ Elems(f.rows) \subseteq recorded /\ recorded \subseteq Entries
      /\ Elems(f.rows) \cap Elems(pendingAudit) = {}
  BY InHand
<1>2. \A h \in flushes \ {f} : Elems(h.rows) \cap Elems(f.rows) = {} /\ Elems(h.rows) \subseteq recorded
  BY DEF IInv, InOnePlace
<1>3. TypeOK'
  BY <1>1 DEF IInv, TypeOK
<1>4. InOnePlace'
  BY <1>1, <1>2 DEF IInv, InOnePlace
<1>5. \A e \in Entries : /\ written'[e] = written[e] /\ Doubt(e) \in {0, 1} /\ Doubt(e)' \in {0, 1}
                         /\ Doubt(e) <= Doubt(e)' /\ written[e] \in Nat
                         /\ e \notin Elems(f.rows) => (e \in unsure <=> e \in unsure')
  BY DEF Doubt, IInv, TypeOK
<1>6. Counted'
  <2>1. \A e \in Entries : written'[e] <= 1 + Doubt(e)'
    BY <1>5 DEF IInv, Counted
  <2>2. \A e \in Entries : e \notin recorded' \/ e \in Elems(pendingAudit)' => written'[e] = 0
    BY DEF IInv, Counted
  <2>3. Elems(pendingAudit)' \cap unsure' = {}
    BY <1>1 DEF IInv, Counted
  <2>4. ASSUME NEW h \in flushes'
        PROVE  /\ ~h.one => Elems(h.rows) \cap unsure' = {}
               /\ ~h.one /\ h.stage = "sent" => \A e \in Elems(h.rows) : written'[e] = 0
               /\ h.one => \A e \in Elems(h.rows) : (h.stage = "sent" \/ e # Head(h.rows)) => written'[e] <= Doubt(e)'
               /\ h.stage = "ran" => \A e \in Sent(h) : written'[e] > 0
    <3>1. CASE h \in G
      BY <3>1
    <3>2. CASE h \in flushes \ {f}
      <4>1. \A e \in Elems(h.rows) : (e \in unsure <=> e \in unsure') /\ Doubt(e) = Doubt(e)'
        BY <1>1, <1>2, <1>5, <3>2 DEF Doubt
      <4> QED
        BY <3>2, <4>1 DEF IInv, Counted
    <3> QED
      BY <3>1, <3>2
  <2> QED
    BY <2>1, <2>2, <2>3, <2>4 DEF Counted, Sent
<1>7. LastWaits'
  <2>1. status = "serving" => status' = "serving" /\ \A h \in flushes' : ~h.last
    BY DEF IInv, LastWaits
  <2>2. status' = "serving" => \A h \in flushes' : ~h.last
    BY <2>1
  <2>3. \A h, k \in flushes' : h.last /\ k.last => h = k
    BY DEF IInv, LastWaits
  <2>4. ASSUME status' = "closing", NEW e \in lastBatch
        PROVE  written[e] > 0 \/ e \in reported' \/ \E h \in flushes' : h.last /\ e \in Elems(h.rows)
    <3>1. written[e] > 0 \/ e \in reported \/ \E h \in flushes : h.last /\ e \in Elems(h.rows)
      BY <2>4 DEF IInv, LastWaits
    <3> QED
      BY <3>1
  <2> QED
    BY <2>2, <2>3, <2>4 DEF LastWaits
<1>8. \A e \in Waiting : e \in Waiting' \/ written[e] > 0 \/ e \in reported'
  BY DEF Waiting
<1>9. NothingDropped'
  BY <1>8 DEF IInv, NothingDropped
<1>10. PendingWrittenAtStop'
  <2> SUFFICES ASSUME status' = "exited", NEW e \in lastBatch
               PROVE  written[e] > 0 \/ e \in reported'
    BY DEF PendingWrittenAtStop
  <2>1. G = {} /\ f.last /\ status = "closing"
    BY DEF IInv, LastWaits, TypeOK
  <2>2. written[e] > 0 \/ e \in reported \/ e \in Elems(f.rows)
    BY <2>1 DEF IInv, LastWaits
  <2> QED
    BY <2>1, <2>2
<1> QED
  BY <1>3, <1>4, <1>6, <1>7, <1>9, <1>10 DEF IInv

\* A flush is over.
LEMMA AdvanceOver ==
  ASSUME IInv, NEW f \in flushes, status # "exited", Return(f),
         \A e \in Elems(f.rows) : written[e] > 0 \/ e \in reported',
         reported \subseteq reported', reported' \subseteq recorded, outage' \in BOOLEAN,
         UNCHANGED <<pendingAudit, auditTimer, written, recorded, unsure, lastBatch>>
  PROVE  IInv'
<1> DEFINE G == {}
<1>1. /\ flushes' = (flushes \ {f}) \cup G /\ G = {}
      /\ status' = IF G = {} /\ f.last THEN "exited" ELSE status
  BY DEF Return, Replace
<1>2. unsure \subseteq unsure' /\ unsure' \subseteq unsure \cup Elems(f.rows)
  OBVIOUS
<1> HIDE DEF G
<1>3. /\ \A g, h \in G : g = h
      /\ \A g \in G : /\ g \in Flush /\ g.last = f.last /\ g.one = TRUE /\ g.stage = "sent"
                     /\ g.rows # <<>> /\ NoRepeat(g.rows) /\ Elems(g.rows) \subseteq Elems(f.rows)
                     /\ \A e \in Elems(g.rows) : written[e] <= Doubt(e)'
  BY <1>1
<1>4. \A e \in Elems(f.rows) : written[e] > 0 \/ e \in reported' \/ \E g \in G : e \in Elems(g.rows)
  OBVIOUS
<1> QED
  BY <1>1, <1>2, <1>3, <1>4, Advance

\* A flush goes on as g.
LEMMA AdvanceTo ==
  ASSUME IInv, NEW f \in flushes, status # "exited", NEW g \in Flush,
         flushes' = (flushes \ {f}) \cup {g}, status' = status,
         g.last = f.last, g.one = TRUE, g.stage = "sent",
         g.rows # <<>>, NoRepeat(g.rows), Elems(g.rows) \subseteq Elems(f.rows),
         \A e \in Elems(g.rows) : written[e] <= Doubt(e)',
         \A e \in Elems(f.rows) : written[e] > 0 \/ e \in reported' \/ e \in Elems(g.rows),
         reported \subseteq reported', reported' \subseteq recorded,
         unsure \subseteq unsure', unsure' \subseteq unsure \cup Elems(f.rows), outage' \in BOOLEAN,
         UNCHANGED <<pendingAudit, auditTimer, written, recorded, lastBatch>>
  PROVE  IInv'
<1> DEFINE G == {g}
<1>1. /\ flushes' = (flushes \ {f}) \cup G /\ G = {g}
      /\ status' = IF G = {} /\ f.last THEN "exited" ELSE status
  OBVIOUS
<1> HIDE DEF G
<1>2. /\ \A a, b \in G : a = b
      /\ \A a \in G : /\ a \in Flush /\ a.last = f.last /\ a.one = TRUE /\ a.stage = "sent"
                     /\ a.rows # <<>> /\ NoRepeat(a.rows) /\ Elems(a.rows) \subseteq Elems(f.rows)
                     /\ \A e \in Elems(a.rows) : written[e] <= Doubt(e)'
  BY <1>1
<1>3. \A e \in Elems(f.rows) : written[e] > 0 \/ e \in reported' \/ \E a \in G : e \in Elems(a.rows)
  BY <1>1
<1> QED
  BY <1>1, <1>2, <1>3, Advance

\* The rows that are left after the first one, and what NextRow does with them.
LEMMA NextRowAdvances ==
  ASSUME IInv, NEW f \in flushes, status # "exited", f.one, NextRow(f),
         written[Head(f.rows)] > 0 \/ Head(f.rows) \in reported',
         reported \subseteq reported', reported' \subseteq recorded, outage' \in BOOLEAN,
         UNCHANGED <<pendingAudit, auditTimer, written, recorded, unsure, lastBatch>>
  PROVE  IInv'
<1>1. /\ f \in Flush /\ f.rows \in Seq(Entries) /\ f.rows # <<>> /\ NoRepeat(f.rows)
      /\ \A e \in Elems(f.rows) : e # Head(f.rows) => written[e] <= Doubt(e)
  BY InHand DEF IInv, TypeOK, Counted
<1>2. CASE Len(f.rows) = 1
  <2>1. Elems(f.rows) = {Head(f.rows)}
    BY <1>1, <1>2, HeadHolds
  <2>2. Return(f)
    BY <1>2 DEF NextRow
  <2> QED
    BY <2>1, <2>2, AdvanceOver
<1>3. CASE Len(f.rows) # 1
  <2> DEFINE g == [f EXCEPT !.rows = Tail(f.rows), !.stage = "sent"]
  <2>1. /\ Tail(f.rows) \in Seq(Entries) /\ Tail(f.rows) # <<>> /\ NoRepeat(Tail(f.rows))
        /\ Elems(f.rows) = {Head(f.rows)} \cup Elems(Tail(f.rows)) /\ Head(f.rows) \notin Elems(Tail(f.rows))
    BY <1>1, <1>3, TailHolds
  <2>2. g \in Flush /\ g.rows = Tail(f.rows) /\ g.one = f.one /\ g.stage = "sent" /\ g.last = f.last
    BY <1>1, <2>1 DEF Flush
  <2>3. flushes' = (flushes \ {f}) \cup {g} /\ status' = status
    BY <1>3 DEF NextRow, Replace
  <2> HIDE DEF g
  <2>4. \A e \in Elems(g.rows) : written[e] <= Doubt(e)'
    BY <1>1, <2>1, <2>2 DEF Doubt
  <2>5. g.one = TRUE
    BY <1>1, <2>2 DEF Flush
  <2>6. g \in Flush /\ g.last = f.last /\ g.stage = "sent" /\ g.rows # <<>> /\ NoRepeat(g.rows)
        /\ Elems(g.rows) \subseteq Elems(f.rows)
        /\ \A e \in Elems(f.rows) : written[e] > 0 \/ e \in reported' \/ e \in Elems(g.rows)
    BY <2>1, <2>2
  <2>7. unsure \subseteq unsure' /\ unsure' \subseteq unsure \cup Elems(f.rows)
    OBVIOUS
  <2> QED
    BY <2>3, <2>4, <2>5, <2>6, <2>7, AdvanceTo
<1> QED
  BY <1>2, <1>3

\* An answer: the rows sent are written, and the flush goes on or returns.
LEMMA AnsweredStep ==
  ASSUME IInv, NEW f \in flushes, InsertAnswered(f)
  PROVE  IInv'
<1>1. /\ status # "exited" /\ f.stage = "ran"
      /\ IF f.one THEN NextRow(f) ELSE Return(f)
      /\ UNCHANGED <<pendingAudit, auditTimer, written, reported, recorded, outage, unsure, lastBatch>>
  BY DEF InsertAnswered, history
<1>2. /\ \A e \in Sent(f) : written[e] > 0
      /\ reported \subseteq recorded /\ outage \in BOOLEAN
  BY <1>1 DEF IInv, Counted, TypeOK
<1>3. CASE f.one
  <2>1. written[Head(f.rows)] > 0
    BY <1>2, <1>3 DEF Sent
  <2> QED
    BY <1>1, <1>2, <1>3, <2>1, NextRowAdvances
<1>4. CASE ~f.one
  <2>1. \A e \in Elems(f.rows) : written[e] > 0
    BY <1>2, <1>4 DEF Sent
  <2>2. Return(f) /\ reported \subseteq reported' /\ reported' \subseteq recorded /\ outage' \in BOOLEAN
    BY <1>1, <1>2, <1>4
  <2> QED
    BY <1>1, <2>1, <2>2, AdvanceOver
<1> QED
  BY <1>3, <1>4

\* A failure: the batch falls back to single rows, or the row is reported.
LEMMA FailedStep ==
  ASSUME IInv, NEW f \in flushes, InsertFailed(f)
  PROVE  IInv'
<1>1. /\ status # "exited" /\ outage' \in BOOLEAN
      /\ unsure' = IF f.stage = "ran" /\ ~f.one THEN unsure \cup Elems(f.rows) ELSE unsure
      /\ IF f.one THEN ReportRow(f) ELSE FallBack(f)
      /\ UNCHANGED <<pendingAudit, auditTimer, written, recorded, lastBatch>>
  BY DEF InsertFailed, IInv, TypeOK
<1>2. /\ f \in Flush /\ f.rows # <<>> /\ NoRepeat(f.rows) /\ Head(f.rows) \in recorded
      /\ reported \subseteq recorded
  BY InHand DEF IInv, TypeOK
<1>3. CASE f.one
  <2>1. NextRow(f) /\ reported' = reported \cup {Head(f.rows)} /\ UNCHANGED unsure
    BY <1>1, <1>3 DEF ReportRow
  <2> QED
    BY <1>1, <1>2, <1>3, <2>1, NextRowAdvances
<1>4. CASE ~f.one
  <2> DEFINE g == [f EXCEPT !.one = TRUE, !.stage = "sent"]
  <2>1. flushes' = (flushes \ {f}) \cup {g} /\ UNCHANGED <<status, reported>>
    BY <1>1, <1>4 DEF FallBack, Replace
  <2>2. g \in Flush /\ g.rows = f.rows /\ g.one = TRUE /\ g.stage = "sent" /\ g.last = f.last
    BY <1>2 DEF Flush
  <2> HIDE DEF g
  <2>3. \A e \in Elems(f.rows) : written[e] <= Doubt(e)'
    <3>1. \A e \in Elems(f.rows) : e \in Entries /\ e \notin unsure /\ written[e] \in 0 .. 1
      <4>1. Elems(f.rows) \subseteq Entries
        BY InHand
      <4>2. /\ \A e \in Entries : written[e] \in 0 .. 2
            /\ \A e \in Entries : written[e] <= 1 + Doubt(e)
        BY DEF IInv, Counted, TypeOK
      <4>3. Elems(f.rows) \cap unsure = {}
        BY <1>4 DEF IInv, Counted
      <4>4. ASSUME NEW e \in Elems(f.rows)
            PROVE  e \in Entries /\ e \notin unsure /\ written[e] \in 0 .. 1
        <5>1. e \in Entries /\ e \notin unsure
          BY <4>1, <4>3
        <5>2. Doubt(e) = 0
          BY <5>1 DEF Doubt
        <5>3. written[e] \in 0 .. 2 /\ written[e] <= 1
          BY <4>2, <5>1, <5>2
        <5> QED
          BY <5>1, <5>3
      <4> QED
        BY <4>4
    <3>2. CASE f.stage = "sent"
      BY <1>4, <3>1, <3>2 DEF IInv, Counted, Doubt
    <3>3. CASE f.stage = "ran"
      BY <1>1, <1>4, <3>1, <3>3 DEF Doubt
    <3> QED
      BY <3>2, <3>3, InHand
  <2>4. /\ NoRepeat(g.rows) /\ g.rows # <<>> /\ Elems(g.rows) \subseteq Elems(f.rows)
        /\ \A e \in Elems(g.rows) : written[e] <= Doubt(e)'
        /\ \A e \in Elems(f.rows) : written[e] > 0 \/ e \in reported' \/ e \in Elems(g.rows)
        /\ reported \subseteq reported' /\ reported' \subseteq recorded
        /\ unsure \subseteq unsure' /\ unsure' \subseteq unsure \cup Elems(f.rows)
    BY <1>1, <1>2, <2>1, <2>2, <2>3
  <2> QED
    BY <1>1, <2>1, <2>2, <2>4, AdvanceTo
<1> QED
  BY <1>3, <1>4

\* Every step keeps the invariant.
LEMMA IInvStep == IInv /\ [Next]_vars => IInv'
<1> SUFFICES ASSUME IInv, [Next]_vars PROVE IInv'
  OBVIOUS
<1>1. CASE \E e \in Entries : RecordAudit(e)
  BY <1>1, RecordStep
<1>2. CASE TimerFires
  BY <1>2, TimerStep
<1>3. CASE \E f \in flushes : RunInsert(f) \/ Answer(f)
  BY <1>3, RunStep, AnsweredStep, FailedStep DEF Answer
<1>4. CASE CloseServer
  BY <1>4, CloseStep
<1>5. CASE Kill
  <2>1. TypeOK' /\ InOnePlace' /\ Counted'
    BY <1>5 DEF Kill, IInv, TypeOK, InOnePlace, Counted, Doubt, Sent
  <2>2. LastWaits' /\ NothingDropped' /\ PendingWrittenAtStop'
    BY <1>5 DEF Kill, IInv, LastWaits, NothingDropped, PendingWrittenAtStop
  <2> QED
    BY <2>1, <2>2 DEF IInv
<1>6. CASE UNCHANGED vars
  <2>1. TypeOK' /\ InOnePlace' /\ Counted'
    BY <1>6 DEF vars, IInv, TypeOK, InOnePlace, Counted, Doubt, Sent
  <2>2. LastWaits' /\ NothingDropped' /\ PendingWrittenAtStop'
    BY <1>6 DEF vars, IInv, LastWaits, NothingDropped, PendingWrittenAtStop, Waiting
  <2> QED
    BY <2>1, <2>2 DEF IInv
<1> QED
  BY <1>1, <1>2, <1>3, <1>4, <1>5, <1>6 DEF Next
-----------------------------------------------------------------------------
(* The theorems *)

\* Each entry is in one place and is written as often as that place allows.
THEOREM EachInOnePlace == Spec => []IInv
  BY IInvInit, IInvStep, PTL DEF Spec

\* The types of the batches (recordAudit, flushAuditEntries).
THEOREM BatchTypes == Spec => []TypeOK
<1>1. IInv => TypeOK
  BY DEF IInv
<1> QED
  BY <1>1, EachInOnePlace, PTL

\* While the process lives no entry it was given is lost sight of, whatever
\* overlaps and whatever fails.
THEOREM NeverDropped == Spec => []NothingDropped
<1>1. IInv => NothingDropped
  BY DEF IInv
<1> QED
  BY <1>1, EachInOnePlace, PTL

\* An entry is written twice only when the answer to its batch was lost.
THEOREM OnceEach == Spec => []WrittenOnce
<1>1. IInv => WrittenOnce
  BY DEF IInv, Counted, Doubt, WrittenOnce, TypeOK
<1> QED
  BY <1>1, EachInOnePlace, PTL

\* At SIGTERM what is pending is written or reported before the process ends.
THEOREM StopWrites == Spec => []PendingWrittenAtStop
<1>1. IInv => PendingWrittenAtStop
  BY DEF IInv
<1> QED
  BY <1>1, EachInOnePlace, PTL
-----------------------------------------------------------------------------
(* The minutes: memory, flushes and rows *)

Counts == [requests : Nat, errors : Nat]

\* Each variable of the minutes holds a value of its kind.
MinutesTyped ==
  /\ now \in Minute /\ memory \subseteq Minute /\ queue \in Seq(Callers)
  /\ counted \in [Minute -> Counts] /\ rows \in [Minute -> Counts]
  /\ snapshot = [c \in Callers |-> snapshot[c]]
  /\ closed \in [Callers -> SUBSET Minute]
\* Nothing is counted for a minute that has not come.
NoneAhead == \A m \in Minute : m > now => m \notin memory /\ counted[m] = Zero
\* Only the caller at the head of the queue has a copy to write; the minutes it will forget have
\* closed, so its copy of them is what was counted.
TurnHeld ==
  \A c \in Callers :
    snapshot[c] # <<>> =>
      /\ Turn(c)
      /\ DOMAIN snapshot[c] \subseteq memory
      /\ \A m \in DOMAIN snapshot[c] : snapshot[c][m] \in Counts
      /\ closed[c] \subseteq {m \in DOMAIN snapshot[c] : m < now /\ snapshot[c][m] = counted[m]}
\* What has left memory has closed, and its row is complete.
Forgotten == \A m \in Minute \ memory : counted[m] # Zero => m < now /\ rows[m] = counted[m]
MinutesInv == MinutesTyped /\ NoneAhead /\ TurnHeld /\ Forgotten

\* At first nothing is counted, held or written.
LEMMA MinutesInvInit == HealthInit => MinutesInv
<1> SUFFICES ASSUME HealthInit PROVE MinutesInv
  OBVIOUS
<1>1. 0 \in Minute  BY WindowsAssumption DEF Minute
<1>2. Zero \in Counts  BY DEF Zero, Counts
<1>3. MinutesTyped  BY <1>1, <1>2 DEF HealthInit, MinutesTyped
<1>4. NoneAhead  BY DEF HealthInit, NoneAhead
<1>5. TurnHeld  BY DEF HealthInit, TurnHeld
<1>6. Forgotten BY DEF HealthInit, Forgotten
<1> QED BY <1>3, <1>4, <1>5, <1>6 DEF MinutesInv

\* Where a caller has its turn, no other is writing; so where it returns, none is.
LEMMA ReturnedKeeps ==
  ASSUME MinutesInv, NEW c \in Callers, Turn(c), Returned(c)
  PROVE  /\ queue' \in Seq(Callers)
         /\ snapshot' = [d \in Callers |-> <<>>]
         /\ closed' \in [Callers -> SUBSET Minute]
<1> USE DEF MinutesInv, MinutesTyped
<1>1. queue # <<>> BY DEF Turn
<1>2. Tail(queue) \in Seq(Callers)  BY <1>1, HeadTailProperties
<1>3. queue' \in Seq(Callers)
  <2>1. "slo" \in Callers BY DEF Callers
  <2>2. Append(Tail(queue), "slo") \in Seq(Callers)  BY <1>2, <2>1, AppendProperties
  <2> QED BY <1>2, <2>2 DEF Returned
<1>4. \A d \in Callers \ {c} : snapshot[d] = <<>>  BY DEF TurnHeld, Turn
<1>5. snapshot' = [d \in Callers |-> <<>>]  BY <1>4 DEF Returned
<1>6. closed' \in [Callers -> SUBSET Minute] BY DEF Returned
<1> QED BY <1>3, <1>5, <1>6

\* A flush writes counts, and leaves alone what is not in memory.
LEMMA WrittenTyped ==
  ASSUME MinutesInv, NEW c \in Callers
  PROVE  /\ Written(c) \in [Minute -> Counts]
         /\ \A m \in Minute \ memory : Written(c)[m] = rows[m]
<1>1. CASE snapshot[c] = <<>>
  <2>1. DOMAIN snapshot[c] = {}  BY <1>1
  <2> QED BY <2>1 DEF Written, MinutesInv, MinutesTyped
<1>2. CASE snapshot[c] # <<>>
  BY <1>2 DEF Written, MinutesInv, MinutesTyped, TurnHeld
<1> QED BY <1>1, <1>2

\* While a flush is written the clock goes on and requests are counted, but only in the minute of
\* now, which is none of those it will forget.
LEMMA MinutesInvStep == MinutesInv /\ [HealthNext]_healthVars => MinutesInv'
<1> SUFFICES ASSUME MinutesInv, [HealthNext]_healthVars PROVE MinutesInv'
  OBVIOUS
<1>1. CASE UNCHANGED metrics
  BY <1>1 DEF metrics, MinutesInv, MinutesTyped, NoneAhead, TurnHeld, Turn, Forgotten
<1>2. CASE NextMinute
  <2> USE <1>2, WindowsAssumption DEF NextMinute, MinutesInv
  <2>1. MinutesTyped' BY DEF MinutesTyped, Minute
  <2>2. NoneAhead'    BY DEF NoneAhead, MinutesTyped, Minute
  <2>3. TurnHeld'
    BY DEF TurnHeld, Turn, MinutesTyped, Minute
  <2>4. Forgotten'    BY DEF Forgotten, MinutesTyped, Minute
  <2> QED BY <2>1, <2>2, <2>3, <2>4
<1>3. ASSUME NEW failed \in {0, 1}, RecordRequest(failed) PROVE MinutesInv'
  <2> USE <1>3 DEF MinutesInv
  <2>1. /\ counted' \in [Minute -> Counts] /\ \A m \in Minute \ {now} : counted'[m] = counted[m]
        /\ memory' = memory \cup {now} /\ UNCHANGED <<now, rows, queue, snapshot, closed>>
    <3>1. counted[now] \in Counts /\ now \in Minute  BY DEF MinutesTyped
    <3>2. counted[now].requests + 1 \in Nat /\ counted[now].errors + failed \in Nat  BY <3>1 DEF Counts
    <3> DEFINE one == [counted EXCEPT ![now].requests = @ + 1]
    <3>3. one \in [Minute -> Counts] /\ one[now].errors = counted[now].errors
          /\ \A m \in Minute \ {now} : one[m] = counted[m]
      BY <3>1, <3>2 DEF MinutesTyped, Counts
    <3>4. counted' = [one EXCEPT ![now].errors = @ + failed]  BY DEF RecordRequest
    <3> HIDE DEF one
    <3>5. counted' \in [Minute -> Counts] /\ \A m \in Minute \ {now} : counted'[m] = counted[m]
      BY <3>1, <3>2, <3>3, <3>4 DEF Counts
    <3> QED BY <3>5 DEF RecordRequest
  <2>2. MinutesTyped' BY <2>1 DEF MinutesTyped
  <2>3. NoneAhead'    BY <2>1 DEF NoneAhead, MinutesTyped, Minute
  <2>4. TurnHeld'     BY <2>1 DEF TurnHeld, Turn, MinutesTyped, Minute
  <2>5. Forgotten'    BY <2>1 DEF Forgotten, MinutesTyped
  <2> QED BY <2>2, <2>3, <2>4, <2>5
<1>4. CASE Restart
  <2> USE <1>4 DEF Restart, MinutesInv
  <2>1. Zero \in Counts BY DEF Zero, Counts
  <2>2. MinutesTyped' BY <2>1 DEF MinutesTyped
  <2>3. NoneAhead' /\ TurnHeld' /\ Forgotten'  BY DEF NoneAhead, TurnHeld, Forgotten
  <2> QED BY <2>2, <2>3
<1>5. ASSUME NEW c \in Callers, StartFlush(c) PROVE MinutesInv'
  <2>1. UNCHANGED <<now, counted, memory, rows, snapshot, closed>> /\ queue' = Append(queue, c)
    BY <1>5 DEF StartFlush, Ask
  <2>2. queue' \in Seq(Callers)  BY <2>1, AppendProperties DEF MinutesInv, MinutesTyped
  <2>3. \A d \in Callers : Turn(d) => Turn(d)'
    <3> SUFFICES ASSUME NEW d \in Callers, Turn(d) PROVE Turn(d)'  OBVIOUS
    <3>1. queue' # <<>>  BY <2>1, AppendProperties DEF MinutesInv, MinutesTyped
    <3>2. Head(queue') = Head(queue)  BY <2>1, HeadTailAppend DEF Turn, MinutesInv, MinutesTyped
    <3> QED BY <3>1, <3>2 DEF Turn
  <2> QED BY <2>1, <2>2, <2>3 DEF MinutesInv, MinutesTyped, NoneAhead, TurnHeld, Forgotten
<1>6. ASSUME NEW c \in Callers, Turn(c), Returned(c), UNCHANGED <<now, counted>>,
             memory' \subseteq memory, rows' \in [Minute -> Counts],
             \A m \in Minute \ memory' : counted[m] # Zero => m < now /\ rows'[m] = counted[m]
      PROVE  MinutesInv'
  <2>1. /\ queue' \in Seq(Callers) /\ snapshot' = [d \in Callers |-> <<>>]
        /\ closed' \in [Callers -> SUBSET Minute]
    BY <1>6, ReturnedKeeps
  <2>2. MinutesTyped' BY <1>6, <2>1 DEF MinutesInv, MinutesTyped
  <2>3. TurnHeld'     BY <2>1 DEF TurnHeld
  <2>4. NoneAhead' /\ Forgotten'  BY <1>6 DEF MinutesInv, NoneAhead, Forgotten
  <2> QED BY <2>2, <2>3, <2>4 DEF MinutesInv
<1>7. ASSUME NEW c \in Callers, PendingRows(c) PROVE MinutesInv'
  <2> DEFINE minutes == {m \in memory : m < now \/ c # "tick"}
  <2>1. CASE minutes = {}
    BY <1>6, <1>7, <2>1 DEF PendingRows, MinutesInv, MinutesTyped, Forgotten
  <2>2. CASE minutes # {}
    <3>1. /\ Turn(c) /\ snapshot[c] = <<>>
          /\ snapshot' = [snapshot EXCEPT ![c] = [m \in minutes |-> counted[m]]]
          /\ closed' = [closed EXCEPT ![c] = {m \in minutes : m < now}]
          /\ UNCHANGED <<now, counted, memory, rows, queue>>
      BY <1>7, <2>2 DEF PendingRows
    <3>2. \A d \in Callers \ {c} : snapshot[d] = <<>>  BY <3>1 DEF MinutesInv, TurnHeld, Turn
    <3>3. MinutesTyped' BY <3>1 DEF MinutesInv, MinutesTyped
    <3>4. TurnHeld'
      <4> SUFFICES ASSUME NEW d \in Callers, snapshot'[d] # <<>>
                   PROVE  /\ Turn(d)'
                          /\ DOMAIN snapshot'[d] \subseteq memory'
                          /\ \A m \in DOMAIN snapshot'[d] : snapshot'[d][m] \in Counts
                          /\ closed'[d] \subseteq {m \in DOMAIN snapshot'[d] : m < now' /\ snapshot'[d][m] = counted'[m]}
        BY DEF TurnHeld
      <4>1. d = c  BY <3>1, <3>2 DEF MinutesInv, MinutesTyped
      <4>2. snapshot'[d] = [m \in minutes |-> counted[m]] /\ closed'[d] = {m \in minutes : m < now}
        BY <3>1, <4>1 DEF MinutesInv, MinutesTyped
      <4> QED BY <3>1, <4>1, <4>2 DEF Turn, MinutesInv, MinutesTyped
    <3> QED BY <3>1, <3>3, <3>4 DEF MinutesInv, NoneAhead, Forgotten
  <2> QED BY <2>1, <2>2
<1>8. ASSUME NEW c \in Callers, CommitFlush(c) PROVE MinutesInv'
  <2>1. /\ snapshot[c] # <<>> /\ rows' = Written(c) /\ memory' = memory \ closed[c]
        /\ Returned(c) /\ UNCHANGED <<now, counted>>
    BY <1>8 DEF CommitFlush, Forget
  <2>2. Turn(c)  BY <2>1 DEF MinutesInv, TurnHeld
  <2>3. \A m \in closed[c] : m \in Minute /\ m < now /\ Written(c)[m] = counted[m]
    BY <2>1 DEF MinutesInv, MinutesTyped, TurnHeld, Written
  <2>4. \A m \in Minute \ memory' : counted[m] # Zero => m < now /\ rows'[m] = counted[m]
    BY <2>1, <2>3, WrittenTyped DEF MinutesInv, Forgotten
  <2> QED BY <1>6, <2>1, <2>2, <2>4, WrittenTyped
<1>9. ASSUME NEW c \in Callers, FailFlush(c) PROVE MinutesInv'
  <2>1. /\ Turn(c) /\ rows' \in {rows, Written(c)} /\ memory' = memory
        /\ Returned(c) /\ UNCHANGED <<now, counted>>
    BY <1>9 DEF FailFlush
  <2>2. rows' \in [Minute -> Counts] /\ \A m \in Minute \ memory : rows'[m] = rows[m]
    BY <2>1, WrittenTyped DEF MinutesInv, MinutesTyped
  <2> QED BY <1>6, <2>1, <2>2 DEF MinutesInv, Forgotten
<1>10. ASSUME HealthNext, ~NextMinute, ~Restart, ~\E failed \in {0, 1} : RecordRequest(failed),
              ~\E c \in Callers : StartFlush(c) \/ FlushMetrics(c) \/ FailFlush(c)
       PROVE  UNCHANGED metrics
  BY <1>10 DEF HealthNext, AnswersChange, StartView, MeasureSlos, Check, ReadOpen, OpenAlert, ClearAlert,
     EndCheck, FailCheck
<1> QED BY <1>1, <1>2, <1>3, <1>4, <1>5, <1>7, <1>8, <1>9, <1>10 DEF healthVars, FlushMetrics, metrics

\* Flushes take turns, and what one forgets it has written (flushMetrics: the chain of promises).
THEOREM MinutesInvariant == HealthSpec => []MinutesInv
  BY MinutesInvInit, MinutesInvStep, PTL DEF HealthSpec

\* For any number of pages that flush beside the timer: a closed minute that has left memory is in
\* its row as it was counted, whatever failed, came late or was written twice (flushMetrics).
THEOREM RowsComplete == HealthSpec => []MinutesComplete
<1>1. MinutesInv => MinutesComplete
  BY DEF MinutesInv, Forgotten, MinutesComplete
<1> QED BY <1>1, MinutesInvariant, PTL

\* A flush writes only minutes that are in memory: the row of one that has left it, or that
\* only an earlier process counted, stays as it is (pendingRows, the upsert of flushMetrics).
RowsLeftAlone == [][\A m \in Minute \ memory : rows'[m] = rows[m]]_healthVars

\* The figures of before a restart are never overwritten by a minute the new process does not hold.
THEOREM OnlyHeldMinutesWritten == HealthSpec => RowsLeftAlone
<1>1. MinutesInv /\ [HealthNext]_healthVars => [\A m \in Minute \ memory : rows'[m] = rows[m]]_healthVars
  <2> SUFFICES ASSUME MinutesInv, HealthNext, NEW m \in Minute \ memory PROVE rows'[m] = rows[m]
    OBVIOUS
  <2>1. CASE UNCHANGED rows  BY <2>1
  <2>2. ASSUME NEW c \in Callers, StartFlush(c) \/ PendingRows(c) PROVE UNCHANGED rows
    BY <2>2 DEF StartFlush, PendingRows
  <2>3. ASSUME NEW c \in Callers, CommitFlush(c) \/ FailFlush(c) PROVE rows' \in {rows, Written(c)}
    BY <2>3 DEF CommitFlush, FailFlush
  <2>4. ASSUME NextMinute \/ AnswersChange \/ Restart \/ (\E failed \in {0, 1} : RecordRequest(failed))
                 \/ (\E v \in Views : StartView(v)) \/ MeasureSlos
                 \/ \E c \in Checks : Check(c) \/ FailCheck(c)
        PROVE  UNCHANGED rows
    BY <2>4 DEF NextMinute, AnswersChange, Restart, RecordRequest, StartView, MeasureSlos, Check, ReadOpen,
       OpenAlert, ClearAlert, EndCheck, FailCheck, metrics
  <2> QED BY <2>1, <2>2, <2>3, <2>4, WrittenTyped DEF HealthNext, FlushMetrics
<1> QED BY <1>1, MinutesInvariant, PTL DEF HealthSpec, RowsLeftAlone
-----------------------------------------------------------------------------
(* The alerts and the checks that keep them *)

Subjects == Windows \cup {Drift}
Alert == [key : Subjects, open : BOOLEAN, logged : {0, 1}, notified : {0, 1}, cleared : {0, 1}]

\* A check wants keys of its own ...
ChecksTyped == /\ drift \in BOOLEAN
               /\ wanted = [c \in Checks |-> wanted[c]] /\ \A c \in Checks : wanted[c] \subseteq Keys(c)
               /\ open = [c \in Checks |-> open[c]]
\* ... and knows only alerts there are.
KnownAlerts == \A c \in Checks : open[c] \subseteq 1 .. Len(alerts)
\* The unique index: of a key one alert is open.
OneOpen  == \A i, j \in 1 .. Len(alerts) :
              alerts[i].open /\ alerts[j].open /\ i # j => alerts[i].key # alerts[j].key
\* What is said of an alert when it opens is said then; that it has cleared is not said before.
SaidOnce == /\ alerts \in Seq(Alert)
            /\ \A i \in 1 .. Len(alerts) : alerts[i].open => alerts[i].cleared = 0
AlertsInv == ChecksTyped /\ KnownAlerts /\ OneOpen /\ SaidOnce

\* At first there is no alert.
LEMMA AlertsInvInit == HealthInit => AlertsInv
<1> SUFFICES ASSUME HealthInit PROVE AlertsInv  OBVIOUS
<1>1. ChecksTyped  BY DEF HealthInit, ChecksTyped
<1>2. KnownAlerts  BY DEF HealthInit, KnownAlerts
<1>3. alerts \in Seq(Alert) /\ Len(alerts) = 0  BY DEF HealthInit
<1>4. OneOpen /\ SaidOnce  BY <1>3 DEF OneOpen, SaidOnce
<1> QED BY <1>1, <1>2, <1>4 DEF AlertsInv

\* An alert is opened where none of its key is.
LEMMA OpenKeeps ==
  ASSUME OneOpen, SaidOnce, NEW c, NEW key \in Subjects, NEW said \in {0, 1, 2}, Open(c, key, said)
  PROVE  OneOpen' /\ SaidOnce' /\ Len(alerts) <= Len(alerts')
<1>1. CASE OpenAlerts({key}) # {}
  <2>1. alerts' = alerts /\ Len(alerts) \in Nat  BY <1>1, LenProperties DEF Open, SaidOnce
  <2> QED BY <2>1 DEF OneOpen, SaidOnce
<1>2. CASE OpenAlerts({key}) = {}
  <2> DEFINE new == New(key, said)
  <2>1. new \in Alert /\ new.cleared = 0 /\ new.key = key  BY DEF New, Alert
  <2>2. alerts' = Append(alerts, new)  BY <1>2 DEF Open
  <2>3. \A i \in 1 .. Len(alerts) : alerts[i].open => alerts[i].key # key  BY <1>2 DEF OpenAlerts
  <2> HIDE DEF new
  <2>4. /\ alerts' \in Seq(Alert) /\ Len(alerts') = Len(alerts) + 1 /\ Len(alerts) \in Nat
        /\ alerts'[Len(alerts) + 1] = new
        /\ \A i \in 1 .. Len(alerts) : alerts'[i] = alerts[i]
    BY <2>1, <2>2, AppendProperties, LenProperties DEF SaidOnce
  <2>5. SaidOnce'  BY <2>1, <2>4 DEF SaidOnce
  <2>6. OneOpen'
    <3> SUFFICES ASSUME NEW i \in 1 .. Len(alerts'), NEW j \in 1 .. Len(alerts'),
                        alerts'[i].open, alerts'[j].open, i # j
                 PROVE  alerts'[i].key # alerts'[j].key
      BY DEF OneOpen
    <3>1. CASE i \in 1 .. Len(alerts) /\ j \in 1 .. Len(alerts)  BY <2>4, <3>1 DEF OneOpen
    <3>2. CASE i = Len(alerts) + 1 /\ j \in 1 .. Len(alerts)
      <4>1. alerts'[i].key = key /\ alerts'[j].key # key  BY <2>1, <2>3, <2>4, <3>2
      <4> QED BY <4>1
    <3>3. CASE j = Len(alerts) + 1 /\ i \in 1 .. Len(alerts)
      <4>1. alerts'[j].key = key /\ alerts'[i].key # key  BY <2>1, <2>3, <2>4, <3>3
      <4> QED BY <4>1
    <3> QED BY <2>4, <3>1, <3>2, <3>3
  <2> QED BY <2>4, <2>5, <2>6
<1> QED BY <1>1, <1>2

\* An alert is cleared where it is open, and then it has not been said to be cleared.
LEMMA ClearKeeps ==
  ASSUME OneOpen, SaidOnce, NEW c, NEW i \in 1 .. Len(alerts), NEW said \in {0, 1}, Clear(c, i, said)
  PROVE  OneOpen' /\ SaidOnce' /\ Len(alerts) <= Len(alerts')
<1>0. Len(alerts) \in Nat /\ DOMAIN alerts = 1 .. Len(alerts) /\ \A j \in 1 .. Len(alerts) : alerts[j] \in Alert
  BY LenProperties DEF SaidOnce
<1>1. CASE ~alerts[i].open  BY <1>0, <1>1 DEF Clear, OneOpen, SaidOnce
<1>2. CASE alerts[i].open
  <2>1. alerts' = [alerts EXCEPT ![i] = Cleared(@, said)]  BY <1>2 DEF Clear
  <2>2. Cleared(alerts[i], said) \in Alert /\ Cleared(alerts[i], said).open = FALSE
    <3>1. alerts[i] \in Alert /\ alerts[i].cleared = 0  BY <1>0, <1>2 DEF SaidOnce
    <3>2. alerts[i].cleared + said \in {0, 1}  BY <3>1
    <3> QED BY <3>1, <3>2 DEF Cleared, Alert
  <2>3. alerts' \in Seq(Alert) /\ Len(alerts') = Len(alerts)
    BY <2>1, <2>2, ExceptSeq DEF SaidOnce
  <2>4. alerts'[i].open = FALSE /\ \A j \in 1 .. Len(alerts) : j # i => alerts'[j] = alerts[j]
    BY <1>0, <2>1, <2>2
  <2> QED BY <1>0, <2>3, <2>4 DEF OneOpen, SaidOnce
<1> QED BY <1>1, <1>2

\* The check takes a key, or an alert, from what it knows; or it is over.
LEMMA AlertsInvStep == AlertsInv /\ [HealthNext]_healthVars => AlertsInv'
<1> SUFFICES ASSUME AlertsInv, [HealthNext]_healthVars PROVE AlertsInv'
  OBVIOUS
<1> USE DEF AlertsInv
<1>0. Len(alerts) \in Nat  BY LenProperties DEF SaidOnce
<1>1. ASSUME UNCHANGED <<drift, sync>> PROVE AlertsInv'
  BY <1>1 DEF sync, ChecksTyped, KnownAlerts, OneOpen, SaidOnce
<1>2. CASE AnswersChange
  BY <1>2 DEF AnswersChange, sync, ChecksTyped, KnownAlerts, OneOpen, SaidOnce
<1>3. CASE Restart
  BY <1>3 DEF Restart, ChecksTyped, KnownAlerts, OneOpen, SaidOnce
<1>4. ASSUME NEW c \in Checks, Measured(c), UNCHANGED <<drift, alerts, open>> PROVE AlertsInv'
  <2>1. Wanted(c) \subseteq Keys(c)  BY DEF Wanted, Keys
  <2>2. ChecksTyped'  BY <1>4, <2>1 DEF Measured, ChecksTyped
  <2> QED BY <1>4, <2>2 DEF KnownAlerts, OneOpen, SaidOnce
<1>5. ASSUME NEW c \in Checks, ReadOpen(c) PROVE AlertsInv'
  BY <1>5 DEF ReadOpen, OpenAlerts, ChecksTyped, KnownAlerts, OneOpen, SaidOnce
<1>6. ASSUME NEW c \in Checks, NEW key \in ToOpen(c), NEW said \in {0, 1, 2}, Open(c, key, said)
      PROVE  OneOpen' /\ SaidOnce' /\ Len(alerts) <= Len(alerts')
  <2>1. key \in Subjects  BY <1>6 DEF ToOpen, ChecksTyped, Keys, Subjects
  <2> QED BY <1>6, <2>1, OpenKeeps
<1>7. ASSUME NEW c \in Checks, NEW i \in ToClear(c), NEW said \in {0, 1}, Clear(c, i, said)
      PROVE  OneOpen' /\ SaidOnce' /\ Len(alerts) <= Len(alerts')
  <2>1. i \in 1 .. Len(alerts)  BY <1>7 DEF ToClear, KnownAlerts
  <2> QED BY <1>7, <2>1, ClearKeeps
<1>8. ASSUME OneOpen', SaidOnce', Len(alerts) <= Len(alerts'), ChecksTyped',
             \A c \in Checks : open'[c] \subseteq open[c]
      PROVE  AlertsInv'
  <2>1. Len(alerts') \in Nat  BY <1>8, LenProperties DEF SaidOnce
  <2>2. 1 .. Len(alerts) \subseteq 1 .. Len(alerts')  BY <1>0, <1>8, <2>1
  <2>3. KnownAlerts'  BY <1>8, <2>2 DEF KnownAlerts
  <2> QED BY <1>8, <2>3
<1>9. ASSUME NEW c \in Checks, OpenAlert(c) PROVE AlertsInv'
  <2>1. PICK key \in ToOpen(c) : Open(c, key, 2) /\ Tried(c, key)  BY <1>9 DEF OpenAlert
  <2>2. ChecksTyped' /\ \A d \in Checks : open'[d] \subseteq open[d]
    BY <1>9, <2>1 DEF OpenAlert, Tried, ChecksTyped
  <2> QED BY <1>6, <1>8, <2>1, <2>2
<1>10. ASSUME NEW c \in Checks, ClearAlert(c) PROVE AlertsInv'
  <2>1. PICK i \in ToClear(c) : Clear(c, i, 1) /\ open' = [open EXCEPT ![c] = @ \ {i}]
    BY <1>10 DEF ClearAlert
  <2>2. ChecksTyped' /\ \A d \in Checks : open'[d] \subseteq open[d]
    BY <1>10, <2>1 DEF ClearAlert, ChecksTyped
  <2> QED BY <1>7, <1>8, <2>1, <2>2
<1>11. ASSUME NEW c \in Checks, Ended(c), UNCHANGED drift
       PROVE  ChecksTyped' /\ \A d \in Checks : open'[d] \subseteq open[d]
  BY <1>11 DEF Ended, ChecksTyped
<1>12. ASSUME UNCHANGED alerts PROVE OneOpen' /\ SaidOnce' /\ Len(alerts) <= Len(alerts')
  BY <1>0, <1>12 DEF OneOpen, SaidOnce
<1>13. ASSUME NEW c \in Checks, EndCheck(c) PROVE AlertsInv'
  BY <1>8, <1>11, <1>12, <1>13 DEF EndCheck
<1>14. ASSUME NEW c \in Checks, FailCheck(c) PROVE AlertsInv'
  <2>1. OneOpen' /\ SaidOnce' /\ Len(alerts) <= Len(alerts')
    <3>1. CASE UNCHANGED alerts  BY <1>12, <3>1
    <3>2. CASE \E key \in ToOpen(c), said \in {0, 1} : Open(c, key, said)  BY <1>6, <3>2
    <3>3. CASE \E i \in ToClear(c) : Clear(c, i, 0)  BY <1>7, <3>3
    <3> QED BY <1>14, <3>1, <3>2, <3>3 DEF FailCheck
  <2> QED BY <1>8, <1>11, <1>14, <2>1 DEF FailCheck
<1>15. ASSUME NEW c \in Callers, StartFlush(c) \/ FlushMetrics(c) \/ FailFlush(c) PROVE AlertsInv'
  BY <1>1, <1>15 DEF StartFlush, FlushMetrics, FailFlush, PendingRows, CommitFlush
<1>16. CASE NextMinute \/ (\E failed \in {0, 1} : RecordRequest(failed)) \/ UNCHANGED healthVars
  BY <1>1, <1>16 DEF NextMinute, RecordRequest, healthVars
<1>17. ASSUME NEW v \in Views, StartView(v) PROVE AlertsInv'
  BY <1>4, <1>17 DEF StartView, Checks
<1>18. CASE MeasureSlos
  BY <1>4, <1>18 DEF MeasureSlos, Checks
<1> QED BY <1>2, <1>3, <1>5, <1>9, <1>10, <1>13, <1>14, <1>15, <1>16, <1>17, <1>18
        DEF HealthNext, Check

\* However many checks act on what they read a while ago, each writes only what the index and the
\* condition of its UPDATE let it (syncSloAlerts, syncAlerts).
THEOREM AlertsInvariant == HealthSpec => []AlertsInv
  BY AlertsInvInit, AlertsInvStep, PTL DEF HealthSpec

\* Of a key at most one alert is open, and of an alert each thing is said at most once, for any
\* number of views and windows (sloService.ts, aiQualityService.ts).
THEOREM AlertedOnce == HealthSpec => []AlertsOnce
<1>1. AlertsInv => AlertsOnce
  <2> SUFFICES ASSUME AlertsInv PROVE AlertsOnce  OBVIOUS
  <2>1. \A i \in 1 .. Len(alerts) : alerts[i] \in Alert  BY DEF AlertsInv, SaidOnce
  <2> QED BY <2>1 DEF AlertsInv, OneOpen, AlertsOnce, Alert
<1> QED BY <1>1, AlertsInvariant, PTL

\* Every variable of the metrics and the alerts keeps its type.
THEOREM HealthTyped == HealthSpec => []HealthTypeOK
<1>1. MinutesInv /\ AlertsInv => HealthTypeOK
  <2> SUFFICES ASSUME MinutesInv, AlertsInv PROVE HealthTypeOK  OBVIOUS
  <2>1. \A c \in Callers : DOMAIN snapshot[c] \subseteq Minute /\ closed[c] \subseteq Minute
    <3> SUFFICES ASSUME NEW c \in Callers PROVE DOMAIN snapshot[c] \subseteq Minute
      BY DEF MinutesInv, MinutesTyped
    <3>1. CASE snapshot[c] = <<>>
      <4>1. DOMAIN snapshot[c] = {}  BY <3>1
      <4> QED BY <4>1
    <3>2. CASE snapshot[c] # <<>>  BY <3>2 DEF MinutesInv, MinutesTyped, TurnHeld
    <3> QED BY <3>1, <3>2
  <2>2. \A c \in Checks : wanted[c] \subseteq Keys(c) /\ open[c] \subseteq Nat
    <3>1. Len(alerts) \in Nat  BY LenProperties DEF AlertsInv, SaidOnce
    <3> QED BY <3>1 DEF AlertsInv, ChecksTyped, KnownAlerts
  <2>3. alerts \in Seq([key : Windows \cup {Drift}, open : BOOLEAN, logged : Nat, notified : Nat,
                        cleared : Nat])
    <3> DEFINE Wide == [key : Windows \cup {Drift}, open : BOOLEAN, logged : Nat, notified : Nat,
                        cleared : Nat]
    <3>1. Alert \subseteq Wide  BY DEF Alert, Subjects
    <3> HIDE DEF Wide
    <3>2. alerts \in Seq(Wide)  BY <3>1 DEF AlertsInv, SaidOnce
    <3> QED BY <3>2 DEF Wide
  <2> QED BY <2>1, <2>2, <2>3 DEF MinutesInv, MinutesTyped, AlertsInv, ChecksTyped, HealthTypeOK, Counts
<1> QED BY <1>1, MinutesInvariant, AlertsInvariant, PTL

\* An alert that has been cleared stays as it is, and none is lost: a later breach opens another
\* (the UPDATE ... WHERE cleared_at IS NULL).
ClearedStays == [][\A i \in 1 .. Len(alerts) : /\ i \in 1 .. Len(alerts')
                                               /\ ~alerts[i].open => alerts'[i] = alerts[i]]_healthVars

\* No check, however stale what it read, reopens or clears again an alert that has been cleared.
THEOREM ClearedIsFinal == HealthSpec => ClearedStays
<1> DEFINE Final == \A i \in 1 .. Len(alerts) : /\ i \in 1 .. Len(alerts')
                                                /\ ~alerts[i].open => alerts'[i] = alerts[i]
<1>1. AlertsInv /\ [HealthNext]_healthVars => [Final]_healthVars
  <2> SUFFICES ASSUME AlertsInv, HealthNext PROVE Final  OBVIOUS
  <2>0. /\ Len(alerts) \in Nat /\ DOMAIN alerts = 1 .. Len(alerts)
        /\ alerts \in Seq(Alert) /\ \A i \in 1 .. Len(alerts) : alerts[i] \in Alert
    BY LenProperties DEF AlertsInv, SaidOnce
  <2>1. ASSUME UNCHANGED alerts PROVE Final  BY <2>0, <2>1
  <2>2. ASSUME NEW c \in Checks, NEW key \in ToOpen(c), NEW said \in {0, 1, 2}, Open(c, key, said)
        PROVE  Final
    <3> DEFINE new == New(key, said)
    <3>1. key \in Subjects  BY <2>2 DEF AlertsInv, ToOpen, ChecksTyped, Keys, Subjects
    <3>2. new \in Alert  BY <3>1 DEF New, Alert
    <3> HIDE DEF new
    <3>3. CASE alerts' = Append(alerts, new)
      <4>1. Len(alerts') = Len(alerts) + 1 /\ \A i \in 1 .. Len(alerts) : alerts'[i] = alerts[i]
        BY <2>0, <3>2, <3>3, AppendProperties
      <4> QED BY <2>0, <4>1
    <3> QED BY <2>1, <2>2, <3>3 DEF Open, new
  <2>3. ASSUME NEW c \in Checks, NEW i \in ToClear(c), NEW said \in {0, 1}, Clear(c, i, said)
        PROVE  Final
    <3>1. i \in 1 .. Len(alerts)  BY <2>3 DEF AlertsInv, ToClear, KnownAlerts
    <3>2. Len(alerts') = Len(alerts) /\ DOMAIN alerts' = DOMAIN alerts
      <4>1. CASE alerts[i].open
        <5>1. alerts[i].cleared = 0 /\ alerts[i] \in Alert  BY <2>0, <3>1, <4>1 DEF AlertsInv, SaidOnce
        <5>2. alerts[i].cleared + said \in {0, 1}  BY <5>1
        <5>3. Cleared(alerts[i], said) \in Alert  BY <5>1, <5>2 DEF Cleared, Alert
        <5>4. alerts' = [alerts EXCEPT ![i] = Cleared(alerts[i], said)]  BY <2>3, <4>1 DEF Clear
        <5> QED BY <2>0, <3>1, <5>3, <5>4, ExceptSeq
      <4> QED BY <2>3, <4>1 DEF Clear
    <3>3. \A j \in 1 .. Len(alerts) : ~alerts[j].open => alerts'[j] = alerts[j]
      BY <2>0, <2>3, <3>1 DEF Clear
    <3> QED BY <2>0, <3>2, <3>3
  <2>4. ASSUME NEW c \in Checks, Check(c) \/ FailCheck(c) PROVE Final
    BY <2>1, <2>2, <2>3, <2>4 DEF Check, ReadOpen, OpenAlert, ClearAlert, EndCheck, FailCheck
  <2>5. ASSUME NextMinute \/ AnswersChange \/ Restart \/ (\E failed \in {0, 1} : RecordRequest(failed))
                 \/ (\E v \in Views : StartView(v)) \/ MeasureSlos
                 \/ \E c \in Callers : StartFlush(c) \/ PendingRows(c) \/ CommitFlush(c) \/ FailFlush(c)
        PROVE  UNCHANGED alerts
    BY <2>5 DEF NextMinute, AnswersChange, Restart, RecordRequest, StartView, MeasureSlos, StartFlush,
       PendingRows, CommitFlush, FailFlush, sync
  <2> QED BY <2>1, <2>4, <2>5 DEF HealthNext, FlushMetrics
<1> QED BY <1>1, AlertsInvariant, PTL DEF HealthSpec, ClearedStays
=============================================================================
