---------------------------- MODULE LedgerProofs ----------------------------
(***************************************************************************)
(* Theorems about the ledger, for any calls, event ids and crashes.        *)
(***************************************************************************)
EXTENDS Ledger, TLAPS

\* The counter is past every number in the ledger, and a call that holds the
\* counter's generation holds its value: the swap draws each number once.
CounterInv ==
    /\ \A s \in DOMAIN ledger : Has(meta, "meta") /\ s < meta["meta"].value
    /\ \A c \in Calls : pc[c] = "bump" =>
          /\ Has(meta, "meta") /\ seen[c].generation <= meta["meta"].generation
          /\ seen[c].generation = meta["meta"].generation => seen[c].seq = meta["meta"].value

Recorded(e) == \E s \in DOMAIN ledger : ledger[s].value = e

\* A call about to write its marker has recorded its event.
MarkInv == \A c \in Calls : pc[c] = "mark" => Recorded(EventId[c])

LedgerInv == TypeOK /\ CounterInv /\ SeqsAreFresh /\ MarkInv /\ MarkedIsRecorded

\* The steps of a call that change nothing in the datastore.
LEMMA QuietCall ==
    ASSUME LedgerInv, NEW c \in Calls,
           UNCHANGED <<meta, ledger, markers>>,
           seen' \in [Calls -> [seq : Nat, generation : Nat]],
           \A d \in Calls \ {c} : seen'[d] = seen[d],
           NEW l \in {"done", "failed", "read", "create", "bump"},
           pc' = [pc EXCEPT ![c] = l],
           l = "bump" => /\ Has(meta, "meta")
                         /\ seen'[c].generation = meta["meta"].generation
                         /\ seen'[c].seq = meta["meta"].value
    PROVE  LedgerInv'
<1> USE DEF LedgerInv
<1>1. TypeOK'
  BY Zenon DEF TypeOK, Running
<1>2. pc'[c] = l /\ \A d \in Calls \ {c} : pc'[d] = pc[d]
  BY Zenon DEF TypeOK
<1>3. Has(meta, "meta") => meta["meta"] \in [generation : Nat, value : Nat]
  BY Zenon DEF TypeOK, Has
<1>4. CounterInv'
  BY <1>2, <1>3 DEF CounterInv, Has
<1>5. SeqsAreFresh'
  BY <1>2 DEF SeqsAreFresh, Has
<1>6. MarkInv' /\ MarkedIsRecorded'
  BY Zenon, <1>2 DEF MarkInv, MarkedIsRecorded, Recorded
<1> QED
  BY Zenon, <1>1, <1>4, <1>5, <1>6

\* The counter is created only while nothing depends on it.
LEMMA CreateMetaStep ==
    ASSUME LedgerInv, NEW c \in Calls, CreateMeta(c), ~Has(meta, "meta")
    PROVE  LedgerInv'
<1> USE DEF LedgerInv
<1>1. /\ pc' = [pc EXCEPT ![c] = "bump"] /\ meta' = Created(meta, "meta", 0)
      /\ seen' = [seen EXCEPT ![c] = [seq |-> 0, generation |-> 0]]
      /\ UNCHANGED <<ledger, markers>>
  BY Zenon DEF CreateMeta, Goto
<1>2. /\ Has(meta, "meta")' /\ DOMAIN meta' \subseteq {"meta"}
      /\ meta'["meta"] = [generation |-> 0, value |-> 0]
  BY Zenon, <1>1 DEF Created, Has, Entry, TypeOK
<1>3. /\ pc'[c] = "bump" /\ seen'[c] = [seq |-> 0, generation |-> 0]
      /\ \A d \in Calls \ {c} : pc'[d] = pc[d] /\ seen'[d] = seen[d]
  BY Zenon, <1>1 DEF TypeOK
<1>4. TypeOK'
  BY <1>1, <1>2 DEF TypeOK, Running
<1>5. CounterInv'
  BY <1>1, <1>2, <1>3 DEF CounterInv
<1>6. SeqsAreFresh'
  BY Zenon, <1>3 DEF SeqsAreFresh
<1>7. MarkInv' /\ MarkedIsRecorded'
  BY Zenon, <1>1, <1>3 DEF MarkInv, MarkedIsRecorded, Recorded
<1> QED
  BY Zenon, <1>4, <1>5, <1>6, <1>7

\* The winner of the swap draws the counter's value, which no one else has.
LEMMA BumpSeqStep ==
    ASSUME LedgerInv, NEW c \in Calls, BumpSeq(c),
           Matches(meta, "meta", seen[c].generation)
    PROVE  LedgerInv'
<1> USE DEF LedgerInv
<1>1. /\ pc' = [pc EXCEPT ![c] = "append"]
      /\ meta' = Updated(meta, "meta", seen[c].seq + 1)
      /\ UNCHANGED <<ledger, markers, seen>> /\ pc[c] = "bump"
  BY Zenon DEF BumpSeq, Goto
<1>2. /\ Has(meta, "meta") /\ meta["meta"] \in [generation : Nat, value : Nat]
      /\ seen[c] \in [seq : Nat, generation : Nat]
      /\ meta["meta"].generation = seen[c].generation /\ meta["meta"].value = seen[c].seq
  BY Zenon, <1>1 DEF TypeOK, Matches, Has, CounterInv
<1>3. /\ Has(meta, "meta")' /\ DOMAIN meta' = DOMAIN meta
      /\ meta'["meta"] = [generation |-> meta["meta"].generation + 1,
                          value |-> meta["meta"].value + 1]
  BY Zenon, <1>1, <1>2 DEF Updated, Has, Entry
<1>4. pc'[c] = "append" /\ \A d \in Calls \ {c} : pc'[d] = pc[d]
  BY Zenon, <1>1 DEF TypeOK
<1>5. TypeOK'
  BY <1>1, <1>2, <1>3 DEF TypeOK, Running
<1>6. CounterInv'
  <2>1. \A s \in DOMAIN ledger : s \in Nat
    BY Zenon DEF TypeOK
  <2>2. \A d \in Calls : seen[d] \in [seq : Nat, generation : Nat]
    BY Zenon DEF TypeOK
  <2> QED
    BY <1>1, <1>2, <1>3, <1>4, <2>1, <2>2 DEF CounterInv
<1>7. SeqsAreFresh'
  <2>1. ~Has(ledger, seen[c].seq)
    BY <1>2 DEF CounterInv, Has
  <2>2. \A d \in Calls \ {c} : pc[d] = "append" => seen[d].seq < seen[c].seq
    BY Zenon, <1>2 DEF SeqsAreFresh
  <2>3. \A d \in Calls : seen[d].seq \in Nat
    BY Zenon DEF TypeOK
  <2> QED
    BY <1>1, <1>2, <1>3, <1>4, <2>1, <2>2, <2>3 DEF SeqsAreFresh, Has
<1>8. MarkInv' /\ MarkedIsRecorded'
  BY Zenon, <1>1, <1>4 DEF MarkInv, MarkedIsRecorded, Recorded
<1> QED
  BY Zenon, <1>5, <1>6, <1>7, <1>8

\* The event goes to a number that is free.
LEMMA AppendEventStep ==
    ASSUME LedgerInv, NEW c \in Calls, AppendEvent(c)
    PROVE  LedgerInv'
<1> USE DEF LedgerInv
<1>1. /\ pc[c] = "append" /\ ~Has(ledger, seen[c].seq)
      /\ Has(meta, "meta") /\ seen[c].seq < meta["meta"].value
  BY Zenon DEF AppendEvent, SeqsAreFresh
<1>2. /\ pc' = [pc EXCEPT ![c] = "mark"]
      /\ ledger' = Created(ledger, seen[c].seq, EventId[c])
      /\ UNCHANGED <<meta, markers, seen>>
  BY Zenon, <1>1 DEF AppendEvent, Goto
<1>3. /\ DOMAIN ledger' = DOMAIN ledger \cup {seen[c].seq}
      /\ ledger'[seen[c].seq] = Entry(0, EventId[c])
      /\ \A s \in DOMAIN ledger : ledger'[s] = ledger[s]
  BY Zenon, <1>1, <1>2 DEF Created, Has
<1>4. pc'[c] = "mark" /\ \A d \in Calls \ {c} : pc'[d] = pc[d]
  BY Zenon, <1>2 DEF TypeOK
<1>5. TypeOK'
  <2>1. seen[c].seq \in Nat /\ EventId[c] \in EventIds
    BY Zenon, EventAssumption DEF TypeOK
  <2>2. Entry(0, EventId[c]) \in [generation : {0}, value : EventIds]
    BY Zenon, <2>1 DEF Entry
  <2>3. /\ DOMAIN ledger' \subseteq Nat
        /\ \A s \in DOMAIN ledger' : ledger'[s] \in [generation : {0}, value : EventIds]
    BY Zenon, <1>3, <2>1, <2>2 DEF TypeOK
  <2> QED
    BY Zenon, <1>2, <2>3 DEF TypeOK, Running
<1>6. CounterInv'
  BY Zenon, <1>1, <1>2, <1>3, <1>4 DEF CounterInv
<1>7. SeqsAreFresh'
  BY Zenon, <1>1, <1>2, <1>3, <1>4 DEF SeqsAreFresh, Has
<1>8. MarkInv' /\ MarkedIsRecorded'
  <2>1. \A e : Recorded(e) => Recorded(e)'
    BY Zenon, <1>3 DEF Recorded
  <2>2. Recorded(EventId[c])'
    BY <1>2, <1>3 DEF Recorded, Entry
  <2> QED
    BY Zenon, <1>2, <1>4, <2>1, <2>2 DEF MarkInv, MarkedIsRecorded, Recorded
<1> QED
  BY Zenon, <1>5, <1>6, <1>7, <1>8

LEMMA CreateMarkerStep ==
    ASSUME LedgerInv, NEW c \in Calls, CreateMarker(c)
    PROVE  LedgerInv'
<1> USE DEF LedgerInv
<1>1. /\ pc[c] = "mark" /\ pc' = [pc EXCEPT ![c] = "done"]
      /\ UNCHANGED <<meta, ledger, seen>>
      /\ DOMAIN markers' = DOMAIN markers \cup {EventId[c]}
  BY Zenon DEF CreateMarker, Goto, Created, Has
<1>2. pc'[c] = "done" /\ \A d \in Calls \ {c} : pc'[d] = pc[d]
  BY Zenon, <1>1 DEF TypeOK
<1>3. TypeOK'
  <2>1. EventId[c] \in EventIds
    BY Zenon, EventAssumption
  <2>2. pc' \in [Calls -> Running \cup {"idle", "done", "failed"}]
    BY Zenon, <1>1 DEF TypeOK
  <2> QED
    BY Zenon, <1>1, <2>1, <2>2 DEF TypeOK
<1>4. CounterInv'
  BY Zenon, <1>1, <1>2 DEF CounterInv
<1>5. SeqsAreFresh'
  BY Zenon, <1>1, <1>2 DEF SeqsAreFresh
<1>6. MarkInv' /\ MarkedIsRecorded'
  BY Zenon, <1>1, <1>2 DEF MarkInv, MarkedIsRecorded, Recorded
<1> QED
  BY Zenon, <1>3, <1>4, <1>5, <1>6

LEMMA CrashStep ==
    ASSUME LedgerInv, Crash
    PROVE  LedgerInv'
<1> USE DEF LedgerInv
<1>1. /\ UNCHANGED <<meta, ledger, markers, seen>>
      /\ pc' \in [Calls -> Running \cup {"idle", "done", "failed"}]
      /\ \A d \in Calls : pc'[d] \notin Running
  BY Zenon DEF Crash, TypeOK, Running
<1>2. TypeOK'
  BY Zenon, <1>1 DEF TypeOK
<1>3. CounterInv' /\ SeqsAreFresh'
  BY Zenon, <1>1 DEF CounterInv, SeqsAreFresh, Running
<1>4. MarkInv' /\ MarkedIsRecorded'
  BY Zenon, <1>1 DEF MarkInv, MarkedIsRecorded, Running
<1> QED
  BY Zenon, <1>2, <1>3, <1>4

LEMMA LedgerInvInit == Init => LedgerInv
BY DEF Init, Empty, LedgerInv, TypeOK, CounterInv, SeqsAreFresh, MarkInv, MarkedIsRecorded,
       Has, Running

LEMMA LedgerInvNext == LedgerInv /\ [Next]_vars => LedgerInv'
<1> SUFFICES ASSUME LedgerInv, [Next]_vars PROVE LedgerInv'
  OBVIOUS
<1> USE DEF LedgerInv
<1>1. CASE UNCHANGED vars
  BY Zenon, <1>1 DEF vars, TypeOK, CounterInv, SeqsAreFresh, MarkInv, MarkedIsRecorded, Recorded, Has
<1>2. ASSUME NEW c \in Calls, CheckMarker(c) PROVE LedgerInv'
  BY Zenon, <1>2, QuietCall DEF CheckMarker, Goto, TypeOK
<1>3. ASSUME NEW c \in Calls, ReadMeta(c) PROVE LedgerInv'
  <2>1. CASE ~Has(meta, "meta")
    BY Zenon, <1>3, <2>1, QuietCall DEF ReadMeta, Goto, TypeOK
  <2>2. CASE Has(meta, "meta")
    <3>1. meta["meta"] \in [generation : Nat, value : Nat]
      BY Zenon, <2>2 DEF TypeOK, Has
    <3> QED
      BY <1>3, <2>2, <3>1, QuietCall DEF ReadMeta, Goto, TypeOK
  <2> QED
    BY Zenon, <2>1, <2>2
<1>4. ASSUME NEW c \in Calls, CreateMeta(c) PROVE LedgerInv'
  <2>1. CASE Has(meta, "meta")
    BY <1>4, <2>1, QuietCall DEF CreateMeta, Goto, TypeOK
  <2> QED
    BY Zenon, <1>4, <2>1, CreateMetaStep
<1>5. ASSUME NEW c \in Calls, BumpSeq(c) PROVE LedgerInv'
  <2>1. CASE ~Matches(meta, "meta", seen[c].generation)
    BY Zenon, <1>5, <2>1, QuietCall DEF BumpSeq, Goto, TypeOK
  <2> QED
    BY Zenon, <1>5, <2>1, BumpSeqStep
<1> QED
  BY Zenon, <1>1, <1>2, <1>3, <1>4, <1>5, AppendEventStep, CreateMarkerStep, CrashStep DEF Next, Step

LEMMA LedgerInvariant == Spec => []LedgerInv
BY LedgerInvInit, LedgerInvNext, PTL DEF Spec

\* Every number the ledger draws is used by one call only, and its event's key is
\* free (record_inner).
THEOREM SeqsStayFresh == Spec => []SeqsAreFresh
BY LedgerInvariant, PTL DEF LedgerInv

\* A marker is never ahead of its event, whatever calls are cut short
\* (record_once).
THEOREM MarkersAreHonest == Spec => []MarkedIsRecorded
BY LedgerInvariant, PTL DEF LedgerInv

-----------------------------------------------------------------------------
(* The ledger implements Journal.tla                                       *)

LEMMA JournalInit == Init => Promise!Init
BY Zenon DEF Init, Promise!Init, Empty, Stage

\* A step that leaves the events and the markers alone moves stages only.
LEMMA StageMoves ==
    ASSUME TypeOK, NEW c \in Calls, NEW l, Goto(c, l)
    PROVE  [d \in Calls |-> Stage(pc'[d])]
             = [[d \in Calls |-> Stage(pc[d])] EXCEPT ![c] = Stage(l)]
BY Zenon DEF TypeOK, Goto

\* Between the look at the marker and the event a call has only begun, so that every
\* step of it is a stutter or gives up.
LEMMA BegunStep ==
    ASSUME TypeOK, NEW c \in Calls, pc[c] \in {"read", "create", "bump", "append"},
           NEW l \in {"read", "create", "bump", "append", "failed"}, Goto(c, l),
           UNCHANGED <<ledger, markers>>
    PROVE  [Promise!Next]_(Promise!vars)
<1>1. [d \in Calls |-> Stage(pc'[d])] = [[d \in Calls |-> Stage(pc[d])] EXCEPT ![c] = Stage(l)]
  BY Zenon, StageMoves
<1>2. Stage(pc[c]) = "begun"
  BY Zenon DEF Stage
<1>3. CASE l = "failed"
  <2>1. Stage(l) = "ended"
    BY Zenon, <1>3 DEF Stage
  <2>2. Promise!GiveUp({c})
    BY Zenon, <1>1, <1>2, <2>1 DEF Promise!GiveUp
  <2> QED
    BY Zenon, <2>2 DEF Promise!Next
<1>4. CASE l # "failed"
  <2>1. Stage(l) = "begun"
    BY Zenon, <1>4 DEF Stage
  <2>2. [d \in Calls |-> Stage(pc'[d])] = [d \in Calls |-> Stage(pc[d])]
    BY Zenon, <1>1, <1>2, <2>1
  <2> QED
    BY Zenon, <2>2 DEF Promise!vars
<1> QED
  BY Zenon, <1>3, <1>4

\* Every step of a call or of the plugin is a step of Journal.tla or none.
LEMMA JournalNext == LedgerInv /\ [Next]_vars => [Promise!Next]_(Promise!vars)
<1> SUFFICES ASSUME LedgerInv, [Next]_vars PROVE [Promise!Next]_(Promise!vars)
  OBVIOUS
<1>0. TypeOK
  BY Zenon DEF LedgerInv
<1>1. CASE UNCHANGED vars
  BY Zenon, <1>1 DEF vars, Promise!vars
<1>2. ASSUME NEW c \in Calls, CheckMarker(c) PROVE [Promise!Next]_(Promise!vars)
  <2>1. [d \in Calls |-> Stage(pc'[d])]
           = [[d \in Calls |-> Stage(pc[d])] EXCEPT
                ![c] = IF EventId[c] \in DOMAIN markers THEN "ended" ELSE "begun"]
    BY Zenon, <1>0, <1>2, StageMoves DEF CheckMarker, Has, Stage
  <2>2. Stage(pc[c]) = "idle"
    BY Zenon, <1>2 DEF CheckMarker, Stage
  <2>3. Promise!Begin(c)
    BY Zenon, <1>2, <2>1, <2>2 DEF CheckMarker, Promise!Begin
  <2> QED
    BY Zenon, <2>3 DEF Promise!Next
<1>3. ASSUME NEW c \in Calls, ReadMeta(c) \/ CreateMeta(c) \/ BumpSeq(c)
      PROVE  [Promise!Next]_(Promise!vars)
  BY Zenon, <1>0, <1>3, BegunStep DEF ReadMeta, CreateMeta, BumpSeq
<1>4. ASSUME NEW c \in Calls, AppendEvent(c) PROVE [Promise!Next]_(Promise!vars)
  <2>1. pc[c] = "append" /\ ~Has(ledger, seen[c].seq)
    BY Zenon, <1>4 DEF AppendEvent, LedgerInv, SeqsAreFresh
  <2>2. /\ Goto(c, "mark") /\ UNCHANGED markers
        /\ ledger' = Created(ledger, seen[c].seq, EventId[c])
    BY Zenon, <1>4, <2>1 DEF AppendEvent
  <2>3. /\ Stage(pc[c]) = "begun"
        /\ [d \in Calls |-> Stage(pc'[d])]
             = [[d \in Calls |-> Stage(pc[d])] EXCEPT ![c] = "recorded"]
    BY Zenon, <1>0, <2>1, <2>2, StageMoves DEF Stage
  <2> DEFINE n == seen[c].seq
             old == [s \in DOMAIN ledger |-> ledger[s].value]
             new == [s \in DOMAIN ledger' |-> ledger'[s].value]
  <2>4. n \in DOMAIN new \ DOMAIN old
    BY Zenon, <2>1, <2>2 DEF Created, Has
  <2>5. new = [x \in DOMAIN old \cup {n} |-> IF x = n THEN EventId[c] ELSE old[x]]
    BY Zenon, <2>1, <2>2 DEF Created, Has, Entry
  <2>6. Promise!Record(c)
    BY Zenon, <2>2, <2>3, <2>4, <2>5 DEF Promise!Record
  <2> QED
    BY Zenon, <2>6 DEF Promise!Next
<1>5. ASSUME NEW c \in Calls, CreateMarker(c) PROVE [Promise!Next]_(Promise!vars)
  <2>1. /\ Goto(c, "done") /\ UNCHANGED ledger /\ pc[c] = "mark"
        /\ DOMAIN markers' = DOMAIN markers \cup {EventId[c]}
    BY Zenon, <1>5 DEF CreateMarker, Created, Has
  <2>2. /\ Stage(pc[c]) = "recorded"
        /\ [d \in Calls |-> Stage(pc'[d])]
             = [[d \in Calls |-> Stage(pc[d])] EXCEPT ![c] = "ended"]
    BY Zenon, <1>0, <2>1, StageMoves DEF Stage
  <2>3. Promise!Close(c)
    BY Zenon, <2>1, <2>2 DEF Promise!Close
  <2> QED
    BY Zenon, <2>3 DEF Promise!Next
<1>6. ASSUME Crash PROVE [Promise!Next]_(Promise!vars)
  <2> DEFINE cs == {d \in Calls : pc[d] \in Running}
  <2>1. \A d \in cs : Stage(pc[d]) \in {"begun", "recorded"}
    BY Zenon DEF Running, Stage
  <2>2. \A d \in Calls : Stage(pc'[d]) = IF d \in cs THEN "ended" ELSE Stage(pc[d])
    <3>1. Stage("failed") = "ended"
      BY Zenon DEF Stage
    <3>2. \A d \in Calls : pc'[d] = IF d \in cs THEN "failed" ELSE pc[d]
      BY Zenon, <1>6 DEF Crash
    <3> QED
      BY Zenon, <3>1, <3>2
  <2>3. Promise!GiveUp(cs)
    BY Zenon, <1>6, <2>1, <2>2 DEF Crash, Promise!GiveUp
  <2> QED
    BY Zenon, <2>3 DEF Promise!Next
<1> QED
  BY Zenon, <1>1, <1>2, <1>3, <1>4, <1>5, <1>6 DEF Next, Step

\* Whatever calls of record_once interleave and wherever they are cut short, the
\* ledger is a log that each call adds to at most once, under a free number, and not
\* at all once its event is marked (record_once, record_inner).
THEOREM LedgerKeepsJournal == Spec => KeepsJournal
<1>1. Init => Promise!Init
  BY Zenon, JournalInit
<1>2. LedgerInv /\ [Next]_vars => [Promise!Next]_(Promise!vars)
  BY Zenon, JournalNext
<1> QED
  BY <1>1, <1>2, LedgerInvariant, PTL DEF Spec, KeepsJournal, Promise!Spec
=============================================================================
