------------------------------- MODULE Ledger -------------------------------
(***************************************************************************)
(* The accounting ledger (ledger.rs): calls of record_once made by         *)
(* handlers that run at the same time, for the same or for different       *)
(* channels, one datastore operation per step.                             *)
(***************************************************************************)
EXTENDS Datastore

CONSTANTS
    Calls,     \* calls of record_ledger_once made by the handlers
    EventIds,  \* event ids: peer, counters, kind of event, HTLC
    EventId    \* the id each call is made with

ASSUME EventAssumption == EventId \in [Calls -> EventIds]

VARIABLES
    meta,      \* datastore canopus/meta: next_ledger_seq, under the key "meta"
    ledger,    \* datastore canopus/ledger, by sequence number
    markers,   \* datastore canopus/ledger_event_ids, by event id
    pc,        \* what each call does next
    seen       \* the next_ledger_seq and the generation it has read

vars == <<meta, ledger, markers, pc, seen>>

Running == {"read", "create", "bump", "append", "mark"}

Init ==
    /\ meta = Empty /\ ledger = Empty /\ markers = Empty
    /\ pc = [c \in Calls |-> "idle"]
    /\ seen = [c \in Calls |-> [seq |-> 0, generation |-> 0]]

Goto(c, l) == pc' = [pc EXCEPT ![c] = l]

\* Mutant: the marker is not looked up.
CheckNothing(c) ==
    /\ pc[c] = "idle" /\ Goto(c, "read")
    /\ UNCHANGED <<meta, ledger, markers, seen>>

\* record_once: an event whose marker exists is not recorded again.
CheckMarker(c) ==
    /\ pc[c] = "idle"
    /\ Goto(c, IF Has(markers, EventId[c]) THEN "done" ELSE "read")
    /\ UNCHANGED <<meta, ledger, markers, seen>>

\* record_inner reads the counter, which may not exist yet.
ReadMeta(c) ==
    /\ pc[c] = "read"
    /\ \/ /\ Has(meta, "meta")
          /\ seen' = [seen EXCEPT ![c] = [seq |-> meta["meta"].value,
                                          generation |-> meta["meta"].generation]]
          /\ Goto(c, "bump")
       \/ ~Has(meta, "meta") /\ Goto(c, "create") /\ UNCHANGED seen
    /\ UNCHANGED <<meta, ledger, markers>>

CreateMeta(c) ==
    /\ pc[c] = "create"
    /\ \/ /\ ~Has(meta, "meta")
          /\ meta' = Created(meta, "meta", 0)
          /\ seen' = [seen EXCEPT ![c] = [seq |-> 0, generation |-> 0]]
          /\ Goto(c, "bump")
       \/ Has(meta, "meta") /\ Goto(c, "failed") /\ UNCHANGED <<meta, seen>>
    /\ UNCHANGED <<ledger, markers>>

\* Compare-and-swap of the counter: the loser's handler gives up.
BumpSeq(c) ==
    /\ pc[c] = "bump"
    /\ \/ /\ Matches(meta, "meta", seen[c].generation)
          /\ meta' = Updated(meta, "meta", seen[c].seq + 1)
          /\ Goto(c, "append")
       \/ ~Matches(meta, "meta", seen[c].generation) /\ Goto(c, "failed") /\ UNCHANGED meta
    /\ UNCHANGED <<ledger, markers, seen>>

\* Mutant: a failed append is taken for a recorded event.
AppendUnchecked(c) ==
    /\ pc[c] = "append"
    /\ \/ ledger' = Created(ledger, seen[c].seq, EventId[c])
       \/ ledger' = ledger
    /\ Goto(c, "mark")
    /\ UNCHANGED <<meta, markers, seen>>

AppendEvent(c) ==
    /\ pc[c] = "append"
    /\ IF Has(ledger, seen[c].seq)
       THEN Goto(c, "failed") /\ UNCHANGED ledger
       ELSE Goto(c, "mark") /\ ledger' = Created(ledger, seen[c].seq, EventId[c])
    /\ UNCHANGED <<meta, markers, seen>>

\* A marker that another call has created meanwhile is as good.
CreateMarker(c) ==
    /\ pc[c] = "mark"
    /\ markers' = IF Has(markers, EventId[c]) THEN markers
                  ELSE Created(markers, EventId[c], TRUE)
    /\ Goto(c, "done")
    /\ UNCHANGED <<meta, ledger, seen>>

\* The plugin stops: the calls under way are lost, the datastore stays.
Crash ==
    /\ \E c \in Calls : pc[c] \in Running
    /\ pc' = [c \in Calls |-> IF pc[c] \in Running THEN "failed" ELSE pc[c]]
    /\ UNCHANGED <<meta, ledger, markers, seen>>

Step(c) ==
    \/ CheckMarker(c) \/ ReadMeta(c) \/ CreateMeta(c)
    \/ BumpSeq(c) \/ AppendEvent(c) \/ CreateMarker(c)

Next == Crash \/ \E c \in Calls : Step(c)

Spec == Init /\ [][Next]_vars

-----------------------------------------------------------------------------
(* Properties                                                              *)

TypeOK ==
    /\ DOMAIN meta \subseteq {"meta"}
    /\ \A k \in DOMAIN meta : meta[k] \in [generation : Nat, value : Nat]
    /\ DOMAIN ledger \subseteq Nat
    /\ \A s \in DOMAIN ledger : ledger[s] \in [generation : {0}, value : EventIds]
    /\ DOMAIN markers \subseteq EventIds
    /\ pc \in [Calls -> Running \cup {"idle", "done", "failed"}]
    /\ seen \in [Calls -> [seq : Nat, generation : Nat]]

\* The number a call has drawn is its own: no event has it, no other call holds
\* it and the counter is past it, so that create_json of the event cannot meet
\* an existing key and no event is lost that way, whatever calls and crashes
\* come in between.
SeqsAreFresh ==
    \A c \in Calls : pc[c] = "append" =>
       /\ Has(meta, "meta") /\ seen[c].seq < meta["meta"].value
       /\ ~Has(ledger, seen[c].seq)
       /\ \A d \in Calls \ {c} : pc[d] = "append" => seen[d].seq # seen[c].seq

\* A marker stands for an event in the ledger: after a crash at any point an
\* event may be recorded again, but none is taken for recorded that is not.
MarkedIsRecorded ==
    \A e \in DOMAIN markers : \E s \in DOMAIN ledger : ledger[s].value = e

Stage(l) ==
    CASE l = "idle" -> "idle"
      [] l \in {"read", "create", "bump", "append"} -> "begun"
      [] l = "mark" -> "recorded"
      [] l \in {"done", "failed"} -> "ended"

Promise == INSTANCE Journal
           WITH log <- [s \in DOMAIN ledger |-> ledger[s].value],
                closed <- DOMAIN markers,
                stage <- [c \in Calls |-> Stage(pc[c])]

\* The separate operations of record_once, interleaved with those of other calls and
\* cut short anywhere, amount to the log of Journal.tla: a call adds its event under a
\* number that was free or leaves the log as it is, no event is overwritten, and a
\* call that begins after its event was marked adds nothing.
KeepsJournal == Promise!Spec
=============================================================================
