------------------------- MODULE ProvisioningProofs -------------------------
(***************************************************************************)
(* Theorems about provisioning, for any peers, secrets, handler calls and  *)
(* capacities.                                                             *)
(***************************************************************************)
EXTENDS Provisioning, FiniteSetTheorems, TLAPS

TaskRecord == [pc : Running \cup {"idle", "done", "failed"},
               kind : {"none", "invoke", "open", "error", "resize", "accept", "remove"},
               peer : Peers, secret : Secrets \cup {NoSecret}, generation : Nat,
               data : Data, used : BOOLEAN, tries : Nat]

LEMMA FreshType ==
    ASSUME NEW c \in Capacities
    PROVE  Fresh(c) \in Data
  BY Zenon DEF Fresh, Data

LEMMA NoTaskType == NoTask \in TaskRecord
<1>1. (CHOOSE p \in Peers : TRUE) \in Peers
  BY Zenon, ProvisioningAssumption
<1>2. Fresh(DefaultCapacity) \in Data
  BY Zenon, ProvisioningAssumption, FreshType
<1> QED
  BY Zenon, <1>1, <1>2 DEF NoTask, TaskRecord, Running

\* A handler call: whatever it has loaded, its record is one of the type.
LEMMA CallType ==
    ASSUME TypeOK, NEW t \in Tasks, NEW t1 \in TaskRecord, task' = [task EXCEPT ![t] = t1],
           UNCHANGED <<secrets, channels, added>>
    PROVE  TypeOK'
  BY Zenon DEF TypeOK, TaskRecord

LEMMA GotoType ==
    ASSUME TypeOK, NEW t \in Tasks, NEW l \in Running \cup {"idle", "done", "failed"}, Goto(t, l)
    PROVE  task' \in [Tasks -> TaskRecord]
  BY DEF TypeOK, TaskRecord, Goto

LEMMA TypeInit == Init => TypeOK
<1> SUFFICES ASSUME Init PROVE TypeOK
  OBVIOUS
<1>1. task \in [Tasks -> TaskRecord]
  BY Zenon, NoTaskType DEF Init
<1> QED
  BY Zenon, <1>1 DEF Init, TypeOK, TaskRecord, Empty

\* What the handlers save is of the type.
LEMMA HandlerType ==
    ASSUME TypeOK, NEW t \in Tasks, Handler(t)
    PROVE  TypeOK'
<1> PICK p \in Peers : \/ \E s \in Secrets : InvokeWithSecret(t, p, s)
                       \/ InvokeWithoutSecret(t, p) \/ OpeningStateUpdate(t, p)
                       \/ HandleError(t, p)
                       \/ \E c \in Capacities : ResizeChannel(t, p, c)
                       \/ \E m \in Capacities \cup {0} : AcceptResize(t, p, m)
                       \/ RemoveChannel(t, p)
  BY Zenon DEF Handler
<1>1. ASSUME NEW k \in {"invoke", "open", "error", "resize"}, NEW d \in Data, Saving(t, k, p, d)
      PROVE  TypeOK'
  <2>1. [NoTask EXCEPT !.pc = "save", !.kind = k, !.peer = p, !.data = d] \in TaskRecord
    BY Zenon, NoTaskType DEF TaskRecord, Running
  <2> QED
    BY Zenon, <1>1, <2>1, CallType DEF Saving
<1>2. Has(channels, p) => channels[p].value \in Data /\ channels[p].generation \in Nat
  BY Zenon DEF Has, TypeOK
<1>3. ASSUME NEW s \in Secrets, InvokeWithSecret(t, p, s) PROVE TypeOK'
  <2>1. [NoTask EXCEPT !.pc = "secret", !.kind = "invoke", !.peer = p, !.secret = s] \in TaskRecord
    BY Zenon, NoTaskType DEF TaskRecord, Running
  <2> QED
    BY Zenon, <1>3, <2>1, CallType DEF InvokeWithSecret
<1>4. CASE InvokeWithoutSecret(t, p)
  BY Zenon, <1>1, <1>4, FreshType, ProvisioningAssumption DEF InvokeWithoutSecret
<1>5. CASE OpeningStateUpdate(t, p)
  <2>1. [channels[p].value EXCEPT !.established = TRUE] \in Data
    BY Zenon, <1>2, <1>5 DEF OpeningStateUpdate, Data
  <2> QED
    BY Zenon, <1>1, <1>5, <2>1 DEF OpeningStateUpdate
<1>6. CASE HandleError(t, p)
  <2>1. [channels[p].value EXCEPT !.errored = TRUE] \in Data
    BY Zenon, <1>2, <1>6 DEF HandleError, Data
  <2> QED
    BY Zenon, <1>1, <1>6, <2>1 DEF HandleError
<1>7. ASSUME NEW c \in Capacities, ResizeChannel(t, p, c) PROVE TypeOK'
  <2>1. [channels[p].value EXCEPT !.capacity = c, !.resize = 0] \in Data
    BY Zenon, <1>2, <1>7 DEF ResizeChannel, Data
  <2> QED
    BY Zenon, <1>1, <1>7, <2>1 DEF ResizeChannel
<1>8. ASSUME NEW m \in Capacities \cup {0}, AcceptResize(t, p, m) PROVE TypeOK'
  <2>1. [channels[p].value EXCEPT !.resize = m] \in Data
    BY Zenon, <1>2, <1>8 DEF AcceptResize, Data
  <2>2. [NoTask EXCEPT !.pc = "cas", !.kind = "accept", !.peer = p,
                       !.generation = channels[p].generation,
                       !.data = [channels[p].value EXCEPT !.resize = m]] \in TaskRecord
    BY Zenon, <1>2, <1>8, <2>1, NoTaskType DEF TaskRecord, Running, AcceptResize
  <2> QED
    BY Zenon, <1>8, <2>2, CallType DEF AcceptResize
<1>9. CASE RemoveChannel(t, p)
  <2>1. [NoTask EXCEPT !.pc = "delete", !.kind = "remove", !.peer = p] \in TaskRecord
    BY Zenon, NoTaskType DEF TaskRecord, Running
  <2> QED
    BY Zenon, <1>9, <2>1, CallType DEF RemoveChannel
<1> QED
  BY Zenon, <1>3, <1>4, <1>5, <1>6, <1>7, <1>8, <1>9

\* A store with keys and values of a type, and what a write makes of it.
IsStore(st, Keys, V) ==
    /\ DOMAIN st \subseteq Keys
    /\ \A k \in DOMAIN st : st[k] \in [generation : Nat, value : V]

LEMMA CreatedIsStore ==
    ASSUME NEW Keys, NEW V, NEW st, IsStore(st, Keys, V), NEW k \in Keys, NEW v \in V
    PROVE  IsStore(Created(st, k, v), Keys, V)
  BY Zenon DEF IsStore, Created, Entry

LEMMA UpdatedIsStore ==
    ASSUME NEW Keys, NEW V, NEW st, IsStore(st, Keys, V), NEW k, Has(st, k), NEW v \in V
    PROVE  IsStore(Updated(st, k, v), Keys, V)
<1>1. /\ DOMAIN Updated(st, k, v) = DOMAIN st
      /\ \A x \in DOMAIN st :
            Updated(st, k, v)[x] = IF x = k THEN Entry(st[k].generation + 1, v) ELSE st[x]
  BY Zenon DEF Updated
<1>2. Entry(st[k].generation + 1, v) \in [generation : Nat, value : V]
  BY DEF Entry, Has, IsStore
<1> QED
  BY Zenon, <1>1, <1>2 DEF IsStore

LEMMA DeletedIsStore ==
    ASSUME NEW Keys, NEW V, NEW st, IsStore(st, Keys, V), NEW k
    PROVE  IsStore(Deleted(st, k), Keys, V)
  BY Zenon DEF IsStore, Deleted

SecretValue == [consumed : BOOLEAN, capacity : Capacities]

Typed == /\ IsStore(secrets, Secrets, SecretValue) /\ IsStore(channels, Peers, Data)
         /\ task \in [Tasks -> TaskRecord] /\ added \in [Secrets -> Nat]

LEMMA TypedIsTypeOK == Typed <=> TypeOK
  BY Zenon DEF Typed, TypeOK, IsStore, SecretValue, TaskRecord

LEMMA StepType ==
    ASSUME TypeOK, NEW t \in Tasks, Step(t)
    PROVE  TypeOK'
<1> SUFFICES Typed'
  BY TypedIsTypeOK, PTL
<1>1. /\ Typed /\ task[t] \in TaskRecord
      /\ task \in [Tasks -> TaskRecord] /\ added \in [Secrets -> Nat]
      /\ IsStore(secrets, Secrets, SecretValue) /\ IsStore(channels, Peers, Data)
  BY Zenon, TypedIsTypeOK DEF Typed
<1>2. task[t].peer \in Peers /\ task[t].data \in Data /\ task[t].data.capacity \in Capacities
  BY Zenon, <1>1 DEF TaskRecord, Data
<1>3. CASE UNCHANGED <<secrets, added>> /\ task' \in [Tasks -> TaskRecord]
           /\ \/ UNCHANGED channels
              \/ channels' = Created(channels, task[t].peer, task[t].data)
              \/ /\ Has(channels, task[t].peer)
                 /\ channels' = Updated(channels, task[t].peer, task[t].data)
              \/ channels' = Deleted(channels, task[t].peer)
  <2>1. IsStore(channels', Peers, Data)
    BY <1>1, <1>2, <1>3, CreatedIsStore, UpdatedIsStore, DeletedIsStore, Zenon
  <2> QED
    BY Zenon, <1>1, <1>3, <2>1 DEF Typed
<1>4. CASE ReadSecret(t)
  <2>1. ASSUME Has(secrets, task[t].secret) PROVE
          /\ secrets[task[t].secret].generation \in Nat
          /\ Fresh(secrets[task[t].secret].value.capacity) \in Data
    BY Zenon, <1>1, <2>1, FreshType DEF Has, SecretValue, IsStore
  <2>2. task' \in [Tasks -> TaskRecord]
    BY <1>1, <1>4, <2>1, GotoType DEF ReadSecret, TaskRecord, Running
  <2> QED
    BY Zenon, <1>3, <1>4, <2>2 DEF ReadSecret
<1>5. CASE ConsumeSecret(t)
  <2>1. task' \in [Tasks -> TaskRecord]
    BY <1>1, <1>5, GotoType DEF ConsumeSecret, TaskRecord, Running
  <2>2. IsStore(secrets', Secrets, SecretValue)
    <3>1. CASE UNCHANGED secrets
      BY Zenon, <3>1, <1>1
    <3>2. CASE Matches(secrets, task[t].secret, task[t].generation)
      <4>1. [consumed |-> TRUE, capacity |-> task[t].data.capacity] \in SecretValue
        BY Zenon, <1>2 DEF SecretValue
      <4>2. /\ Has(secrets, task[t].secret)
            /\ secrets' = Updated(secrets, task[t].secret,
                                  [consumed |-> TRUE, capacity |-> task[t].data.capacity])
        BY Zenon, <1>5, <3>2 DEF ConsumeSecret, Matches
      <4> QED
        BY <4>1, <4>2, <1>1, UpdatedIsStore, Zenon
    <3> QED
      BY Zenon, <1>5, <3>1, <3>2 DEF ConsumeSecret
  <2> QED
    BY Zenon, <1>1, <1>5, <2>1, <2>2 DEF ConsumeSecret, Typed
<1>6. CASE ForgetSecret(t)
  <2>1. task' \in [Tasks -> TaskRecord]
    BY Zenon, <1>6, GotoType DEF ForgetSecret, Running
  <2>2. IsStore(secrets', Secrets, SecretValue)
    BY <1>1, <1>6, DeletedIsStore, Zenon DEF ForgetSecret
  <2> QED
    BY Zenon, <1>1, <1>6, <2>1, <2>2 DEF ForgetSecret, Typed
<1>7. CASE SaveCreates(t)
  BY Zenon, <1>3, <1>7, GotoType DEF SaveCreates, Running
<1>8. CASE SaveRereads(t)
  <2>1. Has(channels, task[t].peer) => channels[task[t].peer].generation \in Nat
    BY Zenon, <1>1 DEF Has, IsStore
  <2>2. task' \in [Tasks -> TaskRecord]
    BY <1>1, <1>8, <2>1, GotoType DEF SaveRereads, TaskRecord, Running
  <2> QED
    BY Zenon, <1>3, <1>8, <2>2 DEF SaveRereads
<1>9. CASE SaveUpdates(t)
  BY Zenon, <1>3, <1>9, GotoType DEF SaveUpdates, Running, Matches
<1>10. CASE CasUpdates(t)
  <2>1. task' \in [Tasks -> TaskRecord]
    BY <1>1, <1>10, GotoType DEF CasUpdates, TaskRecord, Running
  <2> QED
    BY Zenon, <1>3, <1>10, <2>1 DEF CasUpdates, Matches
<1>11. CASE CasRereads(t)
  <2>1. Has(channels, task[t].peer) =>
          /\ channels[task[t].peer].generation \in Nat
          /\ [channels[task[t].peer].value EXCEPT !.resize = task[t].data.resize] \in Data
    BY Zenon, <1>1, <1>2 DEF Has, Data, IsStore
  <2>2. task' \in [Tasks -> TaskRecord]
    BY <1>1, <1>11, <2>1, GotoType DEF CasRereads, TaskRecord, Running
  <2> QED
    BY Zenon, <1>3, <1>11, <2>2 DEF CasRereads
<1>12. CASE RemoveDeletes(t)
  BY Zenon, <1>3, <1>12, GotoType DEF RemoveDeletes, Running
<1> QED
  BY Zenon, <1>4, <1>5, <1>6, <1>7, <1>8, <1>9, <1>10, <1>11, <1>12 DEF Step

LEMMA TypeNext == TypeOK /\ [Next]_vars => TypeOK'
<1> SUFFICES ASSUME TypeOK, [Next]_vars PROVE TypeOK'
  OBVIOUS
<1>1. Typed
  BY Zenon, TypedIsTypeOK
<1>2. ASSUME Typed' PROVE TypeOK'
  BY <1>2, TypedIsTypeOK, PTL
<1>3. ASSUME NEW s \in Secrets, NEW c \in Capacities, AddSecret(s, c) PROVE TypeOK'
  <2>1. [consumed |-> FALSE, capacity |-> c] \in SecretValue
    BY Zenon DEF SecretValue
  <2>2. IsStore(secrets', Secrets, SecretValue)
    BY <1>1, <1>3, <2>1, CreatedIsStore, Zenon DEF AddSecret, Typed
  <2> QED
    BY <1>1, <1>2, <1>3, <2>2 DEF AddSecret, Typed
<1>4. ASSUME NEW s \in Secrets, RemoveSecret(s) PROVE TypeOK'
  <2>1. IsStore(secrets', Secrets, SecretValue)
    BY <1>1, <1>4, DeletedIsStore, Zenon DEF RemoveSecret, Typed
  <2> QED
    BY Zenon, <1>1, <1>2, <1>4, <2>1 DEF RemoveSecret, Typed
<1>5. CASE Crash
  <2>1. task' \in [Tasks -> TaskRecord]
    BY <1>1, <1>5 DEF Crash, Typed, TaskRecord
  <2> QED
    BY Zenon, <1>1, <1>2, <1>5, <2>1 DEF Crash, Typed
<1>6. CASE UNCHANGED vars
  BY Zenon, <1>6 DEF vars, TypeOK
<1> QED
  BY Zenon, <1>3, <1>4, <1>5, <1>6, HandlerType, StepType DEF Next, Run, Operator

\* Handler calls, secrets, channels and counters keep their types (TypeOK).
THEOREM ProvisioningTypes == Spec => []TypeOK
  BY TypeInit, TypeNext, PTL DEF Spec

-----------------------------------------------------------------------------
(* A secret in the datastore is unspent while its generation is 0, and a   *)
(* call may consume it only at the generation 0 it has read.  So what has  *)
(* been added covers the calls that have consumed it and what is unspent.  *)

Unspent(s) == IF Has(secrets, s) /\ secrets[s].generation = 0 THEN 1 ELSE 0

SpentInv == \A s \in DOMAIN secrets : secrets[s].value.consumed <=> secrets[s].generation # 0

CallInv == \A t \in Tasks :
    /\ task[t].pc \in {"idle", "secret", "consume"} => ~task[t].used
    /\ task[t].pc = "consume" => task[t].generation = 0

CountInv == \A s \in Secrets : Cardinality(Users(s)) + Unspent(s) <= added[s]

SecretInv == SpentInv /\ CallInv /\ CountInv

LEMMA UsersFinite == \A s : IsFiniteSet(Users(s)) /\ Cardinality(Users(s)) \in Nat
<1> SUFFICES ASSUME NEW s PROVE IsFiniteSet(Users(s)) /\ Cardinality(Users(s)) \in Nat
  OBVIOUS
<1>1. Users(s) \in SUBSET Tasks
  BY Zenon DEF Users
<1>2. IsFiniteSet(Users(s))
  BY Zenon, <1>1, FS_Subset, ProvisioningAssumption
<1> QED
  BY Zenon, <1>2, FS_CardinalityType

\* A step after which no more calls have consumed a secret and none is unspent
\* that was not before.
LEMMA CountKept ==
    ASSUME TypeOK, CountInv, added' = added,
           \A s \in Secrets : Users(s)' = Users(s),
           \A s \in Secrets : Unspent(s)' <= Unspent(s)
    PROVE  CountInv'
<1> SUFFICES ASSUME NEW s \in Secrets PROVE Cardinality(Users(s)') + Unspent(s)' <= added'[s]
  BY Zenon DEF CountInv
<1>1. Cardinality(Users(s)) \in Nat /\ Unspent(s) \in Nat /\ Unspent(s)' \in Nat /\ added[s] \in Nat
  BY Zenon, UsersFinite DEF Unspent, TypeOK
<1>2. Cardinality(Users(s)) + Unspent(s) <= added[s] /\ Unspent(s)' <= Unspent(s)
  BY Zenon DEF CountInv
<1>3. Users(s)' = Users(s)
  OBVIOUS
<1> QED
  BY <1>1, <1>2, <1>3

\* The steps that leave the secrets alone.
LEMMA QuietSecrets ==
    ASSUME TypeOK, SecretInv, UNCHANGED <<secrets, added>>,
           \A t \in Tasks : task'[t].used = task[t].used,
           \A t \in Tasks : task[t].used => task'[t].secret = task[t].secret,
           CallInv'
    PROVE  SecretInv'
<1>1. \A s \in Secrets : Users(s)' = Users(s)
  BY Zenon DEF Users
<1>2. \A s \in Secrets : Unspent(s)' = Unspent(s) /\ Unspent(s) \in Nat
  BY Zenon DEF Unspent, Has
<1>3. CountInv'
  BY <1>1, <1>2, CountKept DEF SecretInv
<1>4. SpentInv'
  BY Zenon DEF SecretInv, SpentInv
<1> QED
  BY Zenon, <1>3, <1>4 DEF SecretInv

LEMMA HandlerKeeps ==
    ASSUME TypeOK, SecretInv, NEW t \in Tasks, Handler(t)
    PROVE  SecretInv'
<1> DEFINE Starts == /\ task[t].pc = "idle" /\ UNCHANGED <<secrets, added>>
                     /\ task'[t].used = FALSE /\ task'[t].pc # "consume"
                     /\ \A u \in Tasks \ {t} : task'[u] = task[u]
<1>1. ASSUME NEW k, NEW p, NEW d, Called(t, k, p), Saving(t, k, p, d) PROVE Starts
  BY Zenon, <1>1 DEF Called, Saving, NoTask, TypeOK
<1>2. Starts
  <2> PICK p \in Peers : \/ \E s \in Secrets : InvokeWithSecret(t, p, s)
                         \/ InvokeWithoutSecret(t, p) \/ OpeningStateUpdate(t, p)
                         \/ HandleError(t, p)
                         \/ \E c \in Capacities : ResizeChannel(t, p, c)
                         \/ \E m \in Capacities \cup {0} : AcceptResize(t, p, m)
                         \/ RemoveChannel(t, p)
    BY Zenon DEF Handler
  <2>1. ASSUME NEW s \in Secrets, InvokeWithSecret(t, p, s) PROVE Starts
    BY Zenon, <2>1 DEF InvokeWithSecret, Called, NoTask, TypeOK
  <2>2. CASE InvokeWithoutSecret(t, p)
    BY Zenon, <1>1, <2>2 DEF InvokeWithoutSecret
  <2>3. CASE OpeningStateUpdate(t, p)
    BY Zenon, <1>1, <2>3 DEF OpeningStateUpdate
  <2>4. CASE HandleError(t, p)
    BY Zenon, <1>1, <2>4 DEF HandleError
  <2>5. CASE \E c \in Capacities : ResizeChannel(t, p, c)
    BY Zenon, <1>1, <2>5 DEF ResizeChannel
  <2>6. ASSUME NEW m \in Capacities \cup {0}, AcceptResize(t, p, m) PROVE Starts
    BY Zenon, <2>6 DEF AcceptResize, Called, NoTask, TypeOK
  <2>7. CASE RemoveChannel(t, p)
    BY Zenon, <2>7 DEF RemoveChannel, Called, NoTask, TypeOK
  <2> QED
    BY Zenon, <2>1, <2>2, <2>3, <2>4, <2>5, <2>6, <2>7
<1>3. task[t].used = FALSE
  BY Zenon, <1>2 DEF SecretInv, CallInv, TypeOK
<1>4. CallInv'
  BY Zenon, <1>2 DEF SecretInv, CallInv
<1> QED
  BY Zenon, <1>2, <1>3, <1>4, QuietSecrets

\* The steps of a call that only move on, past the secret or to read it.
LEMMA MoveKeeps ==
    ASSUME TypeOK, SecretInv, NEW t \in Tasks, Step(t),
           ~ConsumeSecret(t), ~ForgetSecret(t)
    PROVE  SecretInv'
<1>1. task[t].pc = "consume" => FALSE
  BY Zenon DEF Step, ReadSecret, SaveCreates, SaveRereads, SaveUpdates, CasUpdates, CasRereads,
         RemoveDeletes
<1>2. CASE ReadSecret(t)
  <2>1. /\ UNCHANGED <<secrets, added>>
        /\ \A u \in Tasks \ {t} : task'[u] = task[u]
        /\ task'[t].used = task[t].used /\ task'[t].secret = task[t].secret
        /\ ~task[t].used
        /\ task'[t].pc = "consume" => task'[t].generation = 0
    <3>1. ~task[t].used
      BY Zenon, <1>2 DEF ReadSecret, SecretInv, CallInv
    <3>2. CASE /\ Has(secrets, task[t].secret) /\ ~secrets[task[t].secret].value.consumed
               /\ task' = [task EXCEPT ![t].pc = "consume",
                             ![t].generation = secrets[task[t].secret].generation,
                             ![t].data = Fresh(secrets[task[t].secret].value.capacity)]
      <4>1. secrets[task[t].secret].generation = 0
        BY Zenon, <3>2 DEF SecretInv, SpentInv, Has
      <4> QED
        BY <1>2, <3>1, <3>2, <4>1 DEF ReadSecret, TypeOK
    <3>3. CASE Goto(t, IF RequireSecret THEN "done" ELSE "save")
      BY <1>2, <3>1, <3>3 DEF ReadSecret, Goto, TypeOK
    <3> QED
      BY Zenon, <1>2, <3>2, <3>3 DEF ReadSecret
  <2>2. CallInv'
    BY Zenon, <2>1 DEF SecretInv, CallInv
  <2> QED
    BY Zenon, <2>1, <2>2, QuietSecrets
<1>3. CASE ~ReadSecret(t)
  <2>1. /\ UNCHANGED <<secrets, added>>
        /\ \A u \in Tasks \ {t} : task'[u] = task[u]
        /\ task'[t].used = task[t].used /\ task'[t].secret = task[t].secret
        /\ task'[t].pc \notin {"idle", "secret", "consume"}
    <3>1. CASE SaveCreates(t) \/ SaveRereads(t) \/ SaveUpdates(t)
      BY <3>1 DEF SaveCreates, SaveRereads, SaveUpdates, Goto, TypeOK
    <3>2. CASE CasUpdates(t) \/ CasRereads(t) \/ RemoveDeletes(t)
      BY <3>2 DEF CasUpdates, CasRereads, RemoveDeletes, Goto, TypeOK
    <3> QED
      BY Zenon, <1>3, <3>1, <3>2 DEF Step
  <2>2. CallInv'
    BY Zenon, <2>1 DEF SecretInv, CallInv
  <2> QED
    BY Zenon, <2>1, <2>2, QuietSecrets
<1> QED
  BY Zenon, <1>2, <1>3

\* The swap spends the secret: one more call has consumed it, and it is unspent
\* no more.
LEMMA ConsumeKeeps ==
    ASSUME TypeOK, SecretInv, NEW t \in Tasks, ConsumeSecret(t)
    PROVE  SecretInv'
<1> PICK s : s = task[t].secret
  OBVIOUS
<1>1. /\ task[t].pc = "consume" /\ ~task[t].used /\ task[t].generation = 0
      /\ UNCHANGED added
  BY Zenon DEF ConsumeSecret, SecretInv, CallInv
<1>2. CASE ~Matches(secrets, s, task[t].generation)
  <2>1. /\ UNCHANGED <<secrets, added>>
        /\ \A u \in Tasks \ {t} : task'[u] = task[u]
        /\ task'[t].used = task[t].used /\ task'[t].secret = task[t].secret
        /\ task'[t].pc = "failed"
    BY <1>2 DEF ConsumeSecret, Goto, TypeOK
  <2>2. CallInv'
    BY Zenon, <2>1 DEF SecretInv, CallInv
  <2> QED
    BY Zenon, <2>1, <2>2, QuietSecrets
<1>3. CASE Matches(secrets, s, task[t].generation)
  <2>1. /\ s \in DOMAIN secrets /\ s \in Secrets /\ secrets[s].generation = 0
        /\ secrets' = Updated(secrets, s, [consumed |-> TRUE, capacity |-> task[t].data.capacity])
        /\ task' = [task EXCEPT ![t].pc = "forget", ![t].used = TRUE]
    BY Zenon, <1>1, <1>3 DEF ConsumeSecret, Matches, Has, TypeOK
  <2>2. /\ DOMAIN secrets' = DOMAIN secrets
        /\ \A x \in DOMAIN secrets \ {s} : secrets'[x] = secrets[x]
        /\ secrets'[s].generation = 1 /\ secrets'[s].value.consumed = TRUE
    BY <2>1 DEF Updated, Entry
  <2>3. /\ \A u \in Tasks \ {t} : task'[u] = task[u]
        /\ task'[t].used = TRUE /\ task'[t].secret = s /\ task'[t].pc = "forget"
    BY <2>1 DEF TypeOK
  <2>4. SpentInv'
    BY <2>2 DEF SecretInv, SpentInv
  <2>5. CallInv'
    BY Zenon, <2>3 DEF SecretInv, CallInv
  <2>6. /\ Users(s)' = Users(s) \cup {t} /\ t \notin Users(s)
        /\ \A x \in Secrets \ {s} : Users(x)' = Users(x)
    BY Zenon, <1>1, <2>3 DEF Users
  <2>7. Cardinality(Users(s)') = Cardinality(Users(s)) + 1
    BY Zenon, <2>6, UsersFinite, FS_AddElement
  <2>8. /\ Unspent(s) = 1 /\ Unspent(s)' = 0
        /\ \A x \in Secrets \ {s} : Unspent(x)' = Unspent(x)
    BY Zenon, <2>1, <2>2 DEF Unspent, Has
  <2>9. CountInv'
    <3> SUFFICES ASSUME NEW x \in Secrets
                 PROVE  Cardinality(Users(x)') + Unspent(x)' <= added'[x]
      BY Zenon DEF CountInv
    <3>1. CASE x = s
      <4>1. Cardinality(Users(s)) + 1 <= added[s] /\ Cardinality(Users(s)) \in Nat
        BY Zenon, <2>1, <2>8, UsersFinite DEF SecretInv, CountInv
      <4> QED
        BY <1>1, <3>1, <4>1, <2>7, <2>8
    <3>2. CASE x # s
      BY Zenon, <1>1, <3>2, <2>6, <2>8 DEF SecretInv, CountInv
    <3> QED
      BY Zenon, <3>1, <3>2
  <2> QED
    BY Zenon, <2>4, <2>5, <2>9 DEF SecretInv
<1> QED
  BY Zenon, <1>2, <1>3

\* Deleting a secret spends it.
LEMMA DeleteKeeps ==
    ASSUME TypeOK, SecretInv, NEW s, secrets' = Deleted(secrets, s), added' = added,
           \A x \in Secrets : Users(x)' = Users(x), CallInv'
    PROVE  SecretInv'
<1>1. DOMAIN secrets' = DOMAIN secrets \ {s} /\ \A x \in DOMAIN secrets' : secrets'[x] = secrets[x]
  BY Zenon DEF Deleted
<1>2. SpentInv'
  BY Zenon, <1>1 DEF SecretInv, SpentInv
<1>3. \A x \in Secrets : Unspent(x)' <= Unspent(x)
  BY <1>1 DEF Unspent, Has
<1>4. CountInv'
  BY Zenon, <1>3, CountKept DEF SecretInv
<1> QED
  BY Zenon, <1>2, <1>4 DEF SecretInv

\* An added secret is unspent, and counted.
LEMMA AddKeeps ==
    ASSUME TypeOK, SecretInv, NEW s \in Secrets, NEW c \in Capacities, AddSecret(s, c)
    PROVE  SecretInv'
<1>1. /\ s \notin DOMAIN secrets /\ UNCHANGED task
      /\ added' = [added EXCEPT ![s] = @ + 1]
      /\ DOMAIN secrets' = DOMAIN secrets \cup {s}
      /\ secrets'[s] = Entry(0, [consumed |-> FALSE, capacity |-> c])
      /\ \A x \in DOMAIN secrets : secrets'[x] = secrets[x]
  BY Zenon DEF AddSecret, Has, Created
<1>2. secrets'[s].generation = 0 /\ secrets'[s].value.consumed = FALSE
  BY <1>1 DEF Entry
<1>3. SpentInv'
  BY Zenon, <1>1, <1>2 DEF SecretInv, SpentInv
<1>4. CallInv'
  BY Zenon, <1>1 DEF SecretInv, CallInv
<1>5. /\ Unspent(s) = 0 /\ Unspent(s)' = 1
      /\ \A x \in Secrets \ {s} : Unspent(x)' = Unspent(x)
  BY Zenon, <1>1, <1>2 DEF Unspent, Has
<1>6. \A x \in Secrets : Users(x)' = Users(x)
  BY Zenon, <1>1 DEF Users
<1>7. CountInv'
  <2> SUFFICES ASSUME NEW x \in Secrets
               PROVE  Cardinality(Users(x)') + Unspent(x)' <= added'[x]
    BY Zenon DEF CountInv
  <2>1. /\ Cardinality(Users(x)) + Unspent(x) <= added[x] /\ Users(x)' = Users(x)
        /\ Cardinality(Users(x)) \in Nat /\ added[x] \in Nat
    BY Zenon, <1>6, UsersFinite DEF SecretInv, CountInv, TypeOK
  <2>2. added'[x] = IF x = s THEN added[x] + 1 ELSE added[x]
    BY Zenon, <1>1 DEF TypeOK
  <2>3. CASE x = s
    BY <1>5, <2>1, <2>2, <2>3
  <2>4. CASE x # s
    BY Zenon, <1>5, <2>1, <2>2, <2>4
  <2> QED
    BY Zenon, <2>3, <2>4
<1> QED
  BY Zenon, <1>3, <1>4, <1>7 DEF SecretInv

LEMMA SecretInit == Init => SecretInv
<1> SUFFICES ASSUME Init PROVE SecretInv
  OBVIOUS
<1>1. /\ DOMAIN secrets = {} /\ \A t \in Tasks : task[t].used = FALSE /\ task[t].pc = "idle"
      /\ \A s \in Secrets : added[s] = 0
  BY Zenon DEF Init, Empty, NoTask
<1>2. \A s \in Secrets : Users(s) = {} /\ Unspent(s) = 0
  BY Zenon, <1>1 DEF Users, Unspent, Has
<1>3. CountInv
  <2>1. Cardinality({}) = 0
    BY Zenon, FS_EmptySet
  <2>2. \A s \in Secrets : Cardinality(Users(s)) = 0
    BY Zenon, <1>2, <2>1
  <2> QED
    BY <1>1, <1>2, <2>2 DEF CountInv
<1> QED
  BY Zenon, <1>1, <1>3 DEF SecretInv, SpentInv, CallInv

LEMMA SecretNext == TypeOK /\ SecretInv /\ [Next]_vars => SecretInv'
<1> SUFFICES ASSUME TypeOK, SecretInv, [Next]_vars PROVE SecretInv'
  OBVIOUS
<1>1. ASSUME NEW s \in Secrets, RemoveSecret(s) PROVE SecretInv'
  <2>1. secrets' = Deleted(secrets, s) /\ UNCHANGED <<task, added>>
    BY Zenon, <1>1 DEF RemoveSecret
  <2>2. CallInv' /\ \A x \in Secrets : Users(x)' = Users(x)
    BY Zenon, <2>1 DEF SecretInv, CallInv, Users
  <2> QED
    BY Zenon, <2>1, <2>2, DeleteKeeps
<1>2. ASSUME NEW t \in Tasks, ForgetSecret(t) PROVE SecretInv'
  <2>1. /\ secrets' = Deleted(secrets, task[t].secret) /\ UNCHANGED added
        /\ \A u \in Tasks \ {t} : task'[u] = task[u]
        /\ task'[t].used = task[t].used /\ task'[t].secret = task[t].secret
        /\ task'[t].pc \in {"save", "failed"}
    BY <1>2 DEF ForgetSecret, Goto, TypeOK
  <2>2. CallInv'
    BY Zenon, <2>1 DEF SecretInv, CallInv
  <2>3. \A x \in Secrets : Users(x)' = Users(x)
    BY Zenon, <2>1 DEF Users
  <2> QED
    BY Zenon, <2>1, <2>2, <2>3, DeleteKeeps
<1>3. CASE Crash
  <2>1. \A t \in Tasks : /\ task'[t].used = task[t].used /\ task'[t].secret = task[t].secret
                         /\ task'[t].generation = task[t].generation
                         /\ task'[t].pc \in {task[t].pc, "failed"}
    BY <1>3 DEF Crash, TypeOK
  <2>2. CallInv'
    BY Zenon, <2>1 DEF SecretInv, CallInv
  <2> QED
    BY Zenon, <1>3, <2>1, <2>2, QuietSecrets DEF Crash
<1>4. CASE UNCHANGED vars
  BY Zenon, <1>4 DEF vars, SecretInv, SpentInv, CallInv, CountInv, Users, Unspent, Has
<1> QED
  BY Zenon, <1>1, <1>2, <1>3, <1>4, AddKeeps, HandlerKeeps, MoveKeeps, ConsumeKeeps
     DEF Next, Run, Operator

\* A secret grants one channel each time it is added (SecretGrantsOnce): of the
\* calls of consume_secret that have read it, at most one swaps it.
THEOREM SecretsGrantOnce == Spec => []SecretGrantsOnce
<1>1. TypeOK /\ CountInv => SecretGrantsOnce
  <2> SUFFICES ASSUME TypeOK, CountInv, NEW s \in Secrets PROVE Cardinality(Users(s)) <= added[s]
    BY Zenon DEF SecretGrantsOnce
  <2>1. /\ Cardinality(Users(s)) + Unspent(s) <= added[s]
        /\ Cardinality(Users(s)) \in Nat /\ Unspent(s) \in Nat /\ added[s] \in Nat
    BY Zenon, UsersFinite DEF CountInv, Unspent, TypeOK
  <2> QED
    BY <2>1
<1>2. Init /\ [][Next]_vars => [](TypeOK /\ SecretInv)
  BY TypeInit, TypeNext, SecretInit, SecretNext, PTL
<1>3. SecretInv => CountInv
  BY Zenon DEF SecretInv
<1> QED
  BY <1>1, <1>2, <1>3, PTL DEF Spec

-----------------------------------------------------------------------------
(* Unless the channel was removed, a record that still has the generation  *)
(* cas_json has read is the record it has read.                            *)

CasInv == \A t \in Tasks :
    /\ task[t].pc = "delete" => task[t].kind = "remove"
    /\ task[t].pc = "cas" /\ ~Removed(task[t].peer) =>
         LET p == task[t].peer IN
         /\ Has(channels, p) /\ task[t].generation <= channels[p].generation
         /\ task[t].generation = channels[p].generation =>
               task[t].data = [channels[p].value EXCEPT !.resize = task[t].data.resize]

\* A channel that was removed stays so.
LEMMA RemovedStays ==
    ASSUME NEW t \in Tasks, task[t].pc # "done",
           \A u \in Tasks \ {t} : task'[u] = task[u]
    PROVE  \A p : Removed(p) => Removed(p)'
  BY Zenon DEF Removed

\* A call that leaves the channels alone.
LEMMA CasQuiet ==
    ASSUME TypeOK, CasInv, NEW t \in Tasks, task[t].pc # "done", UNCHANGED channels,
           \A u \in Tasks \ {t} : task'[u] = task[u],
           task'[t].pc # "cas",
           task'[t].pc = "delete" => task'[t].kind = "remove"
    PROVE  CasInv'
<1>1. \A p : Removed(p) => Removed(p)'
  BY Zenon, RemovedStays
<1> QED
  BY Zenon, <1>1 DEF CasInv, Has

\* One that writes a record: it is no one else's any more.
LEMMA CasWrites ==
    ASSUME TypeOK, CasInv, NEW t \in Tasks, task[t].pc # "done", NEW p \in Peers, NEW d,
           \/ ~Has(channels, p) /\ channels' = Created(channels, p, d)
           \/ Has(channels, p) /\ channels' = Updated(channels, p, d),
           \A u \in Tasks \ {t} : task'[u] = task[u],
           task'[t].pc \notin {"delete", "cas"}
    PROVE  CasInv'
<1>1. /\ \A q \in DOMAIN channels \ {p} : q \in DOMAIN channels' /\ channels'[q] = channels[q]
      /\ p \in DOMAIN channels => /\ p \in DOMAIN channels'
                                  /\ channels'[p].generation = channels[p].generation + 1
  BY DEF Created, Updated, Has, Entry
<1>2. \A q \in DOMAIN channels : channels[q].generation \in Nat
  BY Zenon DEF TypeOK
<1>3. \A u \in Tasks : task[u].generation \in Nat
  BY Zenon DEF TypeOK
<1>6. \A q : Removed(q) => Removed(q)'
  BY Zenon, RemovedStays
<1>4. ASSUME NEW u \in Tasks, u # t, task[u].pc = "cas", ~Removed(task[u].peer)
      PROVE  LET q == task[u].peer IN
             /\ Has(channels', q) /\ task[u].generation <= channels'[q].generation
             /\ task[u].generation = channels'[q].generation =>
                   task[u].data = [channels'[q].value EXCEPT !.resize = task[u].data.resize]
  <2>1. CASE task[u].peer = p
    <3>1. Has(channels, p) /\ task[u].generation <= channels[p].generation
      BY Zenon, <1>4, <2>1 DEF CasInv
    <3>2. task[u].generation < channels'[p].generation /\ Has(channels', p)
      BY <1>1, <1>2, <1>3, <3>1 DEF Has
    <3> QED
      BY <1>2, <1>3, <2>1, <3>1, <3>2, <1>1 DEF Has
  <2>2. CASE task[u].peer # p
    <3>1. Has(channels, task[u].peer)
      BY Zenon, <1>4 DEF CasInv
    <3>2. Has(channels', task[u].peer) /\ channels'[task[u].peer] = channels[task[u].peer]
      BY Zenon, <1>1, <2>2, <3>1 DEF Has
    <3> QED
      BY Zenon, <1>4, <3>2 DEF CasInv
  <2> QED
    BY Zenon, <2>1, <2>2
<1>5. \A u \in Tasks : u # t => task'[u] = task[u]
  OBVIOUS
<1> QED
  BY Zenon, <1>4, <1>5, <1>6 DEF CasInv, Has

\* One that has just read the record.
LEMMA CasReads ==
    ASSUME TypeOK, CasInv, NEW t \in Tasks, task[t].pc # "done",
           NEW p \in Peers, Has(channels, p), NEW m,
           UNCHANGED channels, \A u \in Tasks \ {t} : task'[u] = task[u],
           task'[t].pc = "cas", task'[t].peer = p,
           task'[t].generation = channels[p].generation,
           task'[t].data = [channels[p].value EXCEPT !.resize = m]
    PROVE  CasInv'
<1>1. channels[p].generation \in Nat /\ channels[p].value \in Data
  BY Zenon DEF TypeOK, Has
<1>2. task'[t].data = [channels[p].value EXCEPT !.resize = task'[t].data.resize]
  BY Zenon, <1>1 DEF Data
<1>3. \A q : Removed(q) => Removed(q)'
  BY Zenon, RemovedStays
<1> QED
  BY <1>1, <1>2, <1>3 DEF CasInv, Has

\* One that deletes the record.
LEMMA CasDeletes ==
    ASSUME TypeOK, CasInv, NEW t \in Tasks, RemoveDeletes(t)
    PROVE  CasInv'
<1>1. /\ task[t].pc = "delete" /\ task[t].kind = "remove"
      /\ channels' = Deleted(channels, task[t].peer)
      /\ task'[t] = [task[t] EXCEPT !.pc = "done"]
      /\ \A u \in Tasks \ {t} : task'[u] = task[u]
  BY Zenon DEF RemoveDeletes, Goto, CasInv, TypeOK
<1>2. task'[t].pc = "done" /\ task'[t].kind = "remove" /\ task'[t].peer = task[t].peer
  BY Zenon, <1>1 DEF TypeOK
<1>3. /\ \A q : Removed(q) => Removed(q)'
      /\ \A q : q = task[t].peer => Removed(q)'
  BY Zenon, <1>1, <1>2, RemovedStays DEF Removed
<1>4. \A q \in DOMAIN channels : q # task[t].peer =>
         q \in DOMAIN channels' /\ channels'[q] = channels[q]
  BY Zenon, <1>1 DEF Deleted
<1>5. ASSUME NEW u \in Tasks, NEW q, q = task[u].peer, task'[u].pc = "cas", ~Removed(q)'
      PROVE  /\ task'[u] = task[u] /\ ~Removed(q) /\ q # task[t].peer /\ q \in DOMAIN channels
  <2>1. task'[u] = task[u]
    BY Zenon, <1>1, <1>2, <1>5
  <2>2. ~Removed(q) /\ q # task[t].peer
    BY Zenon, <1>3, <1>5
  <2> QED
    BY Zenon, <1>5, <2>1, <2>2 DEF CasInv, Has
<1>6. ASSUME NEW u \in Tasks, task'[u].pc = "delete" PROVE task'[u].kind = "remove"
  <2>1. u # t
    BY <1>2, <1>6
  <2> QED
    BY Zenon, <1>1, <1>6, <2>1 DEF CasInv
<1>7. \A u \in Tasks : task'[u].peer = task[u].peer
  BY Zenon, <1>1, <1>2
<1> SUFFICES ASSUME NEW u \in Tasks, NEW q, q = task[u].peer, task'[u].pc = "cas", ~Removed(q)'
             PROVE  /\ Has(channels', q) /\ task'[u].generation <= channels'[q].generation
                    /\ task'[u].generation = channels'[q].generation =>
                          task'[u].data = [channels'[q].value EXCEPT !.resize = task'[u].data.resize]
  BY Zenon, <1>6, <1>7 DEF CasInv, Has
<1>8. task'[u] = task[u] /\ ~Removed(q) /\ q # task[t].peer /\ q \in DOMAIN channels
  BY Zenon, <1>5
<1>9. q \in DOMAIN channels' /\ channels'[q] = channels[q]
  BY Zenon, <1>4, <1>8
<1> QED
  BY <1>8, <1>9 DEF CasInv, Has

LEMMA CasNext ==
    ASSUME TypeOK, CasInv, [Next]_vars
    PROVE  CasInv'
<1>1. ASSUME NEW t \in Tasks, Handler(t) PROVE CasInv'
  <2>9. task[t].pc # "done"
    BY Zenon, <1>1 DEF Handler, InvokeWithSecret, InvokeWithoutSecret, OpeningStateUpdate, HandleError,
                ResizeChannel, AcceptResize, RemoveChannel, Called
  <2> PICK p \in Peers : \/ \E s \in Secrets : InvokeWithSecret(t, p, s)
                         \/ InvokeWithoutSecret(t, p) \/ OpeningStateUpdate(t, p)
                         \/ HandleError(t, p)
                         \/ \E c \in Capacities : ResizeChannel(t, p, c)
                         \/ \E m \in Capacities \cup {0} : AcceptResize(t, p, m)
                         \/ RemoveChannel(t, p)
    BY Zenon, <1>1 DEF Handler
  <2>1. ASSUME NEW k, NEW d, Saving(t, k, p, d) PROVE CasInv'
    <3>1. /\ UNCHANGED channels /\ task'[t].pc = "save"
          /\ \A u \in Tasks \ {t} : task'[u] = task[u]
      BY Zenon, <2>1 DEF Saving, NoTask, TypeOK
    <3> QED
      BY Zenon, <2>9, <3>1, CasQuiet
  <2>2. ASSUME NEW s \in Secrets, InvokeWithSecret(t, p, s) PROVE CasInv'
    <3>1. /\ UNCHANGED channels /\ task'[t].pc = "secret"
          /\ \A u \in Tasks \ {t} : task'[u] = task[u]
      BY Zenon, <2>2 DEF InvokeWithSecret, NoTask, TypeOK
    <3> QED
      BY Zenon, <2>9, <3>1, CasQuiet
  <2>3. ASSUME NEW m \in Capacities \cup {0}, AcceptResize(t, p, m) PROVE CasInv'
    <3>1. /\ Has(channels, p) /\ UNCHANGED channels
          /\ task'[t].pc = "cas" /\ task'[t].peer = p
          /\ task'[t].generation = channels[p].generation
          /\ task'[t].data = [channels[p].value EXCEPT !.resize = m]
          /\ \A u \in Tasks \ {t} : task'[u] = task[u]
      BY Zenon, <2>3 DEF AcceptResize, NoTask, TypeOK
    <3> QED
      BY <2>9, <3>1, CasReads
  <2>4. CASE InvokeWithoutSecret(t, p)
    BY Zenon, <2>1, <2>4 DEF InvokeWithoutSecret
  <2>5. CASE OpeningStateUpdate(t, p) \/ HandleError(t, p)
    BY Zenon, <2>1, <2>5 DEF OpeningStateUpdate, HandleError
  <2>6. CASE \E c \in Capacities : ResizeChannel(t, p, c)
    BY Zenon, <2>1, <2>6 DEF ResizeChannel
  <2>7. CASE RemoveChannel(t, p)
    <3>1. /\ UNCHANGED channels /\ task'[t].pc = "delete" /\ task'[t].kind = "remove"
          /\ \A u \in Tasks \ {t} : task'[u] = task[u]
      BY Zenon, <2>7 DEF RemoveChannel, NoTask, TypeOK
    <3> QED
      BY Zenon, <2>9, <3>1, CasQuiet
  <2> QED
    BY Zenon, <2>2, <2>3, <2>4, <2>5, <2>6, <2>7
<1>2. ASSUME NEW t \in Tasks, Step(t) PROVE CasInv'
  <2>1. task[t].peer \in Peers
    BY Zenon DEF TypeOK
  <2>13. task[t].pc # "done"
    BY Zenon, <1>2 DEF Step, ReadSecret, ConsumeSecret, ForgetSecret, SaveCreates, SaveRereads,
                SaveUpdates, CasUpdates, CasRereads, RemoveDeletes
  <2>2. ASSUME NEW l, l \notin {"delete", "cas"}, Goto(t, l), UNCHANGED channels PROVE CasInv'
    <3>1. task'[t].pc = l /\ \A u \in Tasks \ {t} : task'[u] = task[u]
      BY <2>2 DEF Goto, TypeOK
    <3> QED
      BY Zenon, <2>2, <2>13, <3>1, CasQuiet
  <2>3. ASSUME NEW d, Goto(t, "done"),
               \/ /\ ~Has(channels, task[t].peer)
                  /\ channels' = Created(channels, task[t].peer, d)
               \/ /\ Has(channels, task[t].peer)
                  /\ channels' = Updated(channels, task[t].peer, d)
        PROVE  CasInv'
    <3>1. task'[t].pc = "done" /\ \A u \in Tasks \ {t} : task'[u] = task[u]
      BY <2>3 DEF Goto, TypeOK
    <3> QED
      BY Zenon, <2>1, <2>3, <2>13, <3>1, CasWrites
  <2>4. CASE ReadSecret(t)
    <3>1. /\ UNCHANGED channels /\ task'[t].pc \in {"consume", "done", "save"}
          /\ \A u \in Tasks \ {t} : task'[u] = task[u]
      BY <2>4 DEF ReadSecret, Goto, TypeOK
    <3> QED
      BY Zenon, <2>13, <3>1, CasQuiet
  <2>5. CASE ConsumeSecret(t)
    <3>1. /\ UNCHANGED channels /\ task'[t].pc \in {"forget", "failed"}
          /\ \A u \in Tasks \ {t} : task'[u] = task[u]
      BY <2>5 DEF ConsumeSecret, Goto, TypeOK
    <3> QED
      BY Zenon, <2>13, <3>1, CasQuiet
  <2>6. CASE ForgetSecret(t)
    BY Zenon, <2>2, <2>6 DEF ForgetSecret
  <2>7. CASE SaveCreates(t)
    BY Zenon, <2>2, <2>3, <2>7 DEF SaveCreates
  <2>8. CASE SaveRereads(t)
    <3>1. /\ UNCHANGED channels /\ task'[t].pc \in {"update", "failed"}
          /\ \A u \in Tasks \ {t} : task'[u] = task[u]
      BY <2>8 DEF SaveRereads, Goto, TypeOK
    <3> QED
      BY Zenon, <2>13, <3>1, CasQuiet
  <2>9. CASE SaveUpdates(t)
    BY Zenon, <2>2, <2>3, <2>9 DEF SaveUpdates, Matches
  <2>10. CASE CasUpdates(t)
    <3>1. CASE Matches(channels, task[t].peer, task[t].generation)
      BY Zenon, <2>3, <2>10, <3>1 DEF CasUpdates, Matches
    <3>2. CASE ~Matches(channels, task[t].peer, task[t].generation)
      <4>1. /\ UNCHANGED channels /\ task'[t].pc \in {"casread", "failed"}
            /\ \A u \in Tasks \ {t} : task'[u] = task[u]
        BY <2>10, <3>2 DEF CasUpdates, TypeOK
      <4> QED
        BY Zenon, <2>13, <4>1, CasQuiet
    <3> QED
      BY Zenon, <3>1, <3>2
  <2>11. CASE CasRereads(t)
    <3>1. CASE Has(channels, task[t].peer)
      <4>1. /\ UNCHANGED channels /\ task'[t].pc = "cas" /\ task'[t].peer = task[t].peer
            /\ task'[t].generation = channels[task[t].peer].generation
            /\ task'[t].data = [channels[task[t].peer].value EXCEPT !.resize = task[t].data.resize]
            /\ \A u \in Tasks \ {t} : task'[u] = task[u]
        BY <2>11, <3>1 DEF CasRereads, TypeOK
      <4> QED
        BY <2>1, <2>13, <3>1, <4>1, CasReads
    <3>2. CASE ~Has(channels, task[t].peer)
      BY Zenon, <2>2, <2>11, <3>2 DEF CasRereads
    <3> QED
      BY Zenon, <3>1, <3>2
  <2>12. CASE RemoveDeletes(t)
    BY Zenon, <2>12, CasDeletes
  <2> QED
    BY Zenon, <1>2, <2>4, <2>5, <2>6, <2>7, <2>8, <2>9, <2>10, <2>11, <2>12 DEF Step
<1>3. CASE Operator
  <2>1. UNCHANGED <<channels, task>>
    BY Zenon, <1>3 DEF Operator, AddSecret, RemoveSecret
  <2> QED
    BY Zenon, <2>1 DEF CasInv, Removed
<1>4. CASE Crash
  <2>1. /\ UNCHANGED channels
        /\ \A t \in Tasks : task'[t] = task[t] \/ task'[t].pc = "failed"
        /\ \A t \in Tasks : task[t].pc = "done" => task'[t] = task[t]
    BY Zenon, <1>4 DEF Crash, TypeOK, Running
  <2>2. \A p : Removed(p) => Removed(p)'
    BY Zenon, <2>1 DEF Removed
  <2> QED
    BY <2>1, <2>2 DEF CasInv
<1>5. CASE UNCHANGED vars
  BY Zenon, <1>5 DEF vars, CasInv, Removed
<1> QED
  BY Zenon, <1>1, <1>2, <1>3, <1>4, <1>5 DEF Next, Run

\* Only the swap ends a call of cas_json well.
LEMMA OnlySwapEnds ==
    ASSUME TypeOK, [Next]_vars, NEW t \in Tasks, task[t].pc = "cas", task'[t].pc = "done"
    PROVE  CasUpdates(t) /\ Matches(channels, task[t].peer, task[t].generation)
<1>1. ~Operator /\ ~Crash /\ ~UNCHANGED vars
  <2>1. CASE Operator
    BY Zenon, <2>1 DEF Operator, AddSecret, RemoveSecret
  <2>2. CASE Crash
    BY <2>2 DEF Crash, TypeOK, Running
  <2>3. CASE UNCHANGED vars
    BY Zenon, <2>3 DEF vars
  <2> QED
    BY Zenon, <2>1, <2>2, <2>3
<1>2. ASSUME NEW u \in Tasks, Handler(u) \/ Step(u) PROVE u = t
  <2> SUFFICES ASSUME u # t PROVE FALSE
    OBVIOUS
  <2>1. CASE Handler(u)
    <3>1. task'[t] = task[t]
      BY Zenon, <2>1 DEF Handler, InvokeWithSecret, InvokeWithoutSecret, OpeningStateUpdate, HandleError,
                  ResizeChannel, AcceptResize, RemoveChannel, Saving, TypeOK
    <3> QED
      BY Zenon, <3>1
  <2>2. CASE Step(u)
    <3>1. task'[t] = task[t]
      BY Zenon, <2>2 DEF Step, ReadSecret, ConsumeSecret, ForgetSecret, SaveCreates, SaveRereads,
                  SaveUpdates, CasUpdates, CasRereads, RemoveDeletes, Goto, TypeOK
    <3> QED
      BY Zenon, <3>1
  <2> QED
    BY Zenon, <1>2, <2>1, <2>2
<1>3. Handler(t) \/ Step(t)
  BY Zenon, <1>1, <1>2 DEF Next, Run
<1>4. ~Handler(t)
  BY Zenon DEF Handler, InvokeWithSecret, InvokeWithoutSecret, OpeningStateUpdate, HandleError,
         ResizeChannel, AcceptResize, RemoveChannel, Called
<1>5. CasUpdates(t)
  BY Zenon, <1>3, <1>4 DEF Step, ReadSecret, ConsumeSecret, ForgetSecret, SaveCreates, SaveRereads,
                    SaveUpdates, CasRereads, RemoveDeletes
<1>6. ~Matches(channels, task[t].peer, task[t].generation) => task'[t].pc \in {"casread", "failed"}
  BY <1>5 DEF CasUpdates, TypeOK
<1> QED
  BY Zenon, <1>5, <1>6

\* On a channel that was not removed, cas_json keeps what other handlers have
\* saved (CasKeepsOthers), through any number of conflicts.
THEOREM CasIsSafe == Spec => CasKeepsOthers
<1> DEFINE Kept == \A t \in Tasks :
              LET p == task[t].peer IN
              task[t].pc = "cas" /\ task'[t].pc = "done" /\ ~Removed(p) =>
                 channels'[p].value = [channels[p].value EXCEPT !.resize = task[t].data.resize]
<1>1. Init => CasInv
  BY DEF Init, NoTask, CasInv
<1>2. TypeOK /\ CasInv /\ [Next]_vars => CasInv'
  BY Zenon, CasNext
<1>3. TypeOK /\ CasInv /\ [Next]_vars => Kept
  <2> SUFFICES ASSUME TypeOK, CasInv, [Next]_vars, NEW t \in Tasks,
                      task[t].pc = "cas", task'[t].pc = "done", ~Removed(task[t].peer)
               PROVE  channels'[task[t].peer].value =
                         [channels[task[t].peer].value EXCEPT !.resize = task[t].data.resize]
    OBVIOUS
  <2>1. CasUpdates(t) /\ Matches(channels, task[t].peer, task[t].generation)
    BY Zenon, OnlySwapEnds
  <2>2. channels'[task[t].peer].value = task[t].data
    BY <2>1 DEF CasUpdates, Matches, Has, Updated, Entry
  <2>3. task[t].data = [channels[task[t].peer].value EXCEPT !.resize = task[t].data.resize]
    BY Zenon, <2>1 DEF CasInv, Matches
  <2> QED
    BY Zenon, <2>2, <2>3
<1> HIDE DEF Kept
<1>4. Init /\ [][Next]_vars => [][Kept]_vars
  BY <1>1, <1>2, <1>3, TypeInit, TypeNext, PTL
<1> USE DEF Kept
<1> QED
  BY Zenon, <1>4 DEF Spec, CasKeepsOthers
=============================================================================
