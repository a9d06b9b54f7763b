---------------------------- MODULE Provisioning ----------------------------
(***************************************************************************)
(* How hosted channels come to be and how handlers that run at the same    *)
(* time share their records: provisioning secrets, establishment, resize,  *)
(* errors and removal (channel.rs), one datastore operation per step.      *)
(*                                                                         *)
(* HTLCs are HostedChannel's business and left out here, so that nothing   *)
(* moves the client's balance, which is below every capacity.  A client    *)
(* that invokes names a refund script, so that no record is NotOpened.     *)
(***************************************************************************)
EXTENDS Datastore, FiniteSets

CONSTANTS
    Peers,
    Secrets,         \* provisioning secrets a client may present
    NoSecret,        \* an invoke without a secret
    Capacities,      \* capacities of secrets and resizes
    DefaultCapacity, \* the capacity of the effective policy
    RequireSecret,   \* canopus-require-secret
    Tasks,           \* handler calls
    Kinds,           \* the handlers that are called
    MaxAdds,         \* bound on how often one secret is added
    MaxRetries       \* max_retries of cas_json

ASSUME ProvisioningAssumption ==
    /\ Peers # {} /\ NoSecret \notin Secrets /\ IsFiniteSet(Tasks)
    /\ Capacities \subseteq Nat \ {0} /\ DefaultCapacity \in Capacities
    /\ RequireSecret \in BOOLEAN
    /\ MaxAdds \in Nat /\ MaxRetries \in Nat

VARIABLES
    secrets,   \* datastore canopus/secrets
    channels,  \* datastore canopus/channels
    task,      \* the handler calls: what each has read and does next
    added      \* history: how often each secret was added

vars == <<secrets, channels, task, added>>

\* ChannelData: resize is the capacity accepting_resize_sat allows, or 0.
Data == [established : BOOLEAN, errored : BOOLEAN,
         capacity : Capacities, resize : Capacities \cup {0}]

Fresh(c) == [established |-> FALSE, errored |-> FALSE, capacity |-> c, resize |-> 0]

\* derive_status of a record without an override
Status(d) == IF d.errored THEN "Errored" ELSE IF d.established THEN "Active" ELSE "Opening"

NoTask == [pc |-> "idle", kind |-> "none", peer |-> CHOOSE p \in Peers : TRUE,
           secret |-> NoSecret, generation |-> 0, data |-> Fresh(DefaultCapacity),
           used |-> FALSE, tries |-> 0]

Running == {"secret", "consume", "forget", "save", "reread", "update",
            "cas", "casread", "delete"}

Init ==
    /\ secrets = Empty /\ channels = Empty
    /\ task = [t \in Tasks |-> NoTask]
    /\ added = [s \in Secrets |-> 0]

Goto(t, l) == task' = [task EXCEPT ![t].pc = l]

\* A handler is called for a peer and loads its record.
Called(t, k, p) == task[t].pc = "idle" /\ k \in Kinds /\ p \in Peers

\* ... and goes on to save what it makes of it.
Saving(t, k, p, d) ==
    /\ task' = [task EXCEPT ![t] = [NoTask EXCEPT !.pc = "save", !.kind = k, !.peer = p,
                                                  !.data = d]]
    /\ UNCHANGED <<secrets, channels, added>>

-----------------------------------------------------------------------------
(* The operator's secrets                                                  *)

\* add_secret
AddSecret(s, c) ==
    /\ added[s] < MaxAdds
    /\ ~Has(secrets, s)
    /\ secrets' = Created(secrets, s, [consumed |-> FALSE, capacity |-> c])
    /\ added' = [added EXCEPT ![s] = @ + 1]
    /\ UNCHANGED <<channels, task>>

\* remove_secret
RemoveSecret(s) ==
    /\ Has(secrets, s)
    /\ secrets' = Deleted(secrets, s)
    /\ UNCHANGED <<channels, task, added>>

-----------------------------------------------------------------------------
(* handle_invoke for a peer without a channel; for one with a channel it   *)
(* replies and saves nothing.                                              *)

InvokeWithSecret(t, p, s) ==
    /\ Called(t, "invoke", p) /\ ~Has(channels, p)
    /\ task' = [task EXCEPT ![t] = [NoTask EXCEPT !.pc = "secret", !.kind = "invoke",
                                                  !.peer = p, !.secret = s]]
    /\ UNCHANGED <<secrets, channels, added>>

InvokeWithoutSecret(t, p) ==
    /\ Called(t, "invoke", p) /\ ~Has(channels, p)
    /\ ~RequireSecret
    /\ Saving(t, "invoke", p, Fresh(DefaultCapacity))

\* consume_secret reads the secret; an unknown or consumed one grants nothing,
\* and a channel by the policy where no secret is required.
ReadSecret(t) ==
    LET s == task[t].secret
        known == Has(secrets, s) /\ ~secrets[s].value.consumed
    IN /\ task[t].pc = "secret"
       /\ \/ /\ known
             /\ task' = [task EXCEPT ![t].pc = "consume",
                                     ![t].generation = secrets[s].generation,
                                     ![t].data = Fresh(secrets[s].value.capacity)]
          \/ ~known /\ Goto(t, IF RequireSecret THEN "done" ELSE "save")
       /\ UNCHANGED <<secrets, channels, added>>

\* ... marks it consumed by compare-and-swap,
ConsumeSecret(t) ==
    LET s == task[t].secret IN
    /\ task[t].pc = "consume"
    /\ \/ /\ Matches(secrets, s, task[t].generation)
          /\ secrets' = Updated(secrets, s, [consumed |-> TRUE,
                                             capacity |-> task[t].data.capacity])
          /\ task' = [task EXCEPT ![t].pc = "forget", ![t].used = TRUE]
       \/ /\ ~Matches(secrets, s, task[t].generation)
          /\ Goto(t, "failed") /\ UNCHANGED secrets
    /\ UNCHANGED <<channels, added>>

\* ... and deletes it.  Deleting a key that is gone is an error of lightningd's
\* datastore and none of MemoryStore.
ForgetSecret(t) ==
    LET s == task[t].secret IN
    /\ task[t].pc = "forget"
    /\ \/ Has(secrets, s) /\ Goto(t, "save")
       \/ ~Has(secrets, s) /\ (Goto(t, "save") \/ Goto(t, "failed"))
    /\ secrets' = Deleted(secrets, s)
    /\ UNCHANGED <<channels, added>>

-----------------------------------------------------------------------------
(* The other handlers that load a record, change it and save it            *)

\* handle_opening_state_update, with a good signature
OpeningStateUpdate(t, p) ==
    /\ Called(t, "open", p) /\ Has(channels, p)
    /\ Status(channels[p].value) = "Opening"
    /\ Saving(t, "open", p, [channels[p].value EXCEPT !.established = TRUE])

\* handle_error and every other handler that marks the channel errored
HandleError(t, p) ==
    /\ Called(t, "error", p) /\ Has(channels, p)
    /\ Saving(t, "error", p, [channels[p].value EXCEPT !.errored = TRUE])

\* handle_resize_channel, within what the operator accepts
ResizeChannel(t, p, c) ==
    /\ Called(t, "resize", p) /\ Has(channels, p)
    /\ Status(channels[p].value) = "Active"
    /\ c <= channels[p].value.resize
    /\ Saving(t, "resize", p, [channels[p].value EXCEPT !.capacity = c, !.resize = 0])

-----------------------------------------------------------------------------
(* save_channel with no generation                                         *)

\* It creates the record,
SaveCreates(t) ==
    LET p == task[t].peer IN
    /\ task[t].pc = "save"
    /\ \/ /\ ~Has(channels, p)
          /\ channels' = Created(channels, p, task[t].data) /\ Goto(t, "done")
       \/ /\ Has(channels, p)
          /\ Goto(t, "reread") /\ UNCHANGED channels
    /\ UNCHANGED <<secrets, added>>

\* ... or, if there is one, looks up its generation
SaveRereads(t) ==
    LET p == task[t].peer IN
    /\ task[t].pc = "reread"
    /\ \/ /\ Has(channels, p)
          /\ task' = [task EXCEPT ![t].pc = "update",
                                  ![t].generation = channels[p].generation]
       \/ ~Has(channels, p) /\ Goto(t, "failed")
    /\ UNCHANGED <<secrets, channels, added>>

\* ... and replaces it.
SaveUpdates(t) ==
    LET p == task[t].peer IN
    /\ task[t].pc = "update"
    /\ \/ /\ Matches(channels, p, task[t].generation)
          /\ channels' = Updated(channels, p, task[t].data) /\ Goto(t, "done")
       \/ /\ ~Matches(channels, p, task[t].generation)
          /\ Goto(t, "failed") /\ UNCHANGED channels
    /\ UNCHANGED <<secrets, added>>

-----------------------------------------------------------------------------
(* accept_resize by cas_json, and remove_channel                           *)

AcceptResize(t, p, m) ==
    /\ Called(t, "accept", p) /\ Has(channels, p)
    /\ task' = [task EXCEPT ![t] =
                  [NoTask EXCEPT !.pc = "cas", !.kind = "accept", !.peer = p,
                                 !.generation = channels[p].generation,
                                 !.data = [channels[p].value EXCEPT !.resize = m]]]
    /\ UNCHANGED <<secrets, channels, added>>

\* Mutant: after a conflict the old value is written again with the new generation.
CasRereadsGeneration(t) ==
    LET p == task[t].peer IN
    /\ task[t].pc = "casread" /\ Has(channels, p)
    /\ task' = [task EXCEPT ![t].pc = "cas", ![t].generation = channels[p].generation]
    /\ UNCHANGED <<secrets, channels, added>>

CasRereads(t) ==
    LET p == task[t].peer IN
    /\ task[t].pc = "casread"
    /\ \/ /\ Has(channels, p)
          /\ task' = [task EXCEPT ![t].pc = "cas",
                                  ![t].generation = channels[p].generation,
                                  ![t].data = [channels[p].value EXCEPT !.resize = task[t].data.resize]]
       \/ ~Has(channels, p) /\ Goto(t, "failed")
    /\ UNCHANGED <<secrets, channels, added>>

CasUpdates(t) ==
    LET p == task[t].peer IN
    /\ task[t].pc = "cas"
    /\ \/ /\ Matches(channels, p, task[t].generation)
          /\ channels' = Updated(channels, p, task[t].data)
          /\ Goto(t, "done")
       \/ /\ ~Matches(channels, p, task[t].generation)
          /\ task' = [task EXCEPT ![t].tries = @ + 1,
                        ![t].pc = IF Has(channels, p) /\ task[t].tries + 1 < MaxRetries
                                  THEN "casread" ELSE "failed"]
          /\ UNCHANGED channels
    /\ UNCHANGED <<secrets, added>>

RemoveChannel(t, p) ==
    /\ Called(t, "remove", p) /\ Has(channels, p)
    /\ task' = [task EXCEPT ![t] = [NoTask EXCEPT !.pc = "delete", !.kind = "remove",
                                                  !.peer = p]]
    /\ UNCHANGED <<secrets, channels, added>>

RemoveDeletes(t) ==
    /\ task[t].pc = "delete"
    /\ channels' = Deleted(channels, task[t].peer)
    /\ Goto(t, "done")
    /\ UNCHANGED <<secrets, added>>

-----------------------------------------------------------------------------
(* The specification                                                       *)

\* The plugin stops: the handlers under way are lost, the datastore stays.
Crash ==
    /\ \E t \in Tasks : task[t].pc \in Running
    /\ task' = [t \in Tasks |-> IF task[t].pc \in Running
                               THEN [task[t] EXCEPT !.pc = "failed"] ELSE task[t]]
    /\ UNCHANGED <<secrets, channels, added>>

Operator == \E s \in Secrets : RemoveSecret(s) \/ \E c \in Capacities : AddSecret(s, c)

Handler(t) == \E p \in Peers :
    \/ \E s \in Secrets : InvokeWithSecret(t, p, s)
    \/ InvokeWithoutSecret(t, p) \/ OpeningStateUpdate(t, p) \/ HandleError(t, p)
    \/ \E c \in Capacities : ResizeChannel(t, p, c)
    \/ \E m \in Capacities \cup {0} : AcceptResize(t, p, m)
    \/ RemoveChannel(t, p)

Step(t) ==
    \/ ReadSecret(t) \/ ConsumeSecret(t) \/ ForgetSecret(t)
    \/ SaveCreates(t) \/ SaveRereads(t) \/ SaveUpdates(t)
    \/ CasUpdates(t) \/ CasRereads(t) \/ RemoveDeletes(t)

Run == Operator \/ \E t \in Tasks : Handler(t) \/ Step(t)
Next == Run \/ Crash

Spec == Init /\ [][Next]_vars
RunSpec == Init /\ [][Run]_vars

-----------------------------------------------------------------------------
(* Properties                                                              *)

TypeOK ==
    /\ DOMAIN secrets \subseteq Secrets
    /\ \A s \in DOMAIN secrets :
          secrets[s] \in [generation : Nat, value : [consumed : BOOLEAN, capacity : Capacities]]
    /\ DOMAIN channels \subseteq Peers
    /\ \A p \in DOMAIN channels : channels[p] \in [generation : Nat, value : Data]
    /\ task \in [Tasks -> [pc : Running \cup {"idle", "done", "failed"},
                          kind : {"none", "invoke", "open", "error", "resize", "accept", "remove"},
                          peer : Peers, secret : Secrets \cup {NoSecret}, generation : Nat,
                          data : Data, used : BOOLEAN, tries : Nat]]
    /\ added \in [Secrets -> Nat]

\* The invokes that have consumed the secret, each to save one channel.
Users(s) == {t \in Tasks : task[t].used /\ task[t].secret = s}

\* A secret grants one channel each time it is added, however many clients
\* present it at the same time and whatever the operator removes and adds again
\* in between: two invokes that have read it cannot both consume it.
SecretGrantsOnce ==
    \A s \in Secrets : Cardinality(Users(s)) <= added[s]

\* The peer's channel has been removed.
Removed(p) == \E t \in Tasks :
    task[t].kind = "remove" /\ task[t].pc = "done" /\ task[t].peer = p

\* accept_resize changes nothing but the authorisation: what other handlers have
\* saved since it read the record is kept, however often cas_json has to retry.
\* A channel that is removed and opened again starts over at generation 0 and may
\* meet the generation that was read: this is about channels that were not.
CasKeepsOthers ==
    [][\A t \in Tasks :
          LET p == task[t].peer IN
          task[t].pc = "cas" /\ task'[t].pc = "done" /\ ~Removed(p) =>
             channels'[p].value = [channels[p].value EXCEPT !.resize = task[t].data.resize]]_vars

\* An invoke leaves a channel that exists as it is, above all one that both
\* sides have opened.
ExistingIsKept ==
    [][\A t \in Tasks :
          task[t].kind = "invoke" /\ task[t].pc = "update" /\ task'[t].pc = "done" =>
             ~channels[task[t].peer].value.established]_vars
=============================================================================
