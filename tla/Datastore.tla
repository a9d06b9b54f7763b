----------------------------- MODULE Datastore -----------------------------
(***************************************************************************)
(* The datastore of lightningd as the plugin uses it (store.rs,            *)
(* cln_store.rs).  A store is a function from the keys that exist to       *)
(* entries, and an entry is a value with the generation that               *)
(* compare-and-swap goes by: 0 when it is created, one more with every     *)
(* update.  Each operation of the Store trait is one call of lightningd    *)
(* and happens in one step.                                                *)
(***************************************************************************)
EXTENDS Naturals

Entry(g, v) == [generation |-> g, value |-> v]

\* The store with no keys.
Empty == [k \in {} |-> Entry(0, k)]

\* Store::exists; get returns the entry
Has(st, k) == k \in DOMAIN st

\* Store::create, of a key that does not exist
Created(st, k, v) == [x \in DOMAIN st \cup {k} |-> IF x = k THEN Entry(0, v) ELSE st[x]]

\* Mutant: an update that does not compare generations.
MatchesAny(st, k, g) == Has(st, k)

\* Store::update: what it requires ...
Matches(st, k, g) == Has(st, k) /\ st[k].generation = g

\* ... and what it does.
Updated(st, k, v) == [st EXCEPT ![k] = Entry(st[k].generation + 1, v)]

\* Store::delete
Deleted(st, k) == [x \in DOMAIN st \ {k} |-> st[x]]
=============================================================================
