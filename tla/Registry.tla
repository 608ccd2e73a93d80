------------------------------ MODULE Registry ------------------------------
(***************************************************************************)
(* What a record store promises (the opening comment of store.rs), without *)
(* its locks, threads, clock and files: a record is accepted in one step   *)
(* that also fixes the owner of its key, live records may lapse, retired   *)
(* keys stay, and a restart falls back on what was saved.  Store is shown  *)
(* to implement it.                                                        *)
(***************************************************************************)
EXTENDS Merge

CONSTANT Offered   \* the records that may ever be presented

VARIABLES
    open,     \* is the registry in service
    record,   \* the record of each key
    owner,    \* the identity each key belongs to
    image,    \* the contents taken to be saved
    saved     \* the contents a restart begins from

registry == <<open, record, owner, image, saved>>

Nothing == [records |-> [k \in PubKey |-> NoRecord], bindings |-> [k \in PubKey |-> NoKey]]

-----------------------------------------------------------------------------
(* A record that its key's owner may publish, and that beats what is held, *)
(* is held from now on, and the key is its identity's.                     *)
Accept(r) ==
    /\ open
    /\ mergeable(r, record[r.key], owner[r.key])
    /\ record' = [record EXCEPT ![r.key] = r]
    /\ owner' = [owner EXCEPT ![r.key] = r.identity]
    /\ UNCHANGED <<open, image, saved>>

(* Live records lapse.  Their keys keep their owners.                      *)
Lapse ==
    /\ open
    /\ \A k \in PubKey : record'[k] = record[k] \/ (record'[k] = NoRecord /\ ~retired(record[k]))
    /\ DOMAIN record' = PubKey
    /\ UNCHANGED <<open, owner, image, saved>>

(* The contents are taken, and saved later.  An owner that has never been  *)
(* saved may be missed.                                                    *)
Take ==
    /\ open
    /\ image' \in [records : {record}, bindings : [PubKey -> PubKey \union {NoKey}]]
    /\ \A k \in PubKey :
          \/ image'.bindings[k] = owner[k]
          \/ image'.bindings[k] = NoKey /\ saved.bindings[k] = NoKey
    /\ UNCHANGED <<open, record, owner, saved>>

Save ==
    /\ saved' = image
    /\ image' = Nothing
    /\ UNCHANGED <<open, record, owner>>

Discard ==
    /\ image' = Nothing
    /\ UNCHANGED <<open, record, owner, saved>>

Stop ==
    /\ open' = FALSE
    /\ record' = Nothing.records
    /\ owner' = Nothing.bindings
    /\ image' = Nothing
    /\ UNCHANGED saved

(* Every retired key and every owner that was saved is back, and some of   *)
(* the live records.                                                       *)
Start ==
    /\ ~open
    /\ open' = TRUE
    /\ DOMAIN record' = PubKey
    /\ \A k \in PubKey :
          \/ record'[k] = saved.records[k]
          \/ record'[k] = NoRecord /\ ~retired(saved.records[k])
    /\ owner' = [k \in PubKey |->
                    IF record'[k] = NoRecord THEN saved.bindings[k] ELSE record'[k].identity]
    /\ \A k \in PubKey : saved.bindings[k] # NoKey => owner'[k] = saved.bindings[k]
    /\ UNCHANGED <<image, saved>>

Init ==
    /\ open = TRUE
    /\ record = Nothing.records
    /\ owner = Nothing.bindings
    /\ image = Nothing
    /\ saved = Nothing

Next ==
    \/ \E r \in Offered : Accept(r)
    \/ Lapse
    \/ Take
    \/ Save
    \/ Discard
    \/ Stop
    \/ Start

Spec == Init /\ [][Next]_registry
=============================================================================
