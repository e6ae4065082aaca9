--------------------------- MODULE WalletSettings ---------------------------
(***************************************************************************)
(* The console's wallet settings (WalletManagementStore of                 *)
(* fomo/web/wallet_management.py): two files, the registry of the traders' *)
(* wallets and the list of watched wallets, and a trail of what was done.  *)
(* A request reads its file, changes the document, puts the new file in    *)
(* place of the old one and then writes the trail, all under one lock; the *)
(* watcher reads the list with no lock (enabled_wallets of                 *)
(* fomo/watching/watchlist.py).                                            *)
(***************************************************************************)
EXTENDS RiskEngine, SequencesExt

CONSTANTS
    NoId,           \* a row without an id
    WatchRows,      \* rows of the list: [id, address, chains, status, enabled]
    Imports,        \* sequences of such rows
    KolRows,        \* rows of the registry: [id] and the entry
    MaxRows,        \* maximum_import_rows
    MaxSaves        \* bound: files written

ASSUME SettingsAssumption ==
    /\ \A rows \in Imports : rows \in Seq(ToSet(rows))
    /\ \A row \in KolRows :
        row = [id |-> row.id, kol |-> row.kol, address |-> row.address, chains |-> row.chains,
               confidence |-> row.confidence, evidenced |-> row.evidenced, status |-> row.status]

VARIABLES
    watch,          \* the list on disk, a sequence of wallets
    registry,       \* the registry on disk, a sequence of entries
    saves,          \* the versions written; new ids are made of it
    unlogged,       \* the lines of the trail that the request in hand has still to write
    trail,          \* the lines written: {[action, id]}
    padded          \* history: ids of the registry that a request brought with blanks around

settingsVars == <<watch, registry, saves, unlogged, trail, padded>>

SettingsInit ==
    /\ watch = <<>> /\ registry = <<>> /\ saves = 0
    /\ unlogged = <<>> /\ trail = {} /\ padded = {}

-----------------------------------------------------------------------------
Ready == unlogged = <<>> /\ saves < MaxSaves

\* one request's change of a file, and the lines it will leave
Saves(lines) ==
    /\ saves' = saves + 1
    /\ unlogged' = lines
    /\ UNCHANGED trail
Line(action, id) == [action |-> action, id |-> id]

\* _chain_ids and _normalize_watch
OneFamily(chains) == chains # {} /\ \A c, d \in chains : c[1] = d[1]
ValidRow(row) == OneFamily(row.chains) /\ row.status \in {"active", "paused"}

\* nth tells the rows of one import apart
IdOf(row, nth) == IF row.id = NoId THEN <<saves, nth>> ELSE row.id
Normalized(row, nth) ==
    [id |-> IdOf(row, nth), address |-> row.address, chains |-> row.chains, status |-> row.status,
     enabled |-> IF row.enabled = Nothing THEN row.status = "active" ELSE row.enabled]

Clash(v, w) == v.address = w.address /\ v.chains \cap w.chains # {}
Places(list, id) == {i \in DOMAIN list : list[i].id = id}

\* the first place of an id, or a new one at the end
Put(list, entry) ==
    IF Places(list, entry.id) = {} THEN Append(list, entry)
    ELSE [list EXCEPT ![Min(Places(list, entry.id))] = entry]
Verb(list, id) == IF Places(list, id) = {} THEN "create" ELSE "update"

UpsertWatch(row) ==
    /\ Ready /\ ValidRow(row)
    /\ LET w == Normalized(row, 1)
       IN  /\ \A i \in DOMAIN watch : watch[i].id # w.id => ~Clash(watch[i], w)
           /\ watch' = Put(watch, w)
           /\ Saves(<<Line(Verb(watch, w.id), w.id)>>)
    /\ UNCHANGED <<registry, padded>>

\* only the status: enabled stays as the row was first saved with
SetWatchStatus(id, status) ==
    /\ Ready /\ Places(watch, id) # {}
    /\ watch' = [watch EXCEPT ![Min(Places(watch, id))].status = status]
    /\ Saves(<<Line(status, id)>>)
    /\ UNCHANGED <<registry, padded>>

\* every wallet of that id; the others stay in their order
DeleteWatch(id) ==
    /\ Ready /\ Places(watch, id) # {}
    /\ LET stay == DOMAIN watch \ Places(watch, id)
       IN  \E from \in [1..Cardinality(stay) -> stay] :
             /\ \A i, j \in DOMAIN from : i < j => from[i] < from[j]
             /\ watch' = [i \in DOMAIN from |-> watch[from[i]]]
    /\ Saves(<<Line("delete", id)>>)
    /\ UNCHANGED <<registry, padded>>

\* a mutant: the rows of a batch are only compared with the file
NewToFile(rows) == \A i \in DOMAIN rows, j \in DOMAIN watch : ~Clash(rows[i], watch[j])

NewToAll(rows) ==
    /\ \A i \in DOMAIN rows, j \in DOMAIN watch : ~Clash(rows[i], watch[j])
    /\ \A i, j \in DOMAIN rows : i # j => ~Clash(rows[i], rows[j])

\* all rows or none; their ids are taken as they come
ImportWatch(rows) ==
    /\ Ready /\ Len(rows) \in 1..MaxRows
    /\ \A i \in DOMAIN rows : ValidRow(rows[i])
    /\ NewToAll(rows)
    /\ LET new == [i \in DOMAIN rows |-> Normalized(rows[i], i)]
       IN  /\ watch' = watch \o new
           /\ Saves([i \in DOMAIN new |-> Line("import", new[i].id)])
    /\ UNCHANGED <<registry, padded>>

\* WalletRegistry of the document: no two of its rows have an address and a chain in common
Loads(list) ==
    /\ ValidRegistry(ToSet(list))
    /\ \A i, j \in DOMAIN list : i # j => ~Clash(list[i], list[j])

\* an id with blanks around it finds no entry and is stored without them; _save_registry
\* builds the index of the whole document before it writes it
UpsertKol(row, blanks) ==
    /\ Ready
    /\ LET entry == [row EXCEPT !.id = IdOf(row, 1)]
           new   == IF blanks THEN Append(registry, entry) ELSE Put(registry, entry)
       IN  /\ ValidEntry(entry) /\ entry.evidenced
           /\ Loads(new)
           /\ registry' = new
           /\ padded' = IF blanks THEN padded \cup {entry.id} ELSE padded
           /\ Saves(<<Line(IF blanks THEN "create" ELSE Verb(registry, entry.id), entry.id)>>)
    /\ UNCHANGED watch

\* the first entry of that id
SetKolStatus(id, status) ==
    /\ Ready /\ Places(registry, id) # {}
    /\ registry' = [registry EXCEPT ![Min(Places(registry, id))].status = status]
    /\ Loads(registry')
    /\ Saves(<<Line(status, id)>>)
    /\ UNCHANGED <<watch, padded>>

\* _audit
WriteTrail ==
    /\ unlogged # <<>>
    /\ trail' = trail \cup {Head(unlogged)}
    /\ unlogged' = Tail(unlogged)
    /\ UNCHANGED <<watch, registry, saves, padded>>

\* the console ends, or the trail cannot be written: the change stands
Interrupted ==
    /\ unlogged # <<>>
    /\ unlogged' = <<>>
    /\ UNCHANGED <<watch, registry, saves, trail, padded>>

KnownIds(list) == {list[i].id : i \in DOMAIN list}

SettingsNext ==
    \/ \E row \in WatchRows : UpsertWatch(row)
    \/ \E id \in KnownIds(watch), s \in {"active", "paused"} : SetWatchStatus(id, s)
    \/ \E id \in KnownIds(watch) : DeleteWatch(id)
    \/ \E rows \in Imports : ImportWatch(rows)
    \/ \E row \in KolRows, blanks \in BOOLEAN : UpsertKol(row, blanks)
    \/ \E id \in KnownIds(registry), s \in {"active", "shadow-only", "revoked"} : SetKolStatus(id, s)
    \/ WriteTrail \/ Interrupted

-----------------------------------------------------------------------------
(* The watcher's selection: enabled_wallets refuses the whole list when two  *)
(* of a chain's wallets are the same.                                        *)

Chosen(c) == {i \in DOMAIN watch : watch[i].enabled /\ watch[i].status = "active" /\ c \in watch[i].chains}

-----------------------------------------------------------------------------
(* Properties.                                                               *)

\* No sequence of requests leaves a list that the watcher refuses, with one address twice
\* among a chain's wallets, unless both came in by imports under one id; nor a registry that
\* the risk engine refuses, with one address twice on a chain; and an id is twice in the
\* registry, where a status that is set reaches the first entry only, after no other request
\* than one that had blanks around that id (mutate, enabled_wallets, WalletRegistry).
SettingsAreUsable ==
    /\ \A c \in UNION {watch[i].chains : i \in DOMAIN watch} : \A i, j \in Chosen(c) :
         i # j /\ watch[i].address = watch[j].address => watch[i].id = watch[j].id
    /\ Loads(registry)
    /\ \A i, j \in DOMAIN registry : i # j /\ registry[i].id = registry[j].id => registry[i].id \in padded
=============================================================================
