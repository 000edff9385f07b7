------------------------------ MODULE Service ------------------------------
(***************************************************************************)
(* The TokenHub API process of src/tokenhub/api.py with the state it      *)
(* owns: the model registry (models.py), the provider registry and its    *)
(* vault (registry.py, vault.py) and the SQLite tables (persistence.py).  *)
(*                                                                         *)
(* Admin handlers run on Flask's worker threads.  POST /admin/models is   *)
(* two steps, because _save_models takes a copy of the registry           *)
(* (export_models) and only then writes it, and another thread may run   *)
(* in between; POST /admin/providers is one step, because the vault it   *)
(* saves is exported as the live dict.  Any save may fail (the handler    *)
(* answers 500).  The process may crash at any point and restart, which   *)
(* rebuilds memory from the database (_load_persisted_data).              *)
(***************************************************************************)
EXTENDS Integers, Sequences, SequencesExt, TLC, VaultCodec

CONSTANTS
    Threads,        \* Flask worker threads serving admin requests
    Defaults,       \* the models ModelRegistry() seeds, in order
    ModelUpdates,   \* ModelMetadata bodies an admin may POST
    ProviderNames,  \* provider names an admin may POST
    ProviderTypes,  \* provider_type values an admin may POST
    KnownTypes,     \* keys of _provider_classes ({"mock"})
    SaveCanFail,    \* whether a write to SQLite may raise
    MaxRestarts,    \* bound on process restarts
    NoModel,        \* no model pending on a thread
    ApiKeys,        \* api_key values an admin may POST (VaultCodec plaintexts)
    Password,       \* admin_password, the vault's password
    NoRow           \* load_vault_data finding no row

VARIABLES
    catalog,        \* ModelRegistry._models, in insertion order
    directory,      \* ProviderRegistry._providers: names registered
    vault,          \* SecureVault._data: provider name -> ciphertext of its key
    vsalt,          \* SecureVault.salt
    vkey,           \* SecureVault.key
    dbModels,       \* rows of the models table, in rowid order
    dbVault,        \* the vault_data row: [salt, data], or NoRow
    pc,             \* per thread: "idle" or "exported" (inside _save_models)
    pending,        \* per thread: the model its add_model registered
    snap,           \* per thread: the copy export_models returned
    restarts,       \* restarts so far
    ackedModels,    \* history: name -> version last answered 200
    ackedProviders, \* history: providers whose POST was answered 200
    everRegistered, \* history: providers ever put in _providers
    keysSent        \* history: provider name -> api_keys stored for it

vaultVars == <<vault, vsalt, vkey>>

history == <<ackedModels, ackedProviders, everRegistered, keysSent>>

vars == <<catalog, directory, vaultVars, dbModels, dbVault, pc, pending, snap,
          restarts, history>>

-----------------------------------------------------------------------------
(* Registry and persistence operations                                     *)

Names(cat) == {cat[i].name : i \in DOMAIN cat}

\* ModelRegistry.register_model / import_models: self._models[name] = m.
\* A dict keeps the position of a name it already holds and appends a new one.
RegisterModel(cat, m) ==
    IF m.name \in Names(cat)
    THEN [i \in DOMAIN cat |-> IF cat[i].name = m.name THEN m ELSE cat[i]]
    ELSE Append(cat, m)

\* PersistenceManager.save_models: INSERT OR REPLACE of every exported
\* model; REPLACE deletes the old row, so the new one gets the last rowid.
\* Rows of names absent from the copy are kept.
SaveModels(rows, copy) ==
    LET upsert(db, m) == Append(SelectSeq(db, LAMBDA r : r.name # m.name), m)
    IN  FoldLeft(upsert, rows, copy)

\* load_models: SELECT with no ORDER BY; the name index does not cover
\* the selected columns, so SQLite scans the table in rowid order, and the
\* dict it builds keeps that order.
LoadModels == dbModels

\* TokenHubAPI._load_persisted_data on a fresh ModelRegistry: the defaults,
\* then import_models over the rows load_models returns.
LoadedCatalog == FoldLeft(RegisterModel, Defaults, LoadModels)

\* SecureVault.store: the key, encrypted under the vault's key, is put under
\* provider_<name>_api_key (a raise in _encrypt leaves _data as it was).
Store(v, name, key) == (name :> Encrypt(vkey, key)) @@ v

\* SecureVault.retrieve: None for a name with no entry, else _decrypt.
Retrieve(v, name) == IF name \in DOMAIN v THEN Decrypt(vkey, v[name]) ELSE NoRow

\* load_vault_data: the newest vault_data row, or None; save_vault_data
\* deletes the others, so there is at most one.
LoadVaultData == dbVault

\* The salt os.urandom(16) gives the vault of the k-th process.
FreshSalt(k) == k

\* Slip: the imported salt is kept but the key is not derived again.
ImportEncryptedKeepsKey(row, k) ==
    IF row = NoRow
    THEN [data |-> <<>>, salt |-> FreshSalt(k), key |-> DeriveKey(Password, FreshSalt(k))]
    ELSE [data |-> row.data, salt |-> row.salt, key |-> DeriveKey(Password, FreshSalt(k))]

\* A new SecureVault(admin_password) of the k-th process and, when a row
\* was saved, import_encrypted of it: the salt and data replaced and the
\* key derived again from the imported salt.
ImportEncrypted(row, k) ==
    IF row = NoRow
    THEN [data |-> <<>>, salt |-> FreshSalt(k), key |-> DeriveKey(Password, FreshSalt(k))]
    ELSE [data |-> row.data, salt |-> row.salt, key |-> DeriveKey(Password, row.salt)]

\* Slip: the vault row is written from the data as it was before the store.
VaultRowBeforeStore == [salt |-> vsalt, data |-> vault]

\* _save_vault: save_vault_data deletes the row and inserts export_encrypted(),
\* the salt and the live _data.
VaultRow == [salt |-> vsalt, data |-> vault']

\* A write to SQLite either commits or raises.
SaveOutcomes == IF SaveCanFail THEN {TRUE, FALSE} ELSE {TRUE}

-----------------------------------------------------------------------------
(* Handlers                                                                *)

\* _init_database on a new database file: CREATE TABLE IF NOT EXISTS
\* leaves the vault_data and models tables empty.
InitDatabase ==
    /\ dbModels = <<>>
    /\ dbVault = NoRow

Init ==
    /\ catalog = Defaults
    /\ directory = {}
    /\ vault = <<>>
    /\ vsalt = FreshSalt(1)
    /\ vkey = DeriveKey(Password, FreshSalt(1))
    /\ InitDatabase
    /\ pc = [t \in Threads |-> "idle"]
    /\ pending = [t \in Threads |-> NoModel]
    /\ snap = [t \in Threads |-> <<>>]
    /\ restarts = 0
    /\ ackedModels = <<>>
    /\ ackedProviders = {}
    /\ everRegistered = {}
    /\ keysSent = [n \in ProviderNames |-> {}]

\* POST /admin/models up to _save_models' export_models: the model is
\* registered (live for chat requests at once) and the registry copied.
AddModelRegister(t, m) ==
    /\ pc[t] = "idle"
    /\ catalog' = RegisterModel(catalog, m)
    /\ snap' = [snap EXCEPT ![t] = RegisterModel(catalog, m)]
    /\ pending' = [pending EXCEPT ![t] = m]
    /\ pc' = [pc EXCEPT ![t] = "exported"]
    /\ UNCHANGED <<directory, vaultVars, dbModels, dbVault, restarts, history>>

\* Mutant: the 200 is recorded whether or not the save committed.
AddModelSaveAcksFailure(t) ==
    /\ pc[t] = "exported"
    /\ \E ok \in SaveOutcomes :
          dbModels' = IF ok THEN SaveModels(dbModels, snap[t]) ELSE dbModels
    /\ ackedModels' = (pending[t].name :> pending[t]) @@ ackedModels
    /\ pc' = [pc EXCEPT ![t] = "idle"]
    /\ pending' = [pending EXCEPT ![t] = NoModel]
    /\ snap' = [snap EXCEPT ![t] = <<>>]
    /\ UNCHANGED <<catalog, directory, vaultVars, dbVault, restarts, ackedProviders,
                   everRegistered, keysSent>>

\* The rest of the handler: persistence.save_models(models_data) with the
\* copy taken before, then 200, or 500 if SQLite raised.
AddModelSave(t) ==
    /\ pc[t] = "exported"
    /\ \E ok \in SaveOutcomes :
          /\ dbModels' = IF ok THEN SaveModels(dbModels, snap[t]) ELSE dbModels
          /\ ackedModels' = IF ok THEN (pending[t].name :> pending[t]) @@ ackedModels
                            ELSE ackedModels
    /\ pc' = [pc EXCEPT ![t] = "idle"]
    /\ pending' = [pending EXCEPT ![t] = NoModel]
    /\ snap' = [snap EXCEPT ![t] = <<>>]
    /\ UNCHANGED <<catalog, directory, vaultVars, dbVault, restarts, ackedProviders,
                   everRegistered, keysSent>>

\* POST /admin/providers: ProviderRegistry.add_provider stores the key in
\* the vault (a key _encrypt cannot encrypt raises first: 500, nothing
\* changed), then looks the type up (an unknown type raises: 500, vault
\* already written, no save), then registers the adapter; the handler then
\* runs _save_vault, which writes the live vault data (200, or 500 if
\* SQLite raised, the provider staying registered).
AddProvider(name, type, key) ==
    /\ Encryptable(key)
    /\ vault' = Store(vault, name, key)
    /\ keysSent' = [keysSent EXCEPT ![name] = @ \cup {key}]
    /\ \/ /\ type \notin KnownTypes
          /\ UNCHANGED <<directory, dbVault, ackedProviders, everRegistered>>
       \/ /\ type \in KnownTypes
          /\ directory' = directory \cup {name}
          /\ everRegistered' = everRegistered \cup {name}
          /\ \E ok \in SaveOutcomes :
                /\ dbVault' = IF ok THEN VaultRow ELSE dbVault
                /\ ackedProviders' = IF ok THEN ackedProviders \cup {name}
                                     ELSE ackedProviders
    /\ UNCHANGED <<catalog, dbModels, pc, pending, snap, restarts, ackedModels,
                   vsalt, vkey>>

\* Mutant: the restarted process keeps the old threads' progress.
RestartKeepsThreads ==
    /\ restarts < MaxRestarts
    /\ restarts' = restarts + 1
    /\ catalog' = LoadedCatalog
    /\ directory' = {}
    /\ LET v == ImportEncrypted(LoadVaultData, restarts + 2)
       IN  vault' = v.data /\ vsalt' = v.salt /\ vkey' = v.key
    /\ pending' = [t \in Threads |-> NoModel]
    /\ snap' = [t \in Threads |-> <<>>]
    /\ UNCHANGED <<pc, dbModels, dbVault, history>>

\* The process dies, whatever its threads were doing, and main() builds a
\* new TokenHubAPI: fresh registries, the vault imported from the saved
\* row, the models imported from the table.  No provider is re-created.
Restart ==
    /\ restarts < MaxRestarts
    /\ restarts' = restarts + 1
    /\ catalog' = LoadedCatalog
    /\ directory' = {}
    /\ LET v == ImportEncrypted(LoadVaultData, restarts + 2)
       IN  vault' = v.data /\ vsalt' = v.salt /\ vkey' = v.key
    /\ pc' = [t \in Threads |-> "idle"]
    /\ pending' = [t \in Threads |-> NoModel]
    /\ snap' = [t \in Threads |-> <<>>]
    /\ UNCHANGED <<dbModels, dbVault, history>>

\* The admin handlers, each step on one of the admin threads.
AdminNext ==
    \/ \E t \in Threads, m \in ModelUpdates : AddModelRegister(t, m)
    \/ \E t \in Threads : AddModelSave(t)
    \/ \E n \in ProviderNames, ty \in ProviderTypes, k \in ApiKeys :
          AddProvider(n, ty, k)

Next == AdminNext \/ Restart

Spec == Init /\ [][Next]_vars

-----------------------------------------------------------------------------
(* Properties                                                              *)

\* The provider names of the saved vault row.
SavedNames == IF dbVault = NoRow THEN {} ELSE DOMAIN dbVault.data

TypeOK ==
    /\ pc \in [Threads -> {"idle", "exported"}]
    /\ \A t \in Threads : pc[t] = "exported" <=> pending[t] \in ModelUpdates
    /\ directory \subseteq ProviderNames
    /\ DOMAIN vault \subseteq ProviderNames
    /\ dbVault = NoRow \/ DOMAIN dbVault.data \subseteq ProviderNames
    /\ restarts \in 0..MaxRestarts
    /\ DOMAIN ackedModels \subseteq Names(catalog) \cup {m.name : m \in ModelUpdates}

\* A model whose POST /admin/models was answered 200 is in the registry
\* from then on, across restarts: the answer comes only after save_models
\* committed, and the table never loses a name.
AckedModelsSurviveRestart ==
    DOMAIN ackedModels \subseteq Names(catalog)

\* The key of a provider whose POST /admin/providers was answered 200 is in
\* the saved vault row and in the vault in memory, across restarts.
AckedKeysPersisted ==
    /\ ackedProviders \subseteq SavedNames
    /\ ackedProviders \subseteq DOMAIN vault

\* Every key in the vault can be read back: retrieve gives a key an admin
\* sent for that provider, in this process and after a restart, where the
\* vault must decrypt data encrypted by the previous process under the
\* salt it saved.  This is what add_provider's lookup of a key in the
\* vault (registry.py:60) relies on.
KeysReadable ==
    \A n \in DOMAIN vault : Retrieve(vault, n) \in keysSent[n]

(* Statements the code does not keep; each is checked by a run that       *)
(* expects a violation.                                                    *)

\* A provider that was added successfully stays reachable by routing:
\* _load_persisted_data restores its key but never re-creates the adapter.
ProvidersSurviveRestart ==
    ackedProviders \subseteq directory

\* A restart with no admin request in flight brings back every model as it
\* was in memory.  With saves that never fail this is what "Add or update
\* a model" promises; a thread that saves a copy taken before another
\* thread's update overwrites that update in the table.
RestartRestoresCatalog ==
    [][Restart /\ (\A t \in Threads : pc[t] = "idle") =>
         \A i \in DOMAIN catalog :
           \E j \in DOMAIN catalog' : catalog'[j] = catalog[i]]_vars

\* Every key in the saved vault row belongs to a provider that was
\* registered: an add_provider that fails on an unknown provider_type has
\* already stored its key in memory, and the next successful _save_vault of
\* any provider persists it.
VaultKeysBelongToProviders ==
    SavedNames \subseteq everRegistered

=============================================================================
