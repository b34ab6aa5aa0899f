----------------------------- MODULE LlmConfig -----------------------------
(***************************************************************************)
(* The active LLM provider: the registry of services/llm_provider.py        *)
(* (built-in ids and the entries of config/providers.json), the validation  *)
(* and the write-through of services/llm_config.py, and what a boot loads.  *)
(* A base URL is none, good or bad; a key is there or not.                  *)
(***************************************************************************)
EXTENDS Requests, Functions

CONSTANTS ProviderIds,     \* lower-cased provider ids, the built-in ones included
          BuiltinIds,      \* openai, gemini, anthropic
          Files,           \* what config/providers.json may hold at a boot
          EnvVars,         \* variables an entry of the file may name for its key
          EnvModel,        \* OLLAMA_CHAT_MODEL, or NoModel
          NoModel,
          ConfigRequests   \* bodies of POST /config/llm

VARIABLES registry,   \* _REGISTRY
          exported,   \* the variables of EnvVars that this process has
          active,     \* InMemoryConfigStore, the runtime source of truth
          row,        \* the llm_config table, or NoConfig
          drift       \* history: row and memory were set apart by a race, an outage or a boot without Postgres

configVars == <<registry, exported, active, row, drift>>

NoVar == "none"
NoConfig == [name |-> "none"]
Reserved == BuiltinIds \cup {"ollama"}

(* validate_base_url: the URL that is kept, or a rejection. *)
ValidUrl(base) == base # "bad"

-----------------------------------------------------------------------------
(* The registry *)

BuiltinSpec == [keyed |-> TRUE, literal |-> FALSE, var |-> NoVar, base |-> FALSE]

(* _classify_provider_api_key: an entry's key is absent, a literal, or the  *)
(* name of a variable that is read when the key is used; anything else is   *)
(* an error of the load.                                                    *)
KeyIsClear(entry) == entry.key \in {"absent", "literal", "variable"}

(* An entry's own checks; a malformed or unknown field counts as not known. *)
EntryLoads(entry) ==
    /\ entry.id \in ProviderIds \ Reserved
    /\ entry.known
    /\ entry.base = "good"
    /\ KeyIsClear(entry)

(* _load_providers_file: one bad entry, or two entries with one id, and the *)
(* process does not start; the file is absent when it has no entries.       *)
FileLoads(file) ==
    /\ \A i \in DOMAIN file : EntryLoads(file[i])
    /\ \A i, j \in DOMAIN file : file[i].id = file[j].id => i = j

SpecOf(entry) ==
    [keyed |-> FALSE, literal |-> entry.key = "literal",
     var |-> IF entry.key = "variable" THEN entry.var ELSE NoVar, base |-> TRUE]

Registry(file) ==
    [id \in BuiltinIds \cup {file[i].id : i \in DOMAIN file} |->
        IF id \in BuiltinIds THEN BuiltinSpec
        ELSE SpecOf(file[CHOOSE i \in DOMAIN file : file[i].id = id])]

(* Mutant: an entry's variable is taken to be set because the file names it. *)
KeyRequiredWhenLoaded(name) == name \in DOMAIN registry /\ registry[name].keyed

(* key_env_for: does a config write need a key for this id, right now? *)
KeyRequired(name) ==
    /\ name \in DOMAIN registry
    /\ \/ registry[name].keyed
       \/ registry[name].var # NoVar /\ registry[name].var \notin exported

(* get_provider: does it return a provider for a stored config? *)
HasKey(c) ==
    \/ c.key
    \/ registry[c.name].literal
    \/ registry[c.name].var \in exported

Provides(c) ==
    \/ c.name = "ollama"
    \/ c.name \notin DOMAIN registry /\ c.base # "none"
    \/ c.name \in DOMAIN registry /\ (registry[c.name].keyed \/ registry[c.name].var # NoVar => HasKey(c))

-----------------------------------------------------------------------------
(* POST /config/llm *)

(* What is stored: a local config is Ollama's whatever the body names. *)
Stored(q) ==
    IF q.local THEN [name |-> "ollama", base |-> "good", key |-> FALSE, model |-> q.model]
    ELSE [name |-> q.name, base |-> q.base, key |-> q.key, model |-> q.model]

(* The checks of a remote body that come before any network call. *)
WellFormed(q) ==
    q.local \/ /\ q.name # "ollama"
               /\ ValidUrl(q.base)
               /\ q.name \in DOMAIN registry \/ q.base # "none"
               /\ KeyRequired(q.name) => q.key

SetConfig(r) == \E q \in ConfigRequests :
    /\ WellFormed(q)
    /\ Begin(r, [pc |-> "probe", body |-> q])
    /\ UNCHANGED configVars

(* The probe of the endpoint and of the model is an await; what passes it is *)
(* active at once, and the row is written at the next await.                 *)
Persisting == {r \in Slots : At(r, "persist")}

ProbeAccepts(r) ==
    /\ At(r, "probe") /\ serving
    /\ Provides(Stored(call[r].body))
    /\ active' = Stored(call[r].body)
    /\ drift' = (drift \/ Persisting # {})
    /\ Advance(r, [pc |-> "persist", config |-> Stored(call[r].body)])
    /\ UNCHANGED <<registry, exported, row>>

ProbeRefuses(r) == At(r, "probe") /\ Answer(r) /\ UNCHANGED configVars

(* save_persisted_config; a failure is logged and the request succeeds. *)
PersistConfig(r) ==
    /\ At(r, "persist")
    /\ row' = IF postgres THEN call[r].config ELSE row
    /\ drift' = IF ~postgres THEN TRUE
                ELSE drift /\ (call[r].config # active \/ Persisting # {r})
    /\ Answer(r)
    /\ UNCHANGED <<registry, exported, active>>

-----------------------------------------------------------------------------
(* Boot *)

EnvSeed == IF EnvModel = NoModel THEN NoConfig
           ELSE [name |-> "ollama", base |-> "good", key |-> FALSE, model |-> EnvModel]

(* Mutant: the environment's model wins over the saved row at boot. *)
BootConfigFromEnv == \E file \in Files, vars \in SUBSET EnvVars :
    /\ FileLoads(file)
    /\ registry' = Registry(file) /\ exported' = vars
    /\ active' = EnvSeed
    /\ drift' = ~postgres
    /\ row' = row

(* The file and the variables are those of the new process.  The row wins   *)
(* over the environment when it can be read.                                *)
BootConfig == \E file \in Files, vars \in SUBSET EnvVars :
    /\ FileLoads(file)
    /\ registry' = Registry(file) /\ exported' = vars
    /\ active' = IF postgres /\ row # NoConfig THEN row ELSE EnvSeed
    /\ drift' = ~postgres
    /\ row' = row

ConfigStep(r) == SetConfig(r) \/ ProbeAccepts(r) \/ ProbeRefuses(r) \/ PersistConfig(r)

InitConfig(file) ==
    /\ registry = Registry(file) /\ exported = EnvVars
    /\ active = EnvSeed /\ row = NoConfig /\ drift = FALSE

(* get_active_provider *)
ProviderReady == active # NoConfig /\ Provides(active)

-----------------------------------------------------------------------------
(* Properties *)

(* What a restart would load is what is active now, unless two saves        *)
(* overlapped, a write was refused, or this process could not read the row  *)
(* when it booted.                                                          *)
QuietConfigIsDurable ==
    serving /\ ~drift /\ Persisting = {} /\ row # NoConfig => row = active

(* "Every check below runs before any network call, so a malformed config   *)
(* never costs a live request" (validate_and_save_config): what passes the  *)
(* checks of the body is a config that get_provider does not refuse, though *)
(* the two decide about ids, URLs and keys in their own ways.               *)
ChecksAgree == \A r \in Slots : At(r, "probe") => Provides(Stored(call[r].body))
=============================================================================
