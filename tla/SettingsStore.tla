---------------------------- MODULE SettingsStore ----------------------------
(***************************************************************************)
(* The settings of the process (src/src/settings/store.py) and the handlers *)
(* that change them (src/src/api/routers/settings.py): the object every     *)
(* reader shares, the two files it is saved to, one after the other, the    *)
(* .env file that is migrated once and the environment that is laid over    *)
(* what is read.  What matters here of the settings is the list of          *)
(* providers, which of them are enabled, their keys, and fallback_order.    *)
(*                                                                         *)
(* A reader waits while the lock of the store is held, so only a crash ever *)
(* sees a save that is half done.                                           *)
(***************************************************************************)
EXTENDS Integers, Sequences, SequencesExt

CONSTANTS
  Providers,   \* provider ids
  Keys,        \* API keys
  NoKey,       \* the empty string
  DotEnv,      \* the keys of the .env file, by provider
  Env,         \* the keys of the environment, by provider
  Patches,     \* the bodies a client may send
  MaxPatches,  \* bound on them
  MaxCrashes   \* bound on the restarts

ASSUME SettingsAssumption ==
  /\ NoKey \notin Keys /\ IsFiniteSet(Providers)
  /\ {DotEnv, Env} \subseteq [Providers -> Keys \cup {NoKey}]
  /\ {MaxPatches, MaxCrashes} \subseteq Nat
  /\ Patches \subseteq
       [list : Seq(Providers), on : SUBSET Providers, key : [Providers -> Keys \cup {NoKey}],
        order : Seq(Providers), given : SUBSET {"providers", "fallback_order"},
        whole : BOOLEAN]

VARIABLES
  settings,  \* _SETTINGS
  json,      \* settings.json
  secrets,   \* secrets.json, by provider
  save,      \* what is being saved, and which file is next
  patches,   \* how many bodies were sent
  crashes    \* how often the process was restarted

files == <<json, secrets>>
store == <<settings, json, secrets, save, patches, crashes>>

NoSettings == [list |-> <<>>, on |-> {}, order |-> <<>>, key |-> <<>>]
NoFile == NoSettings
Loaded == settings # NoSettings
Listed(s) == ToSet(s.list)
NoKeys == [p \in Providers |-> NoKey]
NoSave == [at |-> "no", what |-> NoSettings, keys |-> NoKeys]
Defaults == [list |-> <<>>, on |-> {}, order |-> <<>>, key |-> NoKeys]
NamedIn(env) == SetToSeq({p \in Providers : env[p] # NoKey})

\* The first value of the two that is no empty string, by provider.
First(keys, others) == [p \in Providers |-> IF keys[p] # NoKey THEN keys[p] ELSE others[p]]

StoreInit ==
  /\ settings = NoSettings /\ save = NoSave
  /\ json = NoFile /\ secrets = NoKeys
  /\ patches = 0 /\ crashes = 0

-----------------------------------------------------------------------------
(* Loading *)

\* persistable_dict
Persistable(s) == [s EXCEPT !.key = NoKeys]

\* migrate_from_env_file
Migrated ==
  [list |-> NamedIn(DotEnv), on |-> ToSet(NamedIn(DotEnv)), order |-> NamedIn(DotEnv),
   key |-> NoKeys]

\* _apply_env_overlay: a provider it names is added when it is not listed.
Overlaid(s) ==
  LET new == SetToSeq({p \in Providers : Env[p] # NoKey} \ Listed(s))
      unordered == SetToSeq(ToSet(new) \ ToSet(s.order))
  IN [s EXCEPT !.list = @ \o new, !.on = @ \cup ToSet(new), !.order = @ \o unordered]

\* Mutant: the keys are not put into what is loaded.
InjectNone(s, keys) == s

\* _inject_secrets
Inject(s, keys) ==
  [s EXCEPT !.key = [p \in Providers |-> IF p \notin Listed(s) THEN NoKey
                                         ELSE IF keys[p] # NoKey THEN keys[p] ELSE @[p]]]

\* What load_settings makes of the files: only without settings.json is the .env
\* file read.
SecretsRead == First(Env, IF json = NoFile THEN First(DotEnv, secrets) ELSE secrets)
SettingsRead == Inject(Overlaid(IF json = NoFile THEN Migrated ELSE json), SecretsRead)

Unlocked == save = NoSave

\* The first get_settings loads the files, and saves the very first settings.
Load ==
  /\ ~Loaded /\ Unlocked
  /\ IF json # NoFile
     THEN settings' = SettingsRead /\ UNCHANGED save
     ELSE save' = [at |-> "settings", what |-> SettingsRead, keys |-> SecretsRead]
          /\ UNCHANGED settings
  /\ UNCHANGED <<files, patches, crashes>>

-----------------------------------------------------------------------------
(* Saving *)

\* save_settings writes one file ...
SaveSettings ==
  /\ save.at = "settings"
  /\ json' = Persistable(save.what)
  /\ save' = [save EXCEPT !.at = "secrets"]
  /\ UNCHANGED <<settings, secrets, patches, crashes>>

\* ... and then the other, where a key is never removed, and what is saved is
\* what every reader gets from now on.
SaveSecrets ==
  /\ save.at = "secrets"
  /\ LET all == First(save.what.key, First(save.keys, secrets))
     IN secrets' = all /\ settings' = Inject(save.what, all)
  /\ save' = NoSave
  /\ UNCHANGED <<json, patches, crashes>>

\* _preserve_secrets: a provider without a key keeps the one it has.
Preserved(body) ==
  [p \in Providers |-> IF p \notin ToSet(body.list) THEN NoKey
                       ELSE IF body.key[p] = NoKey /\ p \in Listed(settings)
                       THEN settings.key[p] ELSE body.key[p]]

\* PATCH merges into the settings what is given, a list as a whole; PUT takes the
\* body as it is, with defaults for what is not given.
Merged(body) ==
  LET base == IF body.whole THEN Defaults ELSE settings
      listed == IF "providers" \notin body.given THEN base
                ELSE [base EXCEPT !.list = body.list, !.on = body.on \cap ToSet(body.list),
                                  !.key = Preserved(body)]
  IN IF "fallback_order" \in body.given THEN [listed EXCEPT !.order = body.order] ELSE listed

\* patch_settings and put_settings, up to the lock of replace_settings.
Patch ==
  /\ Loaded /\ Unlocked /\ patches < MaxPatches
  /\ \E body \in Patches :
       save' = [at |-> "settings", what |-> Merged(body), keys |-> NoKeys]
  /\ patches' = patches + 1
  /\ UNCHANGED <<settings, files, crashes>>

\* The process dies; what it wrote stays.
StoreCrash ==
  /\ crashes < MaxCrashes /\ crashes' = crashes + 1
  /\ settings' = NoSettings /\ save' = NoSave
  /\ UNCHANGED <<files, patches>>

-----------------------------------------------------------------------------
(* What LLMSettings says of itself *)

\* The elements of s that are in S, in their order.
Among(s, S) ==
  LET at == {i \in DOMAIN s : s[i] \in S}
  IN [k \in 1 .. Cardinality(at) |->
        s[CHOOSE i \in at : Cardinality({j \in at : j < i}) = k - 1]]

\* fallback_ids: without an id that can be used, every enabled provider.
FallbackIds(s) ==
  LET ordered == Among(s.order, s.on)
  IN IF ordered # <<>> THEN ordered ELSE Among(s.list, s.on)

Enabled(p) == p \in settings.on

-----------------------------------------------------------------------------
(* Properties *)

\* What a client was told is saved is what the next start of the process reads,
\* for every provider that the environment does not name: the file of settings
\* and the file of keys fit together (store.py:459-476 and 408-440).
RestartKeepsSettings ==
  Loaded /\ Unlocked =>
    \A p \in Listed(settings) : Env[p] = NoKey =>
      /\ p \in Listed(SettingsRead)
      /\ SettingsRead.key[p] = settings.key[p]
      /\ p \in SettingsRead.on <=> Enabled(p)

==============================================================================
