---------------------------- MODULE LlmClientProofs ----------------------------
(***************************************************************************)
(* Theorems about the calls of a language model: the tokens of a session    *)
(* are counted exactly; what the process remembers of a model that names    *)
(* the fields it refuses is true; settings survive patches, environment and *)
(* crashes; a call passes over no provider of its chain that could have     *)
(* answered, and sends no field again that was refused.  They hold for any  *)
(* providers, models, limits, settings and interleaving of the two threads. *)
(***************************************************************************)
EXTENDS LlmClient, TLAPS, SequenceTheorems, FiniteSetTheorems, FunctionTheorems

-----------------------------------------------------------------------------
(* The count of a session                                                  *)

\* No context holds a higher count than the file, which has them all.
Counted ==
  /\ usage \in [file : Nat, held : [Threads -> Nat], recorded : Nat]
  /\ usage.file = usage.recorded
  /\ \A t \in Threads : usage.held[t] <= usage.file

LEMMA CountedStep == Counted /\ [Next]_vars => Counted'
<1> SUFFICES ASSUME Counted, [Next]_vars PROVE Counted'
  OBVIOUS
<1>1. CASE UNCHANGED usage
  BY <1>1 DEF Counted
<1>2. ASSUME NEW t \in Threads, LoadSession(t) PROVE Counted'
  BY <1>2 DEF LoadSession, Counted
<1>3. ASSUME NEW t \in Threads, SaveMeta(t) PROVE Counted'
  <2> DEFINE total == Higher(usage.file, usage.held[t])
  <2>1. total = usage.file
    BY <1>3 DEF Counted, Higher
  <2>2. usage' = [usage EXCEPT !.held[t] = IF t = "loop" THEN 0 ELSE total]
    BY <1>3, <2>1 DEF SaveMeta, Counted
  <2>3. usage'.held \in [Threads -> Nat] /\ usage'.file = usage.file
    BY <1>3, <2>1, <2>2 DEF Counted
  <2> QED BY <1>3, <2>1, <2>2, <2>3 DEF Counted
<1>4. ASSUME NEW t \in Threads, Answered(t) PROVE Counted'
  <2>1. CASE t = "loop"
    BY <1>1, <1>4, <2>1 DEF Answered
  <2>2. CASE t # "loop"
    <3>1. usage' = Recorded
      BY <1>4, <2>2 DEF Answered
    <3>2. usage' = [file |-> usage.file + 1, held |-> usage.held,
                    recorded |-> usage.recorded + 1]
      BY <3>1 DEF Recorded, Counted
    <3>3. /\ usage.file \in Nat /\ usage.file = usage.recorded
          /\ usage.held \in [Threads -> Nat]
          /\ \A u \in Threads : usage.held[u] <= usage.file
      BY DEF Counted
    <3> QED BY <3>2, <3>3 DEF Counted
  <2> QED BY <2>1, <2>2
<1>5. CASE Crash
  BY <1>5 DEF Crash, Counted
<1>6. ASSUME NEW t \in Threads, Start(t) \/ (CallStep(t) /\ ~Answered(t))
      PROVE  UNCHANGED usage
  BY <1>6 DEF Start, CallStep, TryBackend, AllFailed, Accepted, Refused, Unusable, Fatal
<1>7. CASE SettingsStep \/ PatchSettings
  BY <1>1, <1>7 DEF SettingsStep, PatchSettings
<1>8. CASE UNCHANGED vars
  BY <1>1, <1>8 DEF vars
<1> QED BY <1>1, <1>2, <1>3, <1>4, <1>5, <1>6, <1>7, <1>8 DEF Next, CallStep

\* session.json counts every recorded call once, whatever stale context was saved
\* over it (session_usage.py:39-78, session.py:291-330).
THEOREM UsageStaysExact == Spec => []UsageIsExact
<1>1. Init => Counted
  BY DEF Init, Counted
<1>2. Counted => UsageIsExact
  BY DEF Counted, UsageIsExact
<1> QED BY <1>1, <1>2, CountedStep, PTL DEF Spec

-----------------------------------------------------------------------------
(* The store of the settings                                               *)

KeyMap == [Providers -> Keys \cup {NoKey}]
Settings ==
  [list : Seq(Providers), on : SUBSET Providers, order : Seq(Providers), key : KeyMap]

StoreTypeOK ==
  /\ settings \in Settings \cup {NoSettings} /\ json \in Settings \cup {NoFile}
  /\ secrets \in KeyMap
  /\ save = NoSave \/ save \in [at : {"settings", "secrets"}, what : Settings, keys : KeyMap]

LEMMA SequenceOfSet ==
  ASSUME NEW S \in SUBSET Providers
  PROVE  SetToSeq(S) \in Seq(Providers) /\ ToSet(SetToSeq(S)) \subseteq S
<1> DEFINE n == Cardinality(S)
<1>1. IsFiniteSet(S)
  BY SettingsAssumption, FS_Subset
<1>2. n \in Nat /\ ExistsBijection(1 .. n, S)
  BY <1>1, FS_CardinalityType
<1>3. \E f \in [1 .. n -> S] : IsInjective(f)
  BY <1>2 DEF ExistsBijection, Bijection, Injection
<1>4. SetToSeq(S) \in [1 .. n -> S]
  BY <1>3 DEF SetToSeq
<1> QED
  BY <1>2, <1>4 DEF ToSet

LEMMA FirstTyped ==
  ASSUME NEW k \in KeyMap, NEW others \in KeyMap
  PROVE  First(k, others) \in KeyMap
BY DEF First, KeyMap

LEMMA KeysTyped == NoKeys \in KeyMap /\ DotEnv \in KeyMap /\ Env \in KeyMap
BY SettingsAssumption DEF NoKeys, KeyMap

\* What the environment adds, and what it leaves as it is.
LEMMA OverlayKeeps ==
  ASSUME NEW s \in Settings
  PROVE  /\ Overlaid(s) \in Settings /\ Overlaid(s).key = s.key
         /\ Listed(s) \subseteq Listed(Overlaid(s))
         /\ \A p \in Providers : Env[p] = NoKey => (p \in Overlaid(s).on <=> p \in s.on)
<1> DEFINE named == {p \in Providers : Env[p] # NoKey} \ Listed(s)
           new == SetToSeq(named)
           unordered == SetToSeq(ToSet(new) \ ToSet(s.order))
<1>1. new \in Seq(Providers) /\ ToSet(new) \subseteq named
  BY SequenceOfSet
<1>2. unordered \in Seq(Providers)
  <2>1. ToSet(new) \ ToSet(s.order) \in SUBSET Providers
    BY <1>1
  <2> QED
    BY <2>1, SequenceOfSet
<1>3. s.list \in Seq(Providers) /\ s.order \in Seq(Providers) /\ s.on \in SUBSET Providers
      /\ s.key \in KeyMap
  BY DEF Settings
<1>4. Overlaid(s) = [s EXCEPT !.list = @ \o new, !.on = @ \cup ToSet(new),
                              !.order = @ \o unordered]
  BY DEF Overlaid
<1> HIDE DEF new, unordered
<1>5. s.list \o new \in Seq(Providers) /\ s.order \o unordered \in Seq(Providers)
      /\ s.on \cup ToSet(new) \in SUBSET Providers
  BY <1>1, <1>2, <1>3
<1>6. /\ Overlaid(s) \in Settings /\ Overlaid(s).key = s.key
      /\ Overlaid(s).list = s.list \o new /\ Overlaid(s).on = s.on \cup ToSet(new)
  BY <1>4, <1>5 DEF Settings
<1>7. ToSet(s.list) \subseteq ToSet(s.list \o new)
  <2>1. \A i \in 1 .. Len(s.list) : i \in 1 .. Len(s.list \o new) /\ (s.list \o new)[i] = s.list[i]
    BY <1>1, <1>3
  <2>2. DOMAIN s.list = 1 .. Len(s.list) /\ DOMAIN (s.list \o new) = 1 .. Len(s.list \o new)
    BY <1>3, <1>5
  <2> QED
    BY <2>1, <2>2 DEF ToSet
<1> QED
  BY <1>1, <1>6, <1>7 DEF Listed

LEMMA InjectTyped ==
  ASSUME NEW s \in Settings, NEW k \in KeyMap
  PROVE  /\ Inject(s, k) \in Settings /\ Inject(s, k).list = s.list /\ Inject(s, k).on = s.on
         /\ \A p \in Listed(s) : p \in Providers /\ Inject(s, k).key[p] =
                                   IF k[p] # NoKey THEN k[p] ELSE s.key[p]
<1>1. s.key \in KeyMap /\ Listed(s) \subseteq Providers
  BY DEF Settings, Listed, ToSet
<1> DEFINE new == [p \in Providers |-> IF p \notin Listed(s) THEN NoKey
                                       ELSE IF k[p] # NoKey THEN k[p] ELSE s.key[p]]
<1>2. Inject(s, k) = [s EXCEPT !.key = new]
  BY DEF Inject
<1>3. new \in KeyMap
  BY <1>1 DEF KeyMap
<1> QED
  BY <1>1, <1>2, <1>3 DEF Settings

LEMMA PersistedTyped ==
  ASSUME NEW s \in Settings
  PROVE  /\ Persistable(s) \in Settings /\ Persistable(s).list = s.list
         /\ Persistable(s).on = s.on /\ Persistable(s).key = NoKeys
BY KeysTyped DEF Settings, Persistable

LEMMA ReadTyped ==
  ASSUME StoreTypeOK
  PROVE  SettingsRead \in Settings /\ SecretsRead \in KeyMap
<1>1. SecretsRead \in KeyMap
  BY FirstTyped, KeysTyped DEF SecretsRead, StoreTypeOK
<1>2. Migrated \in Settings
  <2>1. NamedIn(DotEnv) \in Seq(Providers) /\ ToSet(NamedIn(DotEnv)) \subseteq Providers
    BY SequenceOfSet DEF NamedIn
  <2> QED
    BY <2>1, KeysTyped DEF Migrated, Settings
<1>3. (IF json = NoFile THEN Migrated ELSE json) \in Settings
  BY <1>2 DEF StoreTypeOK
<1> QED
  BY <1>1, <1>3, OverlayKeeps, InjectTyped DEF SettingsRead

\* What is in memory is what a start would read, but for what the environment
\* names.
Restored ==
  \A p \in Listed(settings) : Env[p] = NoKey =>
    /\ p \in Listed(SettingsRead)
    /\ SettingsRead.key[p] = settings.key[p]
    /\ p \in SettingsRead.on <=> p \in settings.on

\* Between its two writes a save has the file of settings that fits it.
StoreInv ==
  /\ StoreTypeOK
  /\ save.at = "secrets" => json = Persistable(save.what)
  /\ Loaded /\ Unlocked => Restored

LEMMA LoadKeeps == ASSUME StoreInv, Load PROVE StoreInv'
<1>1. StoreTypeOK /\ SettingsRead \in Settings /\ SecretsRead \in KeyMap
  BY ReadTyped DEF StoreInv
<1>2. json' = json /\ secrets' = secrets /\ save = NoSave
  BY DEF Load, files, Unlocked
<1>3. CASE json # NoFile
  <2>1. settings' = SettingsRead /\ save' = NoSave
    BY <1>2, <1>3 DEF Load
  <2>2. SettingsRead' = SettingsRead
    BY <1>2 DEF SettingsRead, SecretsRead
  <2>3. StoreTypeOK'
    BY <1>1, <1>2, <2>1 DEF StoreTypeOK
  <2>4. Restored'
    BY <2>1, <2>2 DEF Restored
  <2> QED
    BY <2>1, <2>3, <2>4 DEF StoreInv, NoSave
<1>4. CASE json = NoFile
  <2>1. /\ save' = [at |-> "settings", what |-> SettingsRead, keys |-> SecretsRead]
        /\ settings' = settings
    BY <1>4 DEF Load
  <2>2. StoreTypeOK'
    BY <1>1, <1>2, <2>1 DEF StoreTypeOK
  <2>3. ~Unlocked' /\ save'.at = "settings"
    BY <2>1 DEF Unlocked, NoSave
  <2> QED
    BY <2>2, <2>3 DEF StoreInv
<1> QED
  BY <1>3, <1>4

LEMMA SaveSettingsKeeps == ASSUME StoreInv, SaveSettings PROVE StoreInv'
<1>1. save \in [at : {"settings", "secrets"}, what : Settings, keys : KeyMap]
  BY DEF StoreInv, StoreTypeOK, SaveSettings, NoSave
<1>2. /\ json' = Persistable(save.what) /\ save' = [save EXCEPT !.at = "secrets"]
      /\ settings' = settings /\ secrets' = secrets
  BY DEF SaveSettings
<1>3. save' \in [at : {"settings", "secrets"}, what : Settings, keys : KeyMap]
      /\ save'.at = "secrets" /\ save'.what = save.what
  BY <1>1, <1>2
<1>4. json' \in Settings
  BY <1>1, <1>2, PersistedTyped
<1>5. StoreTypeOK'
  BY <1>2, <1>3, <1>4 DEF StoreInv, StoreTypeOK
<1>6. ~Unlocked'
  BY <1>3 DEF Unlocked, NoSave
<1> QED
  BY <1>2, <1>3, <1>5, <1>6 DEF StoreInv, Persistable

\* A save is complete: the two files say what the memory does.
LEMMA SaveSecretsKeeps == ASSUME StoreInv, SaveSecrets PROVE StoreInv'
<1> DEFINE w == save.what
           all == First(w.key, First(save.keys, secrets))
<1>1. save \in [at : {"settings", "secrets"}, what : Settings, keys : KeyMap]
  BY DEF StoreInv, StoreTypeOK, SaveSecrets, NoSave
<1>2. w \in Settings /\ save.keys \in KeyMap /\ w.key \in KeyMap /\ secrets \in KeyMap
  BY <1>1 DEF Settings, StoreInv, StoreTypeOK
<1>3. all \in KeyMap /\ \A p \in Providers : all[p] = NoKey => w.key[p] = NoKey
  <2>1. First(save.keys, secrets) \in KeyMap
    BY <1>2, FirstTyped
  <2>2. all \in KeyMap
    BY <1>2, <2>1, FirstTyped
  <2>3. \A p \in Providers : all[p] = NoKey => w.key[p] = NoKey
    BY DEF First
  <2> QED
    BY <2>2, <2>3
<1>4. /\ json = Persistable(w) /\ json' = json /\ secrets' = all
      /\ settings' = Inject(w, all) /\ save' = NoSave
  BY DEF SaveSecrets, StoreInv
<1> HIDE DEF w, all
<1>5. settings' \in Settings /\ json' \in Settings
  BY <1>2, <1>3, <1>4, InjectTyped, PersistedTyped
<1>6. StoreTypeOK'
  BY <1>3, <1>4, <1>5 DEF StoreTypeOK
<1>7. ASSUME NEW p \in Listed(settings'), Env[p] = NoKey
      PROVE  /\ p \in Listed(SettingsRead') /\ SettingsRead'.key[p] = settings'.key[p]
             /\ p \in SettingsRead'.on <=> p \in settings'.on
  <2>1. p \in Listed(w) /\ p \in Providers
    BY <1>2, <1>3, <1>4, <1>7, InjectTyped DEF Listed
  <2>2. settings'.key[p] = (IF all[p] # NoKey THEN all[p] ELSE w.key[p]) /\ settings'.on = w.on
    BY <1>2, <1>3, <1>4, <2>1, InjectTyped
  <2>3. json' # NoFile
    <3>1. json'.key = NoKeys /\ NoFile.key = <<>>
      BY <1>2, <1>4, PersistedTyped DEF NoFile, NoSettings
    <3>2. p \in DOMAIN NoKeys /\ DOMAIN <<>> = {}
      BY <2>1 DEF NoKeys
    <3> QED
      BY <3>1, <3>2
  <2> DEFINE o == Overlaid(json')
             k == First(Env, all)
  <2>4. SettingsRead' = Inject(o, k)
    BY <1>4, <2>3 DEF SettingsRead, SecretsRead
  <2>5. /\ o \in Settings /\ o.key = NoKeys /\ p \in Listed(o) /\ (p \in o.on <=> p \in w.on)
    <3>1. json'.list = w.list /\ json'.on = w.on /\ json'.key = NoKeys
      BY <1>2, <1>4, PersistedTyped
    <3> QED
      BY <1>5, <1>7, <2>1, <3>1, OverlayKeeps DEF Listed
  <2>6. k \in KeyMap /\ k[p] = all[p]
    BY <1>3, <1>7, <2>1, FirstTyped, KeysTyped DEF First
  <2> HIDE DEF o, k
  <2>7. /\ SettingsRead'.list = o.list /\ SettingsRead'.on = o.on
        /\ SettingsRead'.key[p] = (IF k[p] # NoKey THEN k[p] ELSE o.key[p])
    BY <2>4, <2>5, <2>6, InjectTyped
  <2>8. SettingsRead'.key[p] = settings'.key[p]
    BY <1>3, <2>1, <2>2, <2>5, <2>6, <2>7 DEF NoKeys
  <2> QED
    BY <2>2, <2>5, <2>7, <2>8 DEF Listed
<1>8. Restored'
  BY <1>7 DEF Restored
<1> QED
  BY <1>4, <1>6, <1>8 DEF StoreInv, NoSave

LEMMA PatchKeeps == ASSUME StoreInv, Patch PROVE StoreInv'
<1>1. PICK body \in Patches :
        save' = [at |-> "settings", what |-> Merged(body), keys |-> NoKeys]
  BY DEF Patch
<1>2. /\ body.list \in Seq(Providers) /\ body.on \in SUBSET Providers /\ body.key \in KeyMap
      /\ body.order \in Seq(Providers)
  BY SettingsAssumption DEF KeyMap
<1>3. settings \in Settings /\ UNCHANGED <<settings, json, secrets>>
  BY DEF Patch, Loaded, StoreInv, StoreTypeOK, files
<1>4. Defaults \in Settings
  <2>1. <<>> \in Seq(Providers)
    OBVIOUS
  <2> QED
    BY <2>1, KeysTyped DEF Defaults, Settings
<1>5. Preserved(body) \in KeyMap
  BY <1>2, <1>3 DEF Preserved, KeyMap, Settings
<1>6. Merged(body) \in Settings
  <2> DEFINE base == IF body.whole THEN Defaults ELSE settings
             listed == IF "providers" \notin body.given THEN base
                       ELSE [base EXCEPT !.list = body.list,
                                         !.on = body.on \cap ToSet(body.list),
                                         !.key = Preserved(body)]
  <2>1. base \in Settings
    BY <1>3, <1>4
  <2> HIDE DEF base
  <2>2. listed \in Settings
    BY <1>2, <1>5, <2>1 DEF Settings
  <2> HIDE DEF listed
  <2>3. (IF "fallback_order" \in body.given THEN [listed EXCEPT !.order = body.order]
         ELSE listed) \in Settings
    BY <1>2, <2>2 DEF Settings
  <2> QED
    BY <2>3 DEF Merged, listed, base
<1>7. StoreTypeOK' /\ ~Unlocked' /\ save'.at = "settings"
  BY <1>1, <1>3, <1>6, KeysTyped DEF StoreInv, StoreTypeOK, Unlocked, NoSave
<1> QED
  BY <1>7 DEF StoreInv

LEMMA StoreStep == StoreInv /\ [Next]_vars => StoreInv'
<1> SUFFICES ASSUME StoreInv, [Next]_vars PROVE StoreInv'
  OBVIOUS
<1>1. CASE UNCHANGED store
  <2>1. StoreTypeOK' /\ (Restored' <=> Restored) /\ (Loaded' <=> Loaded)
    BY <1>1 DEF store, StoreInv, StoreTypeOK, Restored, SettingsRead, SecretsRead, Loaded
  <2> QED
    BY <1>1, <2>1 DEF store, StoreInv, Unlocked
<1>2. CASE StoreCrash
  <2>1. settings' = NoSettings /\ save' = NoSave /\ json' = json /\ secrets' = secrets
    BY <1>2 DEF StoreCrash, files
  <2>2. StoreTypeOK'
    BY <2>1 DEF StoreInv, StoreTypeOK
  <2> QED
    BY <2>1, <2>2 DEF StoreInv, Loaded, NoSave
<1>3. ASSUME NEW t \in Threads, Start(t) \/ CallStep(t) \/ LoadSession(t) \/ SaveMeta(t)
      PROVE  UNCHANGED store
  BY <1>3 DEF Start, CallStep, TryBackend, AllFailed, Accepted, Refused, Unusable, Fatal,
     Answered, LoadSession, SaveMeta
<1>4. CASE SettingsStep \/ PatchSettings
  BY <1>4, LoadKeeps, SaveSettingsKeeps, SaveSecretsKeeps, PatchKeeps
  DEF SettingsStep, PatchSettings
<1>5. CASE UNCHANGED vars
  BY <1>1, <1>5 DEF vars
<1> QED
  BY <1>1, <1>2, <1>3, <1>4, <1>5 DEF Next, Crash

LEMMA StoreAlways == Spec => []StoreInv
<1>1. Init => StoreInv
  BY KeysTyped DEF Init, StoreInit, StoreInv, StoreTypeOK, NoSave, Loaded
<1> QED
  BY <1>1, StoreStep, PTL DEF Spec

\* What a client was told is saved is what the next start reads, for every
\* provider the environment does not name, through any patches and any crash
\* between the two files (store.py:408-440 and 454-475).
THEOREM RestartsKeepSettings == Spec => []RestartKeepsSettings
<1>1. StoreInv => RestartKeepsSettings
  BY DEF StoreInv, Restored, RestartKeepsSettings, Enabled
<1> QED
  BY <1>1, StoreAlways, PTL

-----------------------------------------------------------------------------
(* What is learned                                                         *)

\* A record with the fields of a call.
IsCall(c) ==
  c \in [at : {c.at}, role : {c.role}, chain : {c.chain}, next : {c.next}, profile : {c.profile},
         tries : {c.tries}, refused : {c.refused}, gone : {c.gone}]

\* What a profile leaves out the model refuses, and so it does the token field that
\* is not sent, or some provider of the model begins with the one that is.
Honest(f, m) ==
  /\ f.drop \subseteq limits[m]
  /\ f.token \in Begun(m) \/ TokenFields \ {f.token} \subseteq limits[m]

InWork == {"next", "sending", "streaming"}

\* The shape that a call sends.
ShapeHonest(c) ==
  /\ At(c) \in Providers /\ c.role \in Roles
  /\ c.profile \in Profiles
  /\ Asked(c) \in Frank => Honest(c.profile, Asked(c))

\* Of a model that names the fields it refuses only those are left out, in what the
\* process remembers and in the request that is on its way.
ShapesHonest ==
  /\ learned \in [Models -> Profiles]
  /\ calls = [t \in Threads |-> calls[t]]
  /\ \A t \in Threads : IsCall(calls[t])
  /\ \A m \in Frank : learned[m] # NoProfile => Honest(learned[m], m)
  /\ \A t \in Threads : calls[t].at \in InWork => calls[t].role \in Roles
  /\ \A t \in Threads : calls[t].at = "sending" => ShapeHonest(calls[t])

LEMMA ProfilesTyped ==
  /\ NoProfile \in Profiles
  /\ \A p, m : Default(p, m) \in Profiles /\ Default(p, m).drop = {}
BY DEF NoProfile, Profiles, Default, TokenFields

LEMMA OtherToken ==
  ASSUME NEW field \in TokenFields
  PROVE  LET other == CHOOSE o \in TokenFields : o # field
         IN  other \in TokenFields /\ other # field
<1>1. \E o \in TokenFields : o # field
  BY DEF TokenFields
<1> QED BY <1>1

LEMMA WithoutTyped ==
  ASSUME NEW f \in Profiles, NEW field \in Fields
  PROVE  Without(f, field) \in Profiles
<1>1. CASE field \in TokenFields
  BY <1>1, OtherToken DEF Without, Profiles
<1>2. CASE field \notin TokenFields
  BY <1>2 DEF Without, Profiles
<1> QED BY <1>1, <1>2

\* A field that is refused where it was sent may be left out.
LEMMA WithoutHonest ==
  ASSUME NEW m \in Frank, NEW f \in Profiles, Honest(f, m),
         NEW field \in limits[m] \cap Sent(f)
  PROVE  Honest(Without(f, field), m)
<1>1. CASE field \in TokenFields
  <2> DEFINE other == CHOOSE o \in TokenFields : o # field
  <2>1. other \in TokenFields /\ other # field
    BY <1>1, OtherToken
  <2>2. Without(f, field) = [f EXCEPT !.token = other]
    BY <1>1 DEF Without
  <2>3. Without(f, field).token = other /\ Without(f, field).drop = f.drop
    BY <2>2 DEF Profiles
  <2>4. TokenFields \ {other} = {field}
    BY <1>1, <2>1 DEF TokenFields
  <2> QED BY <2>3, <2>4 DEF Honest
<1>2. CASE field \notin TokenFields
  BY <1>2 DEF Without, Profiles, Honest
<1> QED BY <1>1, <1>2

\* What Start, Refused and NextBackend make of a call is a call.
LEMMA CallsStay ==
  ASSUME ShapesHonest, NEW t \in Threads, NEW c, IsCall(c), calls' = [calls EXCEPT ![t] = c]
  PROVE  /\ calls' = [u \in Threads |-> calls'[u]]
         /\ \A u \in Threads : IsCall(calls'[u])
         /\ calls'[t] = c
         /\ \A u \in Threads : u # t => calls'[u] = calls[u]
BY DEF ShapesHonest

\* A step that learns nothing, and sends what is honest or nothing.
LEMMA LearnsNothing ==
  ASSUME ShapesHonest, NEW t \in Threads, NEW c, IsCall(c), calls' = [calls EXCEPT ![t] = c],
         c.at = "sending" => ShapeHonest(c), c.at \in InWork => c.role \in Roles,
         UNCHANGED <<limits, learned>>
  PROVE  ShapesHonest'
<1>1. /\ calls' = [u \in Threads |-> calls'[u]]
      /\ \A u \in Threads : IsCall(calls'[u])
      /\ calls'[t] = c
      /\ \A u \in Threads : u # t => calls'[u] = calls[u]
  BY CallsStay
<1>2. ASSUME NEW d, ShapeHonest(d) PROVE ShapeHonest(d)'
  BY <1>2 DEF ShapeHonest, Honest, At, Asked
<1>3. ASSUME NEW u \in Threads, calls'[u].at = "sending" PROVE ShapeHonest(calls[u])'
  BY <1>1, <1>3 DEF ShapesHonest, ShapeHonest, Honest, At, Asked
<1> QED BY <1>1, <1>3 DEF ShapesHonest, Honest

\* resolve_request_profile: what was learned of a model is honest, and so is the
\* shape no one has refused yet.
LEMMA ResolvedHonest ==
  ASSUME ShapesHonest, NEW p \in Providers, NEW r \in Roles, NEW m, m = Model[p, r]
  PROVE  Resolve(p, m) \in Profiles /\ (m \in Frank => Honest(Resolve(p, m), m))
<1>1. Default(p, m) \in Profiles /\ Default(p, m).drop = {}
  BY ProfilesTyped
<1>2. m \in Models
  BY ClientAssumption
<1>3. Default(p, m).token \in Begun(m)
  <2>1. <<p, r>> \in {x \in Providers \X Roles : Model[x] = m} /\ <<p, r>>[1] = p
    OBVIOUS
  <2> QED BY <2>1 DEF Begun
<1> QED BY <1>1, <1>2, <1>3 DEF ShapesHonest, Resolve, Honest

LEMMA CallsPart == ASSUME ShapesHonest, NEW t \in Threads PROVE IsCall(calls[t])
BY DEF ShapesHonest

LEMMA StartHonest == ASSUME ShapesHonest, NEW t \in Threads, Start(t) PROVE ShapesHonest'
<1>1. PICK model \in {"auto"} \cup Providers, role \in Roles : calls' = [calls EXCEPT ![t] =
         [NoCall EXCEPT !.role = role, !.chain = Candidates(model),
                        !.at = IF Candidates(model) = <<>> THEN "raised" ELSE "next"]]
  BY DEF Start
<1> DEFINE c == [NoCall EXCEPT !.role = role, !.chain = Candidates(model),
                               !.at = IF Candidates(model) = <<>> THEN "raised" ELSE "next"]
<1>2. IsCall(c) /\ c.at # "sending" /\ c.role \in Roles
  BY DEF IsCall, NoCall
<1> QED BY <1>1, <1>2, LearnsNothing DEF Start

LEMMA TryHonest ==
  ASSUME StoreTypeOK, ShapesHonest, NEW t \in Threads, TryBackend(t)
  PROVE  ShapesHonest'
<1>1. IsCall(calls[t]) /\ calls[t].role \in Roles
  BY CallsPart DEF ShapesHonest, TryBackend, InWork
<1>2. CASE Enabled(Backend(t))
  <2> DEFINE p == Backend(t)
             m == Asked(calls[t])
             c == [calls[t] EXCEPT !.at = "sending", !.profile = Resolve(p, m), !.tries = 1]
  <2>1. calls' = [calls EXCEPT ![t] = c]
    BY <1>2 DEF TryBackend
  <2>2. p \in Providers
    BY <1>2 DEF Enabled, StoreTypeOK, Settings, NoSettings
  <2>3. m = Model[p, calls[t].role]
    BY DEF Asked, Backend
  <2>4. /\ IsCall(c) /\ c.profile = Resolve(p, m) /\ At(c) = p /\ Asked(c) = m
        /\ c.role = calls[t].role /\ c.at = "sending"
    BY <1>1 DEF IsCall, At, Backend, Asked
  <2> HIDE DEF p, m, c
  <2>5. ShapeHonest(c)
    BY <1>1, <2>2, <2>3, <2>4, ResolvedHonest DEF ShapeHonest
  <2> QED BY <1>1, <2>1, <2>4, <2>5, LearnsNothing DEF TryBackend
<1>3. CASE ~Enabled(Backend(t))
  <2> DEFINE c == [calls[t] EXCEPT !.next = @ + 1, !.gone = @ \cup {Backend(t)}]
  <2>1. calls' = [calls EXCEPT ![t] = c]
    BY <1>3 DEF TryBackend
  <2>2. IsCall(c) /\ c.at = "next" /\ c.role = calls[t].role
    BY <1>1 DEF IsCall, TryBackend
  <2> QED BY <1>1, <2>1, <2>2, LearnsNothing DEF TryBackend
<1> QED BY <1>2, <1>3

\* The next provider.
LEMMA NextHonest ==
  ASSUME ShapesHonest, NEW t \in Threads, calls' = NextBackend(t), UNCHANGED <<limits, learned>>,
         calls[t].role \in Roles
  PROVE  ShapesHonest'
<1> DEFINE c == [calls[t] EXCEPT !.at = "next", !.next = @ + 1, !.profile = NoProfile,
                                 !.tries = 0, !.refused = {}]
<1>1. IsCall(c) /\ c.at = "next" /\ c.role = calls[t].role
  BY CallsPart DEF IsCall
<1>2. calls' = [calls EXCEPT ![t] = c]
  BY DEF NextBackend
<1> QED BY <1>1, <1>2, LearnsNothing

LEMMA OtherStepsHonest ==
  ASSUME ShapesHonest, NEW t \in Threads,
         AllFailed(t) \/ Accepted(t) \/ Fatal(t) \/ Answered(t) \/ Unusable(t)
  PROVE  ShapesHonest'
<1>1. IsCall(calls[t])
  BY CallsPart
<1>2. calls[t].at \in InWork => calls[t].role \in Roles
  BY DEF ShapesHonest
<1>3. ASSUME NEW at \in {"failed", "streaming"}, calls' = [calls EXCEPT ![t].at = at],
             UNCHANGED <<limits, learned>>, calls[t].at \in InWork
      PROVE  ShapesHonest'
  <2> DEFINE c == [calls[t] EXCEPT !.at = at]
  <2>1. IsCall(c) /\ c.at # "sending" /\ c.role = calls[t].role
    BY <1>1 DEF IsCall
  <2> QED BY <1>2, <1>3, <2>1, LearnsNothing
<1>4. CASE AllFailed(t)
  BY <1>3, <1>4 DEF AllFailed, InWork
<1>5. CASE Accepted(t)
  BY <1>3, <1>5 DEF Accepted, InWork
<1>6. CASE Fatal(t)
  <2> DEFINE c == [calls[t] EXCEPT !.at = "rejected", !.profile = NoProfile, !.tries = 0,
                                   !.refused = {}]
  <2>1. IsCall(c) /\ c.at = "rejected"
    BY <1>1 DEF IsCall
  <2> QED BY <1>6, <2>1, LearnsNothing DEF Fatal, InWork
<1>7. CASE Answered(t)
  <2>1. IsCall(Ended("answered")) /\ Ended("answered").at = "answered"
    BY DEF IsCall, Ended, NoCall
  <2> QED BY <1>7, <2>1, LearnsNothing DEF Answered, InWork
<1>8. CASE Unusable(t)
  BY <1>2, <1>8, NextHonest DEF Unusable, InWork
<1> QED BY <1>4, <1>5, <1>6, <1>7, <1>8

\* The one step that learns: what it learns is honest if what was sent was.
LEMMA RefusedHonest == ASSUME ShapesHonest, NEW t \in Threads, Refused(t) PROVE ShapesHonest'
<1> DEFINE f == calls[t].profile
           m == Asked(calls[t])
<1>1. /\ IsCall(calls[t]) /\ calls[t].at = "sending" /\ UNCHANGED limits
      /\ ShapeHonest(calls[t]) /\ calls[t].role \in Roles
  BY CallsPart DEF Refused, ShapesHonest, ShapeHonest
<1>2. /\ f \in Profiles /\ (m \in Frank => Honest(f, m))
      /\ At(calls[t]) \in Providers
  BY <1>1 DEF ShapeHonest
<1>3. PICK field \in Names(m, f) :
        LET changed == Without(f, field) IN
        IF changed = f
        THEN calls' = NextBackend(t) /\ UNCHANGED learned
        ELSE /\ learned' = [learned EXCEPT ![m] = changed]
             /\ calls' = IF calls[t].tries = MaxShapes THEN NextBackend(t)
                         ELSE SendAgain(t, changed, field)
  BY DEF Refused
<1> DEFINE g == Without(f, field)
<1>4. CASE g = f
  BY <1>1, <1>3, <1>4, NextHonest
<1>5. CASE g # f
  <2>1. learned' = [learned EXCEPT ![m] = g]
    BY <1>3, <1>5
  <2>2. g \in Profiles
    <3>1. field \in Fields
      BY <1>2, <1>3 DEF Names, Sent, Fields, Profiles, TokenFields
    <3> QED BY <1>2, <3>1, WithoutTyped
  <2>3. m \in Frank => Honest(g, m)
    <3> SUFFICES ASSUME m \in Frank PROVE Honest(g, m)
      OBVIOUS
    <3>1. field \in limits[m] \cap Sent(f)
      BY <1>3 DEF Names
    <3> QED BY <1>2, <3>1, WithoutHonest
  <2>4. learned' \in [Models -> Profiles]
    BY <2>1, <2>2 DEF ShapesHonest
  <2>5. \A q \in Frank : learned'[q] # NoProfile => Honest(learned'[q], q)
    BY <2>1, <2>3, ClientAssumption DEF ShapesHonest
  <2>6. PICK c : /\ IsCall(c) /\ calls' = [calls EXCEPT ![t] = c]
                 /\ c.at = "sending" => ShapeHonest(c)
                 /\ c.role \in Roles
    <3>1. CASE calls[t].tries = MaxShapes
      <4> DEFINE c == [calls[t] EXCEPT !.at = "next", !.next = @ + 1, !.profile = NoProfile,
                                       !.tries = 0, !.refused = {}]
      <4>1. IsCall(c) /\ c.at = "next" /\ c.role = calls[t].role
        BY <1>1 DEF IsCall
      <4>2. calls' = [calls EXCEPT ![t] = c]
        BY <1>3, <1>5, <3>1 DEF NextBackend
      <4> QED BY <1>1, <4>1, <4>2
    <3>2. CASE calls[t].tries # MaxShapes
      <4> DEFINE c == [calls[t] EXCEPT !.profile = g, !.tries = @ + 1,
                                       !.refused = @ \cup {field}]
      <4>1. /\ IsCall(c) /\ c.profile = g /\ c.role = calls[t].role
            /\ At(c) = At(calls[t]) /\ Asked(c) = m
        BY <1>1 DEF IsCall, At, Asked
      <4>2. calls' = [calls EXCEPT ![t] = c]
        BY <1>3, <1>5, <3>2 DEF SendAgain
      <4> HIDE DEF c, g, m
      <4>3. ShapeHonest(c)
        BY <1>1, <1>2, <2>2, <2>3, <4>1 DEF ShapeHonest
      <4> QED BY <1>1, <4>1, <4>2, <4>3
    <3> QED BY <3>1, <3>2
  <2>7. /\ calls' = [u \in Threads |-> calls'[u]]
        /\ \A u \in Threads : IsCall(calls'[u])
        /\ calls'[t] = c
        /\ \A u \in Threads : u # t => calls'[u] = calls[u]
    BY <2>6, CallsStay
  <2>8. ASSUME NEW u \in Threads, calls'[u].at = "sending" PROVE ShapeHonest(calls[u])'
    <3>1. ShapeHonest(calls'[u])
      BY <2>6, <2>7, <2>8 DEF ShapesHonest
    <3> QED BY <1>1, <3>1 DEF ShapeHonest, Honest, At, Asked
  <2>9. \A q \in Frank : (learned[q] # NoProfile => Honest(learned[q], q))'
    BY <1>1, <2>5 DEF Honest
  <2>10. \A u \in Threads : calls'[u].at \in InWork => calls'[u].role \in Roles
    BY <2>6, <2>7 DEF ShapesHonest
  <2> QED BY <2>4, <2>7, <2>8, <2>9, <2>10 DEF ShapesHonest
<1> QED BY <1>4, <1>5

LEMMA CrashHonest == ASSUME ShapesHonest, Crash PROVE ShapesHonest'
<1>1. learned' = [m \in Models |-> NoProfile] /\ calls' = [t \in Threads |-> NoCall]
  BY DEF Crash
<1>2. IsCall(NoCall) /\ NoCall.at \notin InWork
  BY DEF IsCall, NoCall, InWork
<1> QED BY <1>1, <1>2, ProfilesTyped, ClientAssumption DEF ShapesHonest, InWork

LEMMA ShapesStay == ASSUME ShapesHonest, UNCHANGED client PROVE ShapesHonest'
BY DEF client, ShapesHonest, ShapeHonest, Honest, At, Asked

LEMMA ShapesStep == StoreInv /\ ShapesHonest /\ [Next]_vars => ShapesHonest'
<1> SUFFICES ASSUME StoreInv, ShapesHonest, [Next]_vars PROVE ShapesHonest'
  OBVIOUS
<1>1. CASE SettingsStep \/ PatchSettings \/ UNCHANGED vars
  BY <1>1, ShapesStay DEF SettingsStep, PatchSettings, vars
<1>2. ASSUME NEW t \in Threads, LoadSession(t) \/ SaveMeta(t) PROVE ShapesHonest'
  BY <1>2, ShapesStay DEF LoadSession, SaveMeta
<1>3. ASSUME NEW t \in Threads, CallStep(t) PROVE ShapesHonest'
  BY <1>3, TryHonest, RefusedHonest, OtherStepsHonest DEF CallStep, StoreInv
<1> QED BY <1>1, <1>2, <1>3, StartHonest, CrashHonest DEF Next

LEMMA ShapesInit == Init => ShapesHonest
<1> SUFFICES ASSUME Init PROVE ShapesHonest
  OBVIOUS
<1>1. learned = [m \in Models |-> NoProfile] /\ calls = [t \in Threads |-> NoCall]
  BY DEF Init
<1>2. IsCall(NoCall) /\ NoCall.at \notin InWork
  BY DEF IsCall, NoCall, InWork
<1> QED BY <1>1, <1>2, ProfilesTyped, ClientAssumption DEF ShapesHonest, InWork

\* What is remembered of a model that names the fields it refuses is true, whichever
\* thread, role or provider wrote it last: nothing is left out that it takes
\* (llm_client.py:104-105, 362-398, 426-455).
THEOREM LearnedStaysTrue == Spec => []LearnedIsTrue
<1>1. ShapesHonest => LearnedIsTrue
  BY DEF ShapesHonest, Honest, LearnedIsTrue
<1> QED BY <1>1, ShapesInit, ShapesStep, StoreAlways, PTL DEF Spec

-----------------------------------------------------------------------------
(* The walk of a call along its chain                                      *)

Serves(c, i) == Adaptable(c.chain[i], Model[c.chain[i], c.role])

\* A chain has places 1, 2, ..., and what was passed over of it, or could have
\* answered, was taken out of the settings; a provider that can be served gets one
\* attempt more than it has refused fields, and no refused field again.
Walk(c) ==
  /\ Len(c.chain) \in Nat /\ DOMAIN c.chain = 1 .. Len(c.chain) /\ c.next \in Nat
  /\ \A i \in DOMAIN c.chain : i < c.next /\ Serves(c, i) => c.chain[i] \in c.gone
  /\ c.at \in {"failed", "raised"} =>
       \A i \in DOMAIN c.chain : Serves(c, i) => c.chain[i] \in c.gone
  /\ c.at = "rejected" => ~Adaptable(At(c), Asked(c))
  /\ c.at = "next" => c.refused = {}
  /\ c.at = "sending" /\ Adaptable(At(c), Asked(c)) =>
       /\ c.refused \subseteq limits[Asked(c)] \cap Fields
       /\ Sent(c.profile) \cap c.refused = {}
       /\ c.tries = Cardinality(c.refused) + 1

Walks == \A t \in Threads : Walk(calls[t])

\* The part of a chain keeps its places.
LEMMA AmongSequence ==
  ASSUME NEW s \in Seq(Providers), NEW S
  PROVE  Len(Among(s, S)) \in Nat /\ DOMAIN Among(s, S) = 1 .. Len(Among(s, S))
<1> DEFINE at == {i \in DOMAIN s : s[i] \in S}
           n == Cardinality(at)
           e(k) == s[CHOOSE i \in at : Cardinality({j \in at : j < i}) = k - 1]
<1>1. DOMAIN s = 1 .. Len(s) /\ Len(s) \in Nat
  OBVIOUS
<1>2. n \in Nat
  <2>1. IsFiniteSet(1 .. Len(s)) /\ at \in SUBSET (1 .. Len(s))
    BY <1>1, FS_Interval
  <2> QED
    BY <2>1, FS_Subset, FS_CardinalityType
<1> HIDE DEF n
<1>3. Among(s, S) = [k \in 1 .. n |-> e(k)]
  BY DEF Among, n
<1> HIDE DEF e
<1> DEFINE g == [k \in 1 .. n |-> e(k)]
           T == {e(k) : k \in 1 .. n}
<1>4. g \in [1 .. n -> T] /\ DOMAIN g = 1 .. n
  OBVIOUS
<1> HIDE DEF g, T
<1>5. Len(g) = n
  BY <1>2, <1>4
<1> QED
  BY <1>2, <1>3, <1>4, <1>5 DEF g

LEMMA CandidatesSequence ==
  ASSUME StoreTypeOK, NEW model
  PROVE  Len(Candidates(model)) \in Nat
         /\ DOMAIN Candidates(model) = 1 .. Len(Candidates(model))
<1>1. settings.order \in Seq(Providers) /\ settings.list \in Seq(Providers)
  <2>1. CASE settings \in Settings
    BY <2>1 DEF Settings
  <2>2. CASE settings = NoSettings
    BY <2>2 DEF NoSettings
  <2> QED
    BY <2>1, <2>2 DEF StoreTypeOK
<1>2. /\ Len(FallbackIds(settings)) \in Nat
      /\ DOMAIN FallbackIds(settings) = 1 .. Len(FallbackIds(settings))
  BY <1>1, AmongSequence DEF FallbackIds
<1>3. Len(<<model>>) \in Nat /\ DOMAIN <<model>> = 1 .. Len(<<model>>)
  OBVIOUS
<1> QED
  BY <1>2, <1>3 DEF Candidates

\* Leaving out a field that was sent changes the shape, and what is left out is
\* not sent again to a provider that takes one of the token fields.
LEMMA WithoutWorks ==
  ASSUME NEW p, NEW m, Adaptable(p, m), NEW f \in Profiles, NEW R, R \subseteq limits[m],
         Sent(f) \cap R = {}, NEW field \in limits[m] \cap Sent(f)
  PROVE  /\ Without(f, field) # f /\ field \notin R /\ field \in Fields
         /\ Sent(Without(f, field)) \cap (R \cup {field}) = {}
<1> DEFINE g == Without(f, field)
<1>1. field \notin R /\ field \in Fields /\ f.token \in TokenFields /\ Effort \notin TokenFields
      /\ \A x \in Sampling \cup Extras : x \notin TokenFields
  BY ClientAssumption DEF Sent, Fields, Profiles
<1>2. CASE field \in TokenFields
  <2> DEFINE other == CHOOSE o \in TokenFields : o # field
  <2>1. other \in TokenFields /\ other # field
    BY <1>2, OtherToken
  <2>2. g = [f EXCEPT !.token = other]
    BY <1>2 DEF Without
  <2>3. field = f.token
    BY <1>1, <1>2 DEF Sent
  <2> HIDE DEF other
  <2>4. /\ g.token = other /\ g.sampling = f.sampling /\ g.reasoning = f.reasoning
        /\ g.drop = f.drop
    BY <2>2 DEF Profiles
  <2>5. other \notin R
    BY <1>2, <2>1 DEF Adaptable, TokenFields
  <2>6. \A x \in Sent(g) : x = other \/ (x \in Sent(f) /\ x \notin TokenFields)
    BY <1>1, <2>4 DEF Sent
  <2>7. Sent(g) \cap (R \cup {field}) = {}
    BY <1>2, <2>1, <2>5, <2>6
  <2>8. g # f
    BY <2>1, <2>3, <2>4
  <2> QED
    BY <1>1, <2>7, <2>8
<1>3. CASE field \notin TokenFields
  <2>1. g = [f EXCEPT !.drop = @ \cup {field},
                      !.sampling = @ /\ ~(field \in Sampling /\ Sampling \subseteq f.drop \cup {field}),
                      !.reasoning = @ /\ field # Effort]
    BY <1>3 DEF Without
  <2>2. /\ g.token = f.token /\ g.drop = f.drop \cup {field}
        /\ (g.sampling => f.sampling) /\ (g.reasoning => f.reasoning)
    BY <2>1 DEF Profiles
  <2>3. field \notin f.drop
    BY <1>1, <1>3 DEF Sent
  <2>4. \A x \in Sent(g) : x \in Sent(f) /\ x # field
    BY <1>1, <1>3, <2>2 DEF Sent
  <2>5. g # f
    BY <2>2, <2>3
  <2> QED
    BY <1>1, <2>4, <2>5
<1> QED
  BY <1>2, <1>3

\* A step of one call in which it walks well.
LEMMA WalksOn ==
  ASSUME ShapesHonest, Walks, NEW t \in Threads, NEW c, IsCall(c), Walk(c),
         calls' = [calls EXCEPT ![t] = c], UNCHANGED limits
  PROVE  Walks'
<1>1. calls'[t] = c /\ \A u \in Threads : u # t => calls'[u] = calls[u]
  BY CallsStay
<1>2. ASSUME NEW u \in Threads PROVE Walk(calls[u])'
  <2>1. Walk(calls'[u])
    BY <1>1 DEF Walks
  <2> QED
    BY <2>1 DEF Walk, Serves, Adaptable, At, Asked
<1> QED
  BY <1>2 DEF Walks

LEMMA Ending == IsCall(Ended("answered")) /\ Walk(Ended("answered"))
BY DEF IsCall, Ended, NoCall, Walk

LEMMA StartWalks ==
  ASSUME StoreTypeOK, ShapesHonest, Walks, NEW t \in Threads, Start(t)
  PROVE  Walks'
<1>1. PICK model \in {"auto"} \cup Providers, role \in Roles : calls' = [calls EXCEPT ![t] =
         [NoCall EXCEPT !.role = role, !.chain = Candidates(model),
                        !.at = IF Candidates(model) = <<>> THEN "raised" ELSE "next"]]
  BY DEF Start
<1> DEFINE c == [NoCall EXCEPT !.role = role, !.chain = Candidates(model),
                               !.at = IF Candidates(model) = <<>> THEN "raised" ELSE "next"]
<1>2. /\ IsCall(c) /\ c.at \in {"raised", "next"} /\ c.chain = Candidates(model) /\ c.next = 1
      /\ c.refused = {} /\ (c.at = "raised" => c.chain = <<>>)
  BY DEF IsCall, NoCall
<1>3. Walk(c)
  BY <1>2, CandidatesSequence DEF Walk
<1> QED
  BY <1>1, <1>2, <1>3, WalksOn DEF Start

LEMMA TryWalks ==
  ASSUME ShapesHonest, Walks, NEW t \in Threads, TryBackend(t)
  PROVE  Walks'
<1>1. IsCall(calls[t]) /\ Walk(calls[t]) /\ calls[t].at = "next" /\ calls[t].refused = {}
  BY CallsPart DEF Walks, Walk, TryBackend
<1>2. CASE Enabled(Backend(t))
  <2> DEFINE c == [calls[t] EXCEPT !.at = "sending", !.tries = 1,
                                   !.profile = Resolve(Backend(t), Asked(calls[t]))]
  <2>1. calls' = [calls EXCEPT ![t] = c]
    BY <1>2 DEF TryBackend
  <2>2. /\ IsCall(c) /\ c.at = "sending" /\ c.chain = calls[t].chain /\ c.next = calls[t].next
        /\ c.gone = calls[t].gone /\ c.refused = {} /\ c.tries = 1 /\ c.role = calls[t].role
    BY <1>1 DEF IsCall
  <2>3. Cardinality({}) + 1 = 1
    BY FS_EmptySet
  <2> HIDE DEF c
  <2>4. /\ c.refused \subseteq limits[Asked(c)] \cap Fields /\ Sent(c.profile) \cap c.refused = {}
        /\ c.tries = Cardinality(c.refused) + 1
    BY <2>2, <2>3
  <2>5. Walk(c)
    BY <1>1, <2>2, <2>4 DEF Walk, Serves
  <2> QED
    BY <2>1, <2>2, <2>5, WalksOn DEF TryBackend, c
<1>3. CASE ~Enabled(Backend(t))
  <2> DEFINE c == [calls[t] EXCEPT !.next = @ + 1, !.gone = @ \cup {Backend(t)}]
  <2>1. calls' = [calls EXCEPT ![t] = c]
    BY <1>3 DEF TryBackend
  <2>2. /\ IsCall(c) /\ c.at = "next" /\ c.chain = calls[t].chain
        /\ c.next = calls[t].next + 1 /\ c.refused = {} /\ c.role = calls[t].role
        /\ c.gone = calls[t].gone \cup {calls[t].chain[calls[t].next]}
    BY <1>1 DEF IsCall, Backend, At
  <2> HIDE DEF c
  <2>3. \A i : Serves(c, i) <=> Serves(calls[t], i)
    BY <2>2 DEF Serves
  <2>4. ASSUME NEW i \in DOMAIN c.chain, i < c.next, Serves(c, i) PROVE c.chain[i] \in c.gone
    BY <1>1, <2>2, <2>3, <2>4 DEF Walk
  <2>5. Walk(c)
    BY <1>1, <2>2, <2>4 DEF Walk
  <2> QED
    BY <2>1, <2>2, <2>5, WalksOn DEF TryBackend, c
<1> QED
  BY <1>2, <1>3

\* The next provider, after one that could not have been served.
LEMMA NextWalks ==
  ASSUME ShapesHonest, Walks, NEW t \in Threads, calls' = NextBackend(t), UNCHANGED limits,
         ~Adaptable(Backend(t), Asked(calls[t]))
  PROVE  Walks'
<1> DEFINE c == [calls[t] EXCEPT !.at = "next", !.next = @ + 1, !.profile = NoProfile,
                                 !.tries = 0, !.refused = {}]
<1>1. IsCall(calls[t]) /\ Walk(calls[t])
  BY CallsPart DEF Walks
<1>2. /\ IsCall(c) /\ c.at = "next" /\ c.chain = calls[t].chain /\ c.next = calls[t].next + 1
      /\ c.gone = calls[t].gone /\ c.refused = {} /\ c.role = calls[t].role
  BY <1>1 DEF IsCall
<1>3. calls' = [calls EXCEPT ![t] = c]
  BY DEF NextBackend
<1> HIDE DEF c
<1>4. \A i : Serves(c, i) <=> Serves(calls[t], i)
  BY <1>2 DEF Serves
<1>5. ~Serves(calls[t], calls[t].next)
  BY DEF Serves, Backend, At, Asked
<1>6. ASSUME NEW i \in DOMAIN c.chain, i < c.next, Serves(c, i) PROVE c.chain[i] \in c.gone
  BY <1>1, <1>2, <1>4, <1>5, <1>6 DEF Walk
<1>7. Walk(c)
  BY <1>1, <1>2, <1>6 DEF Walk
<1> QED
  BY <1>2, <1>3, <1>7, WalksOn, Zenon

LEMMA OtherStepsWalk ==
  ASSUME ShapesHonest, Walks, NEW t \in Threads,
         AllFailed(t) \/ Accepted(t) \/ Fatal(t) \/ Answered(t) \/ Unusable(t)
  PROVE  Walks'
<1>1. IsCall(calls[t]) /\ Walk(calls[t])
  BY CallsPart DEF Walks
<1>2. CASE AllFailed(t)
  <2> DEFINE c == [calls[t] EXCEPT !.at = "failed"]
  <2>1. /\ IsCall(c) /\ c.at = "failed" /\ c.chain = calls[t].chain /\ c.next = calls[t].next
        /\ c.gone = calls[t].gone /\ c.refused = calls[t].refused /\ c.role = calls[t].role
    BY <1>1 DEF IsCall
  <2>2. \A i \in DOMAIN c.chain : i < c.next
    BY <1>1, <1>2, <2>1 DEF AllFailed, Left, Walk
  <2>3. Walk(c)
    BY <1>1, <2>1, <2>2 DEF Walk, Serves
  <2> QED
    BY <1>2, <2>1, <2>3, WalksOn DEF AllFailed
<1>3. CASE Accepted(t)
  <2> DEFINE c == [calls[t] EXCEPT !.at = "streaming"]
  <2>1. /\ IsCall(c) /\ c.at = "streaming" /\ c.chain = calls[t].chain
        /\ c.next = calls[t].next /\ c.gone = calls[t].gone /\ c.role = calls[t].role
    BY <1>1 DEF IsCall
  <2>2. Walk(c)
    BY <1>1, <2>1 DEF Walk, Serves
  <2> QED
    BY <1>3, <2>1, <2>2, WalksOn DEF Accepted
<1>4. CASE Answered(t)
  BY <1>4, Ending, WalksOn DEF Answered
<1>5. CASE Fatal(t)
  <2> DEFINE c == [calls[t] EXCEPT !.at = "rejected", !.profile = NoProfile, !.tries = 0,
                                   !.refused = {}]
  <2>1. /\ IsCall(c) /\ c.at = "rejected" /\ c.chain = calls[t].chain
        /\ c.next = calls[t].next /\ c.gone = calls[t].gone /\ c.role = calls[t].role
    BY <1>1 DEF IsCall
  <2>2. calls' = [calls EXCEPT ![t] = c] /\ UNCHANGED limits
    BY <1>5 DEF Fatal
  <2> HIDE DEF c
  <2>3. ~Adaptable(At(c), Asked(c))
    BY <1>5, <2>1 DEF Fatal, Works, Adaptable, At, Asked
  <2>4. Walk(c)
    BY <1>1, <2>1, <2>3 DEF Walk, Serves
  <2> QED
    BY <2>1, <2>2, <2>4, WalksOn
<1>6. CASE Unusable(t)
  <2>1. ~Adaptable(Backend(t), Asked(calls[t]))
    BY <1>6 DEF Unusable, Works, Adaptable, Backend
  <2> QED
    BY <1>6, <2>1, NextWalks DEF Unusable
<1> QED
  BY <1>2, <1>3, <1>4, <1>5, <1>6

\* A provider that can be served has refused fewer fields than it has attempts.
LEMMA RefusedWalks ==
  ASSUME ShapesHonest, Walks, NEW t \in Threads, Refused(t)
  PROVE  Walks'
<1> DEFINE f == calls[t].profile
           p == Backend(t)
           m == Asked(calls[t])
           R == calls[t].refused
<1>1. /\ IsCall(calls[t]) /\ Walk(calls[t]) /\ calls[t].at = "sending" /\ p = At(calls[t])
      /\ ShapeHonest(calls[t]) /\ UNCHANGED limits
  BY CallsPart DEF Refused, At, Backend, Walks, ShapesHonest
<1>2. PICK field \in Names(m, f) :
        LET changed == Without(f, field) IN
        IF changed = f
        THEN calls' = NextBackend(t) /\ UNCHANGED learned
        ELSE /\ learned' = [learned EXCEPT ![m] = changed]
             /\ calls' = IF calls[t].tries = MaxShapes THEN NextBackend(t)
                         ELSE SendAgain(t, changed, field)
  BY DEF Refused
<1> DEFINE g == Without(f, field)
           c == [calls[t] EXCEPT !.profile = g, !.tries = @ + 1, !.refused = @ \cup {field}]
<1>3. /\ IsCall(c) /\ c.at = "sending" /\ c.chain = calls[t].chain /\ c.next = calls[t].next
      /\ c.gone = calls[t].gone /\ c.profile = g /\ c.tries = calls[t].tries + 1
      /\ c.refused = R \cup {field} /\ c.role = calls[t].role /\ At(c) = p /\ Asked(c) = m
  BY <1>1 DEF IsCall, At, Asked
<1>4. CASE ~Adaptable(p, m)
  <2>1. CASE calls' = NextBackend(t)
    BY <1>1, <1>4, <2>1, NextWalks
  <2>2. CASE calls' = SendAgain(t, g, field)
    <3>1. Walk(c)
      BY <1>1, <1>3, <1>4 DEF Walk, Serves
    <3> QED
      BY <1>1, <1>3, <2>2, <3>1, WalksOn DEF SendAgain
  <2> QED
    BY <1>2, <2>1, <2>2
<1>5. CASE Adaptable(p, m)
  <2>1. m \in Frank /\ m \in Models
    BY <1>5, ClientAssumption DEF Adaptable
  <2>2. /\ R \subseteq limits[m] \cap Fields /\ Sent(f) \cap R = {}
        /\ calls[t].tries = Cardinality(R) + 1
    BY <1>1, <1>5 DEF Walk
  <2>3. f \in Profiles /\ field \in limits[m] \cap Sent(f)
    BY <1>1, <1>2, <2>1 DEF ShapeHonest, Names
  <2>4. /\ g # f /\ field \notin R /\ field \in Fields
        /\ Sent(g) \cap (R \cup {field}) = {}
    BY <1>5, <2>2, <2>3, WithoutWorks
  <2> DEFINE L == limits[m] \cap Fields
             n == Cardinality(R)
  <2>5. IsFiniteSet(L) /\ IsFiniteSet(R) /\ n \in Nat /\ Cardinality(R \cup {field}) = n + 1
    <3>1. IsFiniteSet(L)
      BY ClientAssumption, FS_Subset
    <3>2. IsFiniteSet(R)
      BY <2>2, <3>1, FS_Subset
    <3> QED
      BY <2>4, <3>1, <3>2, FS_CardinalityType, FS_AddElement
  <2>6. n + 1 < MaxShapes
    <3>1. R \cup {field} \in SUBSET L
      BY <2>2, <2>3, <2>4
    <3>2. n + 1 <= Cardinality(L) /\ Cardinality(L) \in Nat
      BY <2>5, <3>1, FS_Subset, FS_CardinalityType
    <3>3. Cardinality(L) < MaxShapes
      BY <1>5 DEF Adaptable
    <3> QED
      BY <2>5, <3>2, <3>3, ClientAssumption
  <2>7. calls' = [calls EXCEPT ![t] = c]
    <3>1. calls[t].tries # MaxShapes
      BY <2>2, <2>5, <2>6, ClientAssumption
    <3> QED
      BY <1>2, <2>4, <3>1 DEF SendAgain
  <2>8. /\ c.refused \subseteq L /\ Sent(c.profile) \cap c.refused = {}
        /\ c.tries = Cardinality(c.refused) + 1
    BY <1>3, <2>2, <2>3, <2>4, <2>5
  <2>9. Walk(c)
    BY <1>1, <1>3, <2>8 DEF Walk, Serves
  <2> QED
    BY <1>1, <1>3, <2>7, <2>9, WalksOn
<1> QED
  BY <1>4, <1>5

LEMMA WalksStep == StoreInv /\ ShapesHonest /\ Walks /\ [Next]_vars => Walks'
<1> SUFFICES ASSUME StoreInv, ShapesHonest, Walks, [Next]_vars PROVE Walks'
  OBVIOUS
<1>1. CASE UNCHANGED client
  <2>1. ASSUME NEW t \in Threads PROVE Walk(calls[t])'
    <3>1. Walk(calls[t]) /\ UNCHANGED <<calls, limits>>
      BY <1>1 DEF Walks, client
    <3> QED
      BY <3>1 DEF Walk, Serves, Adaptable, At, Asked
  <2> QED
    BY <2>1 DEF Walks
<1>2. CASE SettingsStep \/ PatchSettings \/ UNCHANGED vars
  BY <1>1, <1>2 DEF SettingsStep, PatchSettings, vars
<1>3. ASSUME NEW t \in Threads, LoadSession(t) \/ SaveMeta(t) PROVE Walks'
  BY <1>1, <1>3 DEF LoadSession, SaveMeta
<1>4. ASSUME NEW t \in Threads, CallStep(t) PROVE Walks'
  BY <1>4, TryWalks, RefusedWalks, OtherStepsWalk DEF CallStep
<1>5. CASE Crash
  <2>1. \A t \in Threads : calls'[t] = NoCall
    BY <1>5 DEF Crash
  <2> QED
    BY <2>1 DEF Walks, Walk, NoCall
<1> QED
  BY <1>2, <1>3, <1>4, <1>5, StartWalks DEF Next, StoreInv

LEMMA WalksAlways == Spec => [](ShapesHonest /\ Walks)
<1>1. Init => Walks
  <2> SUFFICES ASSUME Init PROVE Walks
    OBVIOUS
  <2>1. \A t \in Threads : calls[t] = NoCall
    BY DEF Init
  <2> QED
    BY <2>1 DEF Walks, Walk, NoCall
<1> QED
  BY <1>1, ShapesInit, ShapesStep, WalksStep, StoreAlways, PTL DEF Spec

\* A call that ends without an answer has passed over no provider of its chain that
\* could have answered, unless a client took it out of the settings, whatever the
\* other thread learns meanwhile.  A status such as 404 or 408 ends the call at the
\* provider it is from: of the providers behind it nothing is promised
\* (llm_client.py:560-600, 574-575 and 655-700).
THEOREM WorkingProvidersAreNotPassedOver == Spec => []NoWorkingProviderIsPassedOver
<1>1. ASSUME ShapesHonest, Walks PROVE NoWorkingProviderIsPassedOver
  <2> SUFFICES ASSUME NEW t \in Threads, NEW i \in DOMAIN calls[t].chain,
                      calls[t].at \in {"failed", "raised", "rejected"}, Serves(calls[t], i),
                      calls[t].at = "rejected" => i <= calls[t].next
               PROVE  calls[t].chain[i] \in calls[t].gone
    BY DEF NoWorkingProviderIsPassedOver, Serves
  <2>1. Walk(calls[t]) /\ i \in Nat
    BY <1>1 DEF Walks, Walk
  <2>2. CASE calls[t].at = "rejected"
    <3>1. i # calls[t].next
      BY <2>1, <2>2 DEF Walk, Serves, At, Asked
    <3> QED
      BY <2>1, <2>2, <3>1 DEF Walk
  <2> QED
    BY <2>1, <2>2 DEF Walk
<1> QED
  BY <1>1, WalksAlways, PTL

\* A field a provider refused is not sent to it again within the call
\* (llm_client.py:362-398, 426-455).
THEOREM RefusedFieldsStayOut == Spec => []RefusedStaysOut
<1>1. ShapesHonest /\ Walks => RefusedStaysOut
  BY DEF Walks, Walk, RefusedStaysOut, Backend
<1> QED
  BY <1>1, WalksAlways, PTL

================================================================================
