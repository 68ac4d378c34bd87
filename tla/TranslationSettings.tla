------------------------ MODULE TranslationSettings -------------------------
(***************************************************************************)
(* The translation part of the configuration and what an editor does to    *)
(* it (translation/settings.rs, config/translation.rs, config/llm.rs).     *)
(* Credentials and texts are members of small sets; "" is an empty one.    *)
(***************************************************************************)
EXTENDS Languages

CONSTANTS
    Dictionary,     \* contents of the EzTrans post-processing dictionary
    DeepLKey,       \* DeepL keys
    FreeKeys,       \* those of the free service, which end in ":fx"
    CustomApis,     \* names of the registered custom APIs, in order
    EnginesUsed, LanguagesUsed, ProvidersUsed   \* bound: what the changes choose from

Providers == {"openai", "anthropic", "gemini", "grok", "openrouter"}

\* LlmConfig's fields that are kept for each provider.
DefaultProfile == [model |-> "", key |-> ""]

DefaultConfig ==
    [engine |-> "eztrans", source |-> "ja", target |-> "ko",
     path |-> "bundled", dict |-> CHOOSE d \in Dictionary : TRUE,
     keys |-> << >>, legacyKey |-> "", roundRobin |-> FALSE, papago |-> "", mys |-> "",
     provider |-> "openai", llm |-> DefaultProfile, profiles |-> << >>,
     custom |-> ""]

-----------------------------------------------------------------------------
(* Languages follow the engine.                                            *)

\* normalize_language
Normalized(language, supported) ==
    IF language \in ToSet(supported) THEN language ELSE Head(supported)

\* A target that does not go with the source is replaced by the first that does.
FittingTarget(config) ==
    IF SupportsPair(config.engine, config.source, config.target) THEN config
    ELSE [config EXCEPT !.target = FirstTargetFor(config.engine, config.source)]

EngineChanged(config, engine) ==
    FittingTarget([config EXCEPT
        !.engine = engine,
        !.source = Normalized(@, SupportedSources(engine)),
        !.target = Normalized(@, SupportedTargets(engine))])

\* A source the engine does not support is refused, and leaves the configuration alone.
SourceChanged(config, language) ==
    IF language \in ToSet(SupportedSources(config.engine))
    THEN FittingTarget([config EXCEPT !.source = language])
    ELSE config

TargetChanged(config, language) ==
    IF SupportsPair(config.engine, config.source, language)
    THEN [config EXCEPT !.target = language]
    ELSE config

-----------------------------------------------------------------------------
(* Credentials.                                                            *)

(* The active provider's profile is in config.llm, the others' in          *)
(* config.profiles, which is set aside and taken out when the provider     *)
(* changes.                                                                *)
Without(profiles, p) == [q \in DOMAIN profiles \ {p} |-> profiles[q]]
With(profiles, p, profile) == [q \in DOMAIN profiles \cup {p} |-> IF q = p THEN profile ELSE profiles[q]]

\* Mutant: the profile left behind is not stored.
ProviderForgets(config, provider) ==
    IF config.provider = provider THEN config
    ELSE [config EXCEPT
        !.provider = provider,
        !.llm = IF provider \in DOMAIN config.profiles THEN config.profiles[provider] ELSE DefaultProfile]

\* set_provider
ProviderChanged(config, provider) ==
    IF config.provider = provider THEN config
    ELSE LET stored == With(config.profiles, config.provider, config.llm)
         IN [config EXCEPT
                !.provider = provider,
                !.llm = IF provider \in DOMAIN stored THEN stored[provider] ELSE DefaultProfile,
                !.profiles = Without(stored, provider)]

\* The user says which service a key is for; a key of the other one is refused.
KeyAdded(config, free, key) ==
    IF (key \in FreeKeys) # free \/ key \in ToSet(config.keys) THEN config
    ELSE [config EXCEPT !.keys = Append(@, key)]
KeyRemoved(config, i) ==
    IF i \in DOMAIN config.keys THEN [config EXCEPT !.keys = RemoveAt(@, i)] ELSE config

\* deepl_effective_keys: without a list, the single key of earlier versions.
EffectiveKeys(config) ==
    IF config.keys # << >> THEN config.keys
    ELSE IF config.legacyKey # "" THEN <<config.legacyKey>> ELSE << >>

\* active_custom_api: no selection means the first.
ActiveCustom(config) == IF config.custom = "" THEN Head(CustomApis) ELSE config.custom
CustomSelected(config, name) ==
    IF name \in ToSet(CustomApis) THEN [config EXCEPT !.custom = name] ELSE config

\* GlossaryDraft::commit for the EzTrans dictionary: a list built anew.
DictionaryCommitted(config, dict) == [config EXCEPT !.dict = dict]

-----------------------------------------------------------------------------
(* Every change of the editor.                                             *)
Set(config, field, value) == [config EXCEPT ![field] = value]

\* TranslationSettingsEditor::apply, by group
PairChanges(config) ==
    {EngineChanged(config, e) : e \in EnginesUsed}
    \cup {SourceChanged(config, l) : l \in LanguagesUsed}
    \cup {TargetChanged(config, l) : l \in LanguagesUsed}
DeepLChanges(config) ==
    {KeyAdded(config, free, k) : free \in BOOLEAN, k \in DeepLKey}
    \cup {KeyRemoved(config, i) : i \in DOMAIN config.keys}
    \cup {Set(config, "roundRobin", b) : b \in BOOLEAN}
LlmChanges(config) ==
    {ProviderChanged(config, p) : p \in ProvidersUsed}
    \cup {[config EXCEPT !.llm.model = m] : m \in {"", "model"}}
    \cup {[config EXCEPT !.llm.key = k] : k \in {"", "key"}}
OtherChanges(config) ==
    {CustomSelected(config, CustomApis[i]) : i \in DOMAIN CustomApis}
    \cup {DictionaryCommitted(config, d) : d \in Dictionary}
    \cup {Set(config, "path", p) : p \in {"", "bundled"}}

Changes(config) ==
    PairChanges(config) \cup DeepLChanges(config) \cup LlmChanges(config) \cup OtherChanges(config)
=============================================================================
