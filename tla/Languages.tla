----------------------------- MODULE Languages ------------------------------
(***************************************************************************)
(* The translation engines, the languages each of them accepts, and the    *)
(* codes its adapter sends (translation/language).                         *)
(***************************************************************************)
EXTENDS Naturals, SequencesExt

\* TranslationEngine::ALL
Engines == {"eztrans", "google", "deepl", "papago", "llm", "mys", "custom"}

(* The support lists, in their order: a language that has to be replaced is *)
(* replaced by the first.                                                   *)
GoogleSupported ==
    <<"ja", "ko", "en", "zh-CN", "zh-TW", "es", "fr", "de", "it", "pt", "ru", "ar", "hi", "th",
      "vi", "id", "ms", "nl", "pl", "tr", "uk">>
DeepLSupported ==
    <<"ja", "ko", "en", "zh-CN", "zh-TW", "es", "fr", "de", "it", "pt", "ru", "nl", "pl", "tr", "uk">>
PapagoSupported ==
    <<"ko", "en", "ja", "zh-CN", "zh-TW", "vi", "th", "id", "fr", "es", "ru", "de", "it">>

Language == ToSet(GoogleSupported)

OnlyJapaneseToKorean == {"eztrans", "mys"}
Supported(engine) ==
    CASE engine = "deepl" -> DeepLSupported
      [] engine = "papago" -> PapagoSupported
      [] OTHER -> GoogleSupported
SupportedSources(engine) == IF engine \in OnlyJapaneseToKorean THEN <<"ja">> ELSE Supported(engine)
SupportedTargets(engine) == IF engine \in OnlyJapaneseToKorean THEN <<"ko">> ELSE Supported(engine)

\* papago_supports_pair: Korean, English and Japanese with a list each, both ways.
PapagoPartners ==
    [ko |-> ToSet(PapagoSupported) \ {"ko"},
     en |-> {"ja", "zh-CN", "zh-TW", "vi", "th", "id", "fr", "es", "ru", "de"},
     ja |-> {"zh-CN", "zh-TW", "vi", "th", "id", "fr"}]
PapagoSupportsPair(source, target) ==
    \/ \E anchor \in DOMAIN PapagoPartners :
        \/ source = anchor /\ target \in PapagoPartners[anchor]
        \/ target = anchor /\ source \in PapagoPartners[anchor]
    \/ {source, target} = {"zh-CN", "zh-TW"}

SupportsPair(engine, source, target) ==
    /\ source # target
    /\ source \in ToSet(SupportedSources(engine)) /\ target \in ToSet(SupportedTargets(engine))
    /\ engine = "papago" => PapagoSupportsPair(source, target)

\* The first of supported_targets_for.
FirstTargetFor(engine, source) ==
    LET targets == SupportedTargets(engine)
        first == CHOOSE i \in DOMAIN targets :
                    /\ SupportsPair(engine, source, targets[i])
                    /\ \A k \in 1..(i - 1) : ~SupportsPair(engine, source, targets[k])
    IN  targets[first]

\* The languages an adapter has a code for; the others are an error when a request is built.
DeepLCodes == Language \ {"ar", "hi", "th", "vi", "id", "ms"}
PapagoCodes == Language \ {"ar", "hi", "pt", "ms", "nl", "pl", "tr", "uk"}
HasCode(engine, language) ==
    CASE engine = "deepl" -> language \in DeepLCodes
      [] engine = "papago" -> language \in PapagoCodes
      [] OTHER -> TRUE

(* max_input_chars, and what only some engines may do.                      *)
MaxInputChars(engine) == IF engine \in {"google", "papago"} THEN 5000 ELSE 100000
RequiresHookSession(engine) == engine = "mys"
SupportsFileTranslation(engine) == ~RequiresHookSession(engine)

-----------------------------------------------------------------------------
(* Scripts, by which a text is kept from an engine it is not for.           *)
Scripts == {"kana", "han", "hangul", "latin", "cyrillic", "arabic", "devanagari", "thai", "other"}

ScriptOf(language) ==
    CASE language = "ja" -> "japanese"
      [] language = "ko" -> "korean"
      [] language \in {"zh-CN", "zh-TW"} -> "chinese"
      [] language \in {"ru", "uk"} -> "cyrillic"
      [] language = "ar" -> "arabic"
      [] language = "hi" -> "devanagari"
      [] language = "th" -> "thai"
      [] OTHER -> "latin"

\* Script::contains: Japanese and Korean texts may be in Chinese characters.
ScriptHolds(script, char) ==
    CASE script = "japanese" -> char \in {"kana", "han"}
      [] script = "korean" -> char \in {"hangul", "han"}
      [] script = "chinese" -> char = "han"
      [] OTHER -> char = script

\* text_matches_script: one character of the script is enough.
TextMatchesScript(language, chars) == \E char \in chars : ScriptHolds(ScriptOf(language), char)
=============================================================================
