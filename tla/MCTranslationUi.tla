--------------------------- MODULE MCTranslationUi ---------------------------
(* A small instance of TranslationUi: one window and one dialog with sessions. *)
EXTENDS TranslationUi
=============================================================================
