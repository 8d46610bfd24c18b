------------------------ MODULE MCTranslationEngine ------------------------
(* TranslationEngine with one operation of two chunks, whose session is    *)
(* closed at any point.                                                    *)
EXTENDS TranslationEngine
=============================================================================
