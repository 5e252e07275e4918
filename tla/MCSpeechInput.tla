--------------------------- MODULE MCSpeechInput ---------------------------
(* Two pages for one session slot, four frames through a queue of two.        *)
EXTENDS SpeechInput
CONSTANTS a, b
TwoPages == {a, b}
=============================================================================
