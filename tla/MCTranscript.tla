---------------------------- MODULE MCTranscript ----------------------------
(* Instances of Transcript for TLC.                                        *)
EXTENDS Transcript

(* The first turn is long enough for text, a tool and text again.          *)
TokensPerTurn == <<3, 2>>
=============================================================================
