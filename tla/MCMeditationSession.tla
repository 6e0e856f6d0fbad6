------------------------ MODULE MCMeditationSession ------------------------
EXTENDS MeditationSession, TLC

CONSTANT a

(* 5 wraps to -1 when MaxDuration is 3: over at once.                      *)
MCDurations == {1, 5}
=============================================================================
