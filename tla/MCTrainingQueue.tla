-------------------------- MODULE MCTrainingQueue --------------------------
(* One cell of one development seed.                                        *)
EXTENDS TrainingQueue

CONSTANTS c1, s1

MCOneCell == <<c1>>
MCSeeds == <<s1>>
==============================================================================
