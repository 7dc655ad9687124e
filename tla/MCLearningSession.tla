-------------------------- MODULE MCLearningSession --------------------------
(* Bounds for model checking LearningSession. *)
EXTENDS LearningSession

(* Restarts are explored without the stale reads of status() and without    *)
(* pauses of the later attempt, which are explored over one attempt, and    *)
(* start() returns, or gives up on launch.json, before the learner it       *)
(* launched trains.                                                         *)
Restarts ==
  /\ frontend.pc = "spawned" => worker[frontend.attempt].pc \in {"none", "starting"}
  /\ \A a \in Attempts : request[a].previous # 0 => control[a].operation # "pause"
  /\ frontend.pc = "read" /\ frontend.attempt # 0 =>
       /\ frontend.attempt = current
       /\ frontend.identity = status[current].identity
       /\ frontend.phase = status[current].phase
       /\ frontend.final = result[current].phase
==============================================================================
