-------------------------- MODULE MCLearningJournal --------------------------
(* One lineage: an original run and its nested forks. *)
EXTENDS LearningJournal

MCJournals == 1..3

(* Journals that do not descend from one another share no state, so only    *)
(* lineages are explored: journal j + 1 exists once journal j has failed    *)
(* and its writer is gone, and takes over from it as its first event.       *)
OneLineage ==
  \A j \in MCJournals : j > 1 /\ directory[j] # "absent" =>
    /\ Durable(j - 1).failed
    /\ writer[j - 1].mode = "closed"
    /\ chain[j] # <<>> => chain[j][1].recovery.source = j - 1

(* A boundary that repeats the summary before it adds nothing to a journal. *)
NoRepeats ==
  \A j \in MCJournals : \A i \in 2..Len(chain[j]) : chain[j][i] # chain[j][i - 1]

(* Time passes in the original run only; the forks inherit what it reached. *)
OneClock ==
  \A j \in MCJournals : j > 1 /\ chain[j] # <<>> =>
    writer[j].state.active_elapsed_s <= chain[j][1].active_elapsed_s
==============================================================================
