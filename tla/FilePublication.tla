--------------------------- MODULE FilePublication ---------------------------
(***************************************************************************)
(* Publication of several files as one (common/artifacts.py,               *)
(* _publish_new_files): stage every file, link each to its name in order,  *)
(* take back the own links if anything fails.  The last file is the marker *)
(* that completes the others; readers look for it first.                   *)
(*                                                                         *)
(* A name holds the inode some publisher staged for it, so a name is known *)
(* by its owner.  Publishers may compete for names and are processes that  *)
(* may die at any step; a handled interruption may come at any step too.   *)
(* Staged copies have names nobody else looks at and are left out.  A link *)
(* or unlink outlives its process; what a power loss makes of directory    *)
(* entries not yet synced is the file system's and left out.               *)
(***************************************************************************)
EXTENDS Integers, Sequences

CONSTANTS
  Names,        (* the paths                                               *)
  Publishers,   (* calls of _publish_new_files                             *)
  Contents,     (* Contents[p]: the keys of contents, in their order       *)
  NoOne,        (* the owner of a path that does not exist                 *)
  Another       (* the owner of a file a writer of another kind has put    *)

ASSUME OwnersAssumption ==
  /\ NoOne \notin Publishers /\ Another \notin Publishers /\ NoOne # Another
ASSUME ContentsAssumption ==
  /\ Contents \in [Publishers -> Seq(Names)]
  /\ \A p \in Publishers :
       /\ Len(Contents[p]) > 0
       /\ \A i, j \in 1..Len(Contents[p]) : Contents[p][i] = Contents[p][j] => i = j

VARIABLES
  file,         (* file[n]: whose file the path n is                       *)
  publisher     (* publisher[p]: where the call is                         *)

vars == <<file, publisher>>

------------------------------------------------------------------------------
(* State *)

Indices(p) == 1..Len(Contents[p])

Marker(p) == Contents[p][Len(Contents[p])]

(* n: the files linked so far or, while taking back, those still to look at *)
Init ==
  /\ file = [n \in Names |-> NoOne]
  /\ publisher = [p \in Publishers |-> [pc |-> "idle", n |-> 0]]

Running == {"staging", "linking", "rolling", "unlinking"}

Becomes(p, pc, n) == publisher' = [publisher EXCEPT ![p] = [pc |-> pc, n |-> n]]

------------------------------------------------------------------------------
(* Behaviour *)

(* _require_new_paths                                                       *)
Require(p) ==
  /\ publisher[p].pc = "idle"
  /\ IF \A i \in Indices(p) : file[Contents[p][i]] = NoOne
     THEN Becomes(p, "staging", 0)
     ELSE Becomes(p, "raised", 0)
  /\ UNCHANGED file

(* Write and sync every copy; a failure has no link to take back.           *)
Stage(p) ==
  /\ publisher[p].pc = "staging"
  /\ Becomes(p, "linking", 0) \/ Becomes(p, "raised", 0)
  /\ UNCHANGED file

(* Mutants: the marker is linked first; a link is noted after it was made.  *)
MarkerFirst(p) == Contents[p][Len(Contents[p]) - publisher[p].n]
NotedAfter(p) == publisher[p].n

Destination(p) == Contents[p][publisher[p].n + 1]

(* "Track the attempt first": the link is among those to take back even if  *)
(* the interruption came before or after it.                                *)
Noted(p) == publisher[p].n + 1

Link(p) ==
  /\ publisher[p].pc = "linking" /\ publisher[p].n < Len(Contents[p])
  /\ \/ /\ file[Destination(p)] = NoOne
        /\ file' = [file EXCEPT ![Destination(p)] = p]
        /\ Becomes(p, "linking", publisher[p].n + 1) \/ Becomes(p, "rolling", Noted(p))
     \/ /\ Becomes(p, "rolling", publisher[p].n + 1)
        /\ UNCHANGED file

(* Sync the directories and remove the copies.  An interruption of the      *)
(* removal is not handled: the call raises with everything published.       *)
Sync(p) ==
  /\ publisher[p].pc = "linking" /\ publisher[p].n = Len(Contents[p])
  /\ \/ Becomes(p, "published", publisher[p].n)
     \/ Becomes(p, "rolling", publisher[p].n)
     \/ Becomes(p, "abandoned", publisher[p].n)
  /\ UNCHANGED file

(* Mutant: whatever has the name is taken back.                             *)
AnyFile(p) == file[Contents[p][publisher[p].n]] # NoOne

(* Compare the inode of the name with that of the copy.                     *)
OwnFile(p) == file[Contents[p][publisher[p].n]] = p

TakeBack(p) ==
  /\ publisher[p].pc = "rolling" /\ publisher[p].n > 0
  /\ IF OwnFile(p)
     THEN Becomes(p, "unlinking", publisher[p].n)
     ELSE Becomes(p, "rolling", publisher[p].n - 1)
  /\ UNCHANGED file

Unlink(p) ==
  /\ publisher[p].pc = "unlinking"
  /\ file' = [file EXCEPT ![Contents[p][publisher[p].n]] = NoOne]
  /\ Becomes(p, "rolling", publisher[p].n - 1)

Raise(p) ==
  /\ publisher[p].pc = "rolling" /\ publisher[p].n = 0
  /\ Becomes(p, "raised", 0)
  /\ UNCHANGED file

(* A second interruption, or the end of the process at any step.            *)
Abandon(p) ==
  /\ publisher[p].pc \in Running
  /\ Becomes(p, "abandoned", publisher[p].n)
  /\ UNCHANGED file

(* A writer of another kind renames its own file over an existing one.      *)
Replace(n) ==
  /\ file[n] \in Publishers
  /\ file' = [file EXCEPT ![n] = Another]
  /\ UNCHANGED publisher

Next ==
  \/ \E p \in Publishers :
       \/ Require(p) \/ Stage(p) \/ Link(p) \/ Sync(p)
       \/ TakeBack(p) \/ Unlink(p) \/ Raise(p) \/ Abandon(p)
  \/ \E n \in Names : Replace(n)

Spec == Init /\ [][Next]_vars

------------------------------------------------------------------------------
(* Properties *)

TypeOK ==
  /\ file \in [Names -> Publishers \union {NoOne, Another}]
  /\ publisher \in [Publishers ->
       [pc : Running \union {"idle", "published", "raised", "abandoned"}, n : Nat]]
  /\ \A p \in Publishers : publisher[p].n <= Len(Contents[p])

(* Who finds the marker finds the whole publication: at no moment, whatever *)
(* failed, competed or died, does a marker stand without the files it       *)
(* completes ("the last file is the completion marker").  A file a writer   *)
(* of another kind has replaced is that writer's business.                  *)
MarkerIsComplete ==
  \A p \in Publishers : file[Marker(p)] = p =>
    \A i \in Indices(p) : file[Contents[p][i]] \in {p, Another}

(* No publisher's roll-back takes a file of a publication that succeeded    *)
(* ("Inode checks preserve competing outputs").                             *)
RivalsSurvive ==
  [][\A p \in Publishers, n \in Names :
       publisher[p].pc = "published" /\ file[n] = p => file'[n] \in {p, Another}]_vars

(* A failed call leaves none of its links behind, even if an interruption   *)
(* came between making a link and noting it ("handled errors remove only    *)
(* links made by this call").                                               *)
NothingLeftBehind ==
  \A p \in Publishers : publisher[p].pc = "raised" => \A n \in Names : file[n] # p
==============================================================================
