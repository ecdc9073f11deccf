------------------------------ MODULE BlkService ------------------------------
(***************************************************************************)
(* What a guest is promised of its disk: requests are served one at a      *)
(* time, each once, in the order they were made available, and answered in *)
(* that order.                                                             *)
(***************************************************************************)
EXTENDS Sequences

CONSTANTS Tags, Sectors, Values

VARIABLES
  disk,   \* contents of the image file
  todo,   \* requests made available and not served
  done    \* requests served, their answers not yet collected

svars == <<disk, todo, done>>

Ops == {"IN", "OUT", "OTHER"}

Request ==
  [tag : Tags, op : Ops, sector : Sectors, val : Values, status : {"sent", "ok"}]

SInit == disk \in [Sectors -> Values] /\ todo = <<>> /\ done = <<>>

Submit ==
  /\ \E r \in Request : r.status = "sent" /\ todo' = Append(todo, r)
  /\ UNCHANGED <<disk, done>>

\* The answer to r when the disk holds d, and the disk after it.
Answer(r, d) ==
  [r EXCEPT !.status = "ok", !.val = IF r.op = "IN" THEN d[r.sector] ELSE @]

After(r, d) == IF r.op = "OUT" THEN [d EXCEPT ![r.sector] = r.val] ELSE d

Perform ==
  /\ todo # <<>>
  /\ disk' = After(Head(todo), disk)
  /\ done' = Append(done, Answer(Head(todo), disk))
  /\ todo' = Tail(todo)

Take == done # <<>> /\ done' = Tail(done) /\ UNCHANGED <<disk, todo>>

SSpec == SInit /\ [][Submit \/ Perform \/ Take]_svars
=============================================================================
