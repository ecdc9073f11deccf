------------------------------- MODULE MCLaMmu -------------------------------
(* Instances of LaMmu: two pages, two address spaces, two slots. *)
EXTENDS LaMmu, TLC

\* A page of the user, and one of the kernel's.
LowPages == {<<1, 0>>}
GlobalPages == {<<2, 0>>}
HandlerPage == <<1, 0>>

\* No page, a dirty one, and either one to read or one the walker is to mark.
Dirty == [p |-> TRUE, v |-> TRUE, w |-> TRUE, d |-> TRUE, ppn |-> 2]
ReadOnly == [p |-> TRUE, v |-> TRUE, w |-> FALSE, d |-> FALSE, ppn |-> 1]
Unmarked == [p |-> TRUE, v |-> FALSE, w |-> TRUE, d |-> FALSE, ppn |-> 2]
PteForms ==
  [key \in Keys |->
     {Absent, Dirty} \union IF key[1] = Kernel THEN {Unmarked} ELSE {ReadOnly}]
Interchangeable == Permutations(Asids) \union Permutations(Slots)
=============================================================================
