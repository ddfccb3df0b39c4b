------------------------------ MODULE MCGuestVm ------------------------------
(* GuestVm for TLC: the binder threads are interchangeable.                  *)
EXTENDS GuestVm, TLC

Symmetry == Permutations(Clients) \cup Permutations(Guests)
=============================================================================
