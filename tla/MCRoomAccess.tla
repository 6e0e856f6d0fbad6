--------------------------- MODULE MCRoomAccess ---------------------------
(* A small lobby for TLC: user A has created a room in one page and wants  *)
(* a second room in another; user B, in one page or two, visits the first. *)
EXTENDS RoomAccess, TLC

CONSTANTS a1, a2, b1, r1, r2, p, q

MCRoomOf    == (a1 :> r1) @@ (a2 :> r2) @@ (b1 :> r1)
MCUserOf    == (a1 :> "A") @@ (a2 :> "A") @@ (b1 :> "B")
MCCreatorOf == (r1 :> a1) @@ (r2 :> a2)

PasswordSymmetry == Permutations(Passwords)
=============================================================================
