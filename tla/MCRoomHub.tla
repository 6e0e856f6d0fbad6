---------------------------- MODULE MCRoomHub ----------------------------
(* A small room for TLC: a host whose tab reconnects (h1 and h2 share the  *)
(* user and the client id) and a guest.                                    *)
EXTENDS RoomHub, TLC

CONSTANTS h1, h2, g1, r1, r2

HostReconnects == (h1 :> "H") @@ (h2 :> "H") @@ (g1 :> "G")
HostAndGuest   == (h1 :> "H") @@ (g1 :> "G")

ObjSymmetry == Permutations(Objs)
=============================================================================
