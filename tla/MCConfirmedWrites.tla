---- MODULE MCConfirmedWrites ----
EXTENDS ConfirmedWrites, TLC

CONSTANTS alice, bob, aliceToken, setPv, restore, noSuchTool

MCTokenOwner == aliceToken :> alice

(* Alice and Bob through clients that left the token template unresolved,  *)
(* Bob's a client that does not ask for confirmation.                      *)
AliceUnresolved == [person |-> alice, token |-> [bearer |-> FALSE, text |-> Placeholder],
                    user |-> alice, confirms |-> TRUE]
BobUnresolved   == [AliceUnresolved EXCEPT !.person = bob, !.user = bob, !.confirms = FALSE]

MCSenders == {AliceUnresolved, BobUnresolved}

Symmetry == Permutations(Ids) \cup Permutations(Tasks)
====
