-------------------------- MODULE MCHubInventory ---------------------------
EXTENDS HubInventory

CONSTANTS w1, w2, u1, u2, u3, u4

MCWorkspaces == {w1, w2}
MCConfigured == <<>>
MCUids == {u1, u2, u3, u4}
MCWanted == {u1, u2}
MCBeginnings == {<<u1, u2, u3, u4>>, <<u3, u1>>, <<>>}
=============================================================================
