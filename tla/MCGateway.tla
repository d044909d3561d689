----------------------------- MODULE MCGateway ------------------------------
EXTENDS Gateway, TLC

CONSTANTS o1, u1, h1, h2

MCOwnerOf == u1 :> o1
=============================================================================
