---------------------------- MODULE MCChatClient ----------------------------
EXTENDS ChatClient, TLC

CONSTANTS s1, s2, c1, c2, d1

MCOwner == (c1 :> s1) @@ (d1 :> s1) @@ (c2 :> s2)
MCOrder == <<s1, d1, c1, s2, c2>>
=============================================================================
