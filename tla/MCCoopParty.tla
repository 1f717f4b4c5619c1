---------------------------- MODULE MCCoopParty -----------------------------
(* CoopParty on small instances.                                            *)
EXTENDS CoopParty

AllGames == {{"loss", "swap", "saves"}, {"items", "ropes", "saves"}, {"team", "items", "loss"},
             {"stomp", "mount", "swap", "policy"}, {"stomp", "swap", "policy", "saves"},
             {"mount", "saves"}, {"mount", "bananas", "loss"}}
StompGame == {{"stomp", "policy"}}
PolicyGame == {{"loss", "policy"}}
=============================================================================
