-------------------------- MODULE MCCampaignSending --------------------------
EXTENDS CampaignSending, TLC

CONSTANTS a1, a2, a3, w1, w2, w3

NoOne == <<>>
OnePerson == <<a1>>
TwoPeople == <<a1, a2>>
ThreePeople == <<a1, a2, a3>>
OneOrTwo == {{a2}, {a1, a2}}

Processes == Permutations(Workers)

=============================================================================
