------------------------ MODULE MCNotificationDevice ------------------------
EXTENDS NotificationDevice, TLC

TabAndUserSymmetry == Permutations(Tabs) \cup Permutations(Users)
=============================================================================
