-------------------------- MODULE MCUpgradeManager --------------------------
EXTENDS UpgradeManager, TLC
CONSTANTS r1, r2, adm, usr, rel1, rel2, c1, nobody

\* What the repository serves after it changed is critical.
Crit == {<<c1, 1>>}
CritLater == {<<c1, 2>>}
=============================================================================
