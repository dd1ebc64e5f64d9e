------------------------ MODULE MCSubprocessMonitor -------------------------
EXTENDS SubprocessMonitor, TLC

CONSTANTS h1, h2, h3, l1, g1, g2

MCHandle == {h1, h2, h3}
MCLauncher == {l1}
MCGenerator == {g1, g2}
=============================================================================
