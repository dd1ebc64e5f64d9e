------------------------------ MODULE MCDockApp ------------------------------
EXTENDS DockApp

MCRates == {<<0, 0>>, <<1, 0>>, <<1, 2>>, <<4, 0>>}
MCStackedValues == {<<0, 0, 0>>, <<80, 0, 60>>, <<130, 0, 200>>}
MCScales == <<1, 2, 4>>
=============================================================================
