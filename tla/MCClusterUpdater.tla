--------------------------- MODULE MCClusterUpdater ---------------------------
(* Two contexts, two runs of clusterUpdater, two pages.                    *)
EXTENDS ClusterUpdater
CONSTANTS home, away, first, second, page1, page2
MCContexts == {home, away}
MCUpdaters == {first, second}
MCPages == {page1, page2}
(* The contexts are alike, and so are the pages: one start is enough.      *)
MCInit == Init /\ context = home /\ stack = <<page1>>
MCSpec == MCInit /\ [][Next]_allVars /\ Fairness
MCThreads == MCUpdaters \union {UI}
=============================================================================
