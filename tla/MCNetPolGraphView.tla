-------------------------- MODULE MCNetPolGraphView --------------------------
EXTENDS NetPolGraphView, TLC
CONSTANTS a, b, caller1, caller2, watch1, watch2, screen
MCSubjects == {a, b}
MCOneSubject == {a}
MCOneCaller == {caller1}
MCTwoCallers == {caller1, caller2}
MCNoWatch == {}
MCOneWatch == {watch1}
MCWatches == {watch1, watch2}
MCListeners == {screen}
Symmetric == Permutations(MCWatches) \union Permutations(MCTwoCallers)
=============================================================================
