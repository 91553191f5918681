--------------------------- MODULE MCTabSessions ---------------------------
(* Two tabs of one browser.                                                *)
EXTENDS TabSessions

CONSTANTS left, right

TwoTabs == {left, right}
TwoSlots == {1, 2}
=============================================================================
