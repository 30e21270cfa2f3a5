-------------------------- MODULE MCBrowserSession --------------------------
(* Values for the checks of BrowserSession. *)
EXTENDS BrowserSession

CONSTANTS a, b
TwoTabs == {a, b}
OneTab  == {a}

=============================================================================
