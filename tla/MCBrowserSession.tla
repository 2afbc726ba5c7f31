-------------------------- MODULE MCBrowserSession --------------------------
(* Finite instances of BrowserSession.                                      *)
EXTENDS BrowserSession, TLC
=============================================================================
