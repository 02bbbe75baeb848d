------------------------- MODULE MCBrowserLifecycle -------------------------
(* Instances of BrowserLifecycle for TLC. *)
EXTENDS BrowserLifecycle
=============================================================================
