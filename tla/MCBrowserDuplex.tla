-------------------------- MODULE MCBrowserDuplex --------------------------
(* Model-checking instance of BrowserDuplex. *)
EXTENDS BrowserDuplex

=============================================================================
