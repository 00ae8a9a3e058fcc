---- MODULE MCBrowserLink ----
(* The run of BrowserLink needs no definition of its own. *)
EXTENDS BrowserLink
====
