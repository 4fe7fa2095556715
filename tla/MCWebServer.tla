---------------------------- MODULE MCWebServer -----------------------------
(* Two clients and two files besides none: one that may be deleted, and    *)
(* "/", which may not. Uploads of one or two buffers.                      *)
EXTENDS WebServer

CONSTANTS root, page

MCNames == {root, page}
=============================================================================
