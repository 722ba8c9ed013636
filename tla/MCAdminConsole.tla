--------------------------- MODULE MCAdminConsole ---------------------------
(***************************************************************************)
(* The console against its default server and another one, with a token    *)
(* that can be typed, and an input that can be cleared.                    *)
(***************************************************************************)
EXTENDS AdminConsole

LiveDefault == [demo |-> FALSE, url |-> "here", token |-> ""]
DemoDefault == [demo |-> TRUE, url |-> "here", token |-> ""]
AllPages    == DOMAIN Pages \ {"broken"}
=============================================================================
