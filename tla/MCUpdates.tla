----------------------------- MODULE MCUpdates -----------------------------
(* Three updates of which the first may be anything a user can send, with a *)
(* channel and an answer smaller than that.                                 *)
EXTENDS Updates, TLC

Everything == Buttons({7, 10}, {1, 2}) \cup Messages \cup {Ignored}

MCNumbers == 0 .. 10
MCWants == <<Everything, {Does("list", None, None)}, {Does("done", "7", None)}>>
=============================================================================
