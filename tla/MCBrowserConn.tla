--------------------------- MODULE MCBrowserConn ---------------------------
(* A model-checking instance of BrowserConn. *)
EXTENDS BrowserConn

\* One or two actors at a time: all five at once are out of reach.
Groups ==
    [mode : {"packet-up"},
     actors : {{"writer", "owner"}, {"owner", "client"}, {"reader", "contexts"}}]
    \cup [mode : {"stream-up"},
          actors : {{"writer"}, {"reader"}, {"owner", "client"}, {"contexts"}}]
    \cup [mode : {"stream-one"},
          actors : {{"writer", "reader"}, {"writer", "contexts"},
                    {"writer", "owner"}, {"reader", "client"}}]

=============================================================================
