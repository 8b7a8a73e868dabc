--------------------------- MODULE MCBrowserFeed ----------------------------
(* Instances of BrowserFeed and of LogWindow on it for TLC.                *)
EXTENDS LogWindow

Feed == [auth |-> FALSE, buffer |-> 2, events |-> 2, breaks |-> 1, restarts |-> 0,
         slow |-> 0, remounts |-> 0, lines |-> 0, asks |-> 0, tail |-> 1, fails |-> FALSE,
         scope |-> "process"]

MCSettings ==
    { \* sockets break, the server restarts, the buffer is too small, sockets are slow
      [Feed EXCEPT !.events = 3, !.breaks = 2, !.restarts = 1, !.slow = 1],
      \* the page comes back
      [Feed EXCEPT !.remounts = 1],
      \* sessions are looked at
      [Feed EXCEPT !.auth = TRUE, !.restarts = 1],
      \* a log is looked at; the window grows, the master fails
      [Feed EXCEPT !.events = 3, !.breaks = 0, !.lines = 3, !.asks = 2, !.tail = 2, !.fails = TRUE],
      \* asked for while the session is looked at
      [Feed EXCEPT !.auth = TRUE, !.breaks = 0, !.lines = 2, !.asks = 2, !.tail = 2],
      \* its sockets break
      [Feed EXCEPT !.lines = 2, !.asks = 1],
      \* the log of a host, and of the server
      [Feed EXCEPT !.breaks = 0, !.lines = 2, !.asks = 2, !.tail = 2, !.fails = TRUE, !.scope = "host"],
      [Feed EXCEPT !.breaks = 0, !.lines = 2, !.asks = 2, !.tail = 2, !.fails = TRUE, !.scope = "overlay"] }
=============================================================================
