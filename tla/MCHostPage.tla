--------------------------- MODULE MCHostPage ----------------------------
(* Instances of HostPage, and with it of HostCatalog, for TLC.             *)
EXTENDS HostPage

MCSlaves == {"s1", "s2", "s3"}
MCIps == {"a", "b"}
MCOrder == <<"s1", "s2", "s3">>

Quiet ==
    [names |-> [s1 |-> {"m1"}, s2 |-> {"m2"}, s3 |-> {"m3"}],
     ips |-> [s1 |-> {"a"}, s2 |-> {"a"}, s3 |-> {"b"}],
     native |-> {"s1", "s2"}, outdated |-> {}, added |-> {},
     forgets |-> FALSE, upgrades |-> FALSE, calls |-> {"c1", "c2"},
     browsers |-> {}, rows |-> 3, asks |-> 0,
     kept |-> 0, sessions |-> 0, does |-> {"remove"}]

Page == [Quiet EXCEPT !.native = {}, !.calls = {}, !.rows = 2]

MCSettings ==
    { \* slaves behind one address; the master restarts; two listings
      [Quiet EXCEPT !.forgets = TRUE],
      \* and a host added by hand
      [Quiet EXCEPT !.added = {"b"}, !.calls = {"c1"}],
      \* the name of a machine changes to that of another
      [Quiet EXCEPT !.names = [s1 |-> {"m1"}, s2 |-> {"m2", "m1"}, s3 |-> {"m3"}]],
      \* automatic upgrades and upgrades by hand
      [Quiet EXCEPT !.native = {"s1"}, !.outdated = {"s1"}, !.upgrades = TRUE, !.rows = 1],
      \* of a host whose row is deleted
      [Quiet EXCEPT !.native = {"s1"}, !.outdated = {"s1"}, !.calls = {"c1"}, !.upgrades = TRUE,
         !.rows = 2],
      \* and a host added by hand
      [Quiet EXCEPT !.native = {"s1"}, !.outdated = {"s1"}, !.added = {"b"},
         !.calls = {"c1"}, !.rows = 2, !.does = {}],
      \* passwords
      [Quiet EXCEPT !.native = {}, !.added = {"b"}, !.calls = {}, !.rows = 1,
         !.browsers = {"b1", "b2"}, !.asks = 1],
      \* for an upgrade by hand
      [Quiet EXCEPT !.native = {"s1"}, !.outdated = {"s1"}, !.calls = {"c1"}, !.upgrades = TRUE,
         !.rows = 1, !.browsers = {"b1"}, !.asks = 1, !.does = {}],
      \* a page with the terminal of a host, which is started twice
      [Page EXCEPT !.kept = 1, !.sessions = 2, !.does = {"start"}],
      \* which gets input and is closed
      [Page EXCEPT !.kept = 1, !.sessions = 1, !.does = {"send", "close"}],
      \* while the list of hosts is loaded again
      [Page EXCEPT !.kept = 1, !.sessions = 1, !.does = {"hosts", "close"}],
      \* directories of a host
      [Page EXCEPT !.kept = 1, !.sessions = 0, !.does = {"work"}],
      \* a host that is deleted
      [Page EXCEPT !.kept = 1, !.sessions = 1, !.does = {"delete"}],
      \* two hosts, whose terminals cannot be started
      [Page EXCEPT !.kept = 2, !.sessions = 0, !.does = {}] }
=============================================================================
