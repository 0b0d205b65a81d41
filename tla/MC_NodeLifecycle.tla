-------------------------- MODULE MC_NodeLifecycle --------------------------
(* Instances of NodeLifecycle: which calls may fail, and where.            *)
EXTENDS NodeLifecycle

MCBoots == <<"boot1", "boot2", "boot3", "boot4">>

\* every external step may fail, except the routing option; in teardown the
\* Close of any closer may fail
MCFaults ==
  [c \in {"Construct", "SetupOfflineRouting", "Bootstrap", "Close"} |->
     CASE c = "Construct"           -> {"loadID", "blockstore", "privkey", "host",
                                        "ipnsfs", "listen", "bootstrap"}
       [] c = "SetupOfflineRouting" -> {"privkey"}
       [] c = "Bootstrap"           -> {"bootstrap"}
       [] c = "Close"               -> {"bserv", "offline", "repo"} \cup
                                       {MCBoots[i] : i \in 1 .. Len(MCBoots)}]

\* the routing option may fail as well
MCRoutingFaults == [MCFaults EXCEPT !["Construct"] = @ \cup {"routing"}]

MCOffline == {"offline"}
MCOnline == {"online"}
MCBothModes == {"offline", "online"}
=============================================================================
