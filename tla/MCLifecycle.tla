---------------------------- MODULE MCLifecycle ----------------------------
EXTENDS Lifecycle

VARIABLE about      \* bound: of the configuration, the statistics and the
                    \* downloads only one changes; the sessions are common

MCInit ==
  /\ Init /\ about \in {"configuration", "statistics", "downloads"}
  /\ about # "downloads" =>
       /\ plugin_file = "new" /\ one_volume
       /\ \A f \in Fonts : fonts[f] = "whole"
  /\ about # "configuration" => main_file = None

MCNext ==
  /\ \/ Sessions
     \/ about = "configuration" /\ Configures
     \/ about = "statistics" /\ CountsTime
     \/ about = "downloads" /\ Fetches
  /\ UNCHANGED about

MCSpec == MCInit /\ [][MCNext]_<<vars, about>>
=============================================================================
