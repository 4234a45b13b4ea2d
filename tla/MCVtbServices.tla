---------------------------- MODULE MCVtbServices ----------------------------
(* The Logger or the ConfigManager of vtb, which share nothing: one of them  *)
(* is used in each behaviour, the other stays where it begins.               *)
EXTENDS Logger, ConfigManager
VARIABLE service

ServicesInit ==
    /\ service \in {"logger", "config"}
    /\ Init /\ CfgInit
    /\ service = "logger" => argv = <<>>
ServicesNext ==
    /\ UNCHANGED service
    /\ \/ service = "logger" /\ Next    /\ UNCHANGED cfgVars
       \/ service = "config" /\ CfgNext /\ UNCHANGED vars
ServicesSpec ==
    /\ ServicesInit /\ [][ServicesNext]_<<service, vars, cfgVars>>
    /\ WF_vars(Flusher) /\ WF_vars(Join)
=============================================================================
