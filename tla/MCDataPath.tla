------------------------------ MODULE MCDataPath ------------------------------
(***************************************************************************)
(* The parts that work on data, for TLC: a pipeline's view                 *)
(* (ViewMaintenance), a change feed and its windowed aggregate             *)
(* (WindowedFeed), the SQL endpoint (SqlEndpoint), and the schema registry *)
(* (SchemaRegistry).  They share operators but no state: in every          *)
(* behaviour one of them runs, and the others stay in one initial state.   *)
(***************************************************************************)
EXTENDS MCViewMaintenance, MCWindowedFeed, MCSqlEndpoint, SchemaRegistry

VARIABLE part       \* the part that runs

pathVars == <<part, vars, windowedVars, response, registryVars>>

MCSchemas == {<<"id", "name">>, <<"name", "id">>, <<"name">>}

DataPathInit ==
    /\ part \in {"view", "feed", "endpoint", "registry"}
    /\ Init /\ WindowedInit /\ EndpointInit /\ RegistryInit
    /\ part # "view" => config = JoinOnly
    /\ part # "feed" => feed = CHOOSE f \in Feeds : TRUE
    /\ part # "registry" => versions = <<<<"name">>>>

DataPathNext ==
    \/ /\ part = "view" /\ Next
       /\ UNCHANGED <<part, windowedVars, response, registryVars>>
    \/ /\ part = "feed" /\ WindowedNext
       /\ UNCHANGED <<part, vars, response, registryVars>>
    \/ /\ part = "endpoint" /\ EndpointNext
       /\ UNCHANGED <<part, vars, windowedVars, registryVars>>
    \/ /\ part = "registry" /\ RegistryNext
       /\ UNCHANGED <<part, vars, windowedVars, response>>

DataPathSpec == DataPathInit /\ [][DataPathNext]_pathVars
=============================================================================
