---------------------------- MODULE MCProvision ----------------------------
(***************************************************************************)
(* Provision for TLC: a cluster that can become READY, be updated and      *)
(* fail, and a status this build has no constant for; --timeout not given, *)
(* zero, short and negative; a poll that can outlast the pause.            *)
(***************************************************************************)
EXTENDS Provision

MCClusterStatuses == {"CREATING", "READY", "UPDATING", "FAILED", "HIBERNATING"}
MCFirstStatuses == {"CREATING"}
MCLifecycle == {<<"CREATING", "READY">>, <<"CREATING", "FAILED">>, <<"READY", "UPDATING">>,
                <<"UPDATING", "READY">>, <<"UPDATING", "FAILED">>, <<"READY", "HIBERNATING">>,
                <<"HIBERNATING", "READY">>}
MCTimeouts == {-1, 0, 1}

=============================================================================
