------------------------------ MODULE MCAdmin ------------------------------
(***************************************************************************)
(* Two tree files, the admin and the one who is to become admin.           *)
(***************************************************************************)
EXTENDS AdminCommands, TLC

CONSTANTS v1, v2, deployer, keeper, treasury, reserve

Account ==
    [admin |-> deployer, clawback_receiver |-> treasury, enable_slot |-> 0,
     clawed_back |-> FALSE, closable |-> TRUE, open |-> TRUE]

MCDirectory == <<v1, v2>>
MCDeployed == [v \in {v1, v2} |-> Account]
MCOperators == {deployer, keeper}
MCKey == [o \in MCOperators |-> o]

Ready(skip) ==
    [closable |-> TRUE, admin |-> deployer, enable_slot |-> 5,
     clawback_receiver |-> treasury, skip_verify_amount |-> skip]

MCCommands ==
    deployer :>
        { process_set_admin(keeper), process_set_clawback_receiver(reserve),
          process_set_enable_slot(5, None), process_set_enable_slot(7, v1),
          process_close_distributor(None), process_close_distributor(v2),
          process_set_enable_slot_by_time(2, None),
          process_set_enable_slot_by_time(0, v2) }
    @@ keeper :>
        { process_clawback, process_set_enable_slot(5, None),
          process_verify(Ready(FALSE)), process_verify(Ready(TRUE)) }

Sample(secs, slots) == [sample_period_secs |-> secs, num_slots |-> slots]

\* None, a usual one, one out of the sane range, and one with no slots.
MCSamples ==
    { <<>>, <<Sample(60, 120), Sample(60, 150)>>, <<Sample(60, 30)>>, <<Sample(60, 0)>> }
=============================================================================
