------------------------- MODULE MCRequestWorkflow -------------------------
(* Small instances of RequestWorkflow.  The interleavings of four calls are *)
(* explored with one user who may do everything; who may do what is the     *)
(* question of the runs with MCUser.                                        *)
EXTENDS RequestWorkflow

CONSTANTS requester, assigned, admin

MCUser == {requester, assigned, admin}
MCApprover == {assigned}
MCAdministrator == {admin}

MCThreeCalls == 1..3
MCFourCalls == 1..4
=============================================================================
