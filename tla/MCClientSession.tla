-------------------------- MODULE MCClientSession --------------------------
(* Two sessions of pkg/attach in one process, or the one session of sbsh.  *)
EXTENDS ClientSession
MCPlans == {<<"attach", "attach">>, <<"new">>}
=============================================================================
