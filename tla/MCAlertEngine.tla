---------------------------- MODULE MCAlertEngine ----------------------------
(***************************************************************************)
(* Values for TLC's instances of AlertEngine: what listings can say, and   *)
(* small sets of rules.                                                    *)
(***************************************************************************)
EXTENDS AlertEngine

Info(s, h) == [state |-> s, health |-> h]

\* docker/models.go:53-67
MCContainerInfos == {Info("running", "running"), Info("exited", "stopped")}
\* systemd/models.go:26-35
MCServiceInfos == {Info("active", "active"), Info("failed", "failed")}

MCRuleForms == {[cond |-> "cpu", cooldown |-> 2]}
MCDefaults == <<[cond |-> "cpu", cooldown |-> 1]>>
MCTwoDefaults == <<[cond |-> "cpu", cooldown |-> 2], [cond |-> "ram", cooldown |-> 1]>>
MCNoDefaults == <<>>
=============================================================================
