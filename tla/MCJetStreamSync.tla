-------------------------- MODULE MCJetStreamSync --------------------------
(***************************************************************************)
(* Instances of JetStreamSync for TLC.                                     *)
(***************************************************************************)
EXTENDS JetStreamSync

CONSTANTS i1, i2, n1, n2, g1, g2, c1, c2, j1, j2

OneId == {i1}
TwoIds == {i1, i2}
OneName == {n1}
TwoNames == {n1, n2}
TwoConfigs == {g1, g2}
OneClient == {c1}
TwoClients == {c1, c2}
TwoJobs == {j1, j2}

=============================================================================
