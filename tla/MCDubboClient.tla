---------------------------- MODULE MCDubboClient ----------------------------
(***************************************************************************)
(* Environments and sizes of the TLC runs of DubboClient.                  *)
(***************************************************************************)
EXTENDS DubboClient

\* What may go wrong around the client in a run.
NoFault == {}
EveryFault == AllFaults
ConnectMayFail == {"refuse"}
ReconnectMayFail == {"fin", "timeout", "connfail"}
ServerMayReset == {"reset"}

\* The responses a server of a run gives.
OnlyOk == {"ok"}
Decodable == {"ok", "fail"}
EveryKind == AllKinds \ {"heartbeat"}

=============================================================================
