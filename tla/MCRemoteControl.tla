-------------------------- MODULE MCRemoteControl --------------------------
(***************************************************************************)
(* Instances of RemoteControl for TLC: two retries at most may be pending  *)
(* at one time.                                                            *)
(***************************************************************************)
EXTENDS RemoteControl

CONSTANTS t1, t2

MCRetryTimers == {t1, t2}
=============================================================================
