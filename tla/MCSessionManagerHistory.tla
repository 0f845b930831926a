----------------------- MODULE MCSessionManagerHistory -----------------------
(* Small instances of SessionManagerHistory                                 *)
EXTENDS SessionManagerHistory, MCSessionManager
=============================================================================
