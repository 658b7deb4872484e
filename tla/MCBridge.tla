------------------------------ MODULE MCBridge ------------------------------
(* LuceneBridge on a few sends.                                            *)
EXTENDS LuceneBridge
=============================================================================
