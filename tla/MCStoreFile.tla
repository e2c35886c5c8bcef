----------------------------- MODULE MCStoreFile -----------------------------
(* Instances: the server's goroutines g1 g2 alone, and with the enroll        *)
(* command c1 beside them.                                                    *)
EXTENDS StoreFile
CONSTANTS server, command, g1, g2, c1
OneProcess   == [t \in Thread |-> server]
ServerAndCli == [t \in Thread |-> IF t = c1 THEN command ELSE server]
=============================================================================
