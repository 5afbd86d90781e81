---------------------------- MODULE MCServerConn ----------------------------
(* Small instances of ServerConn for TLC. *)
EXTENDS ServerConn

\* A greeting, one authentication message and the request.
UserPassKinds == <<"greeting", "auth", "request">>
UserPassEnds == <<1, 3, 4>>

\* An authenticator of two messages.
TwoAuthKinds == <<"greeting", "auth", "auth", "request">>
TwoAuthEnds == <<1, 3, 5, 6>>

Eager == {[pipelined |-> TRUE, faults |-> TRUE]}
Patient == {[pipelined |-> FALSE, faults |-> FALSE]}
Either == Eager \cup Patient
PatientFaulty == {[pipelined |-> FALSE, faults |-> TRUE]}

=============================================================================
