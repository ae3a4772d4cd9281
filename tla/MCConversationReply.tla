------------------------ MODULE MCConversationReply ------------------------
(***************************************************************************)
(* Instances of ConversationReply for TLC.                                 *)
(***************************************************************************)
EXTENDS ConversationReply, TLC

CONSTANTS r1, r2, api1, api2

OneApi == [r \in Requests |-> api1]
\* Every kind of event, and replies that call no tool.
AllYields == Kinds
Talk == {"delta", "completed", "failed", "stopped"}

Interchangeable == Permutations(Requests)

TwoApis == r1 :> api1 @@ r2 :> api2
=============================================================================
