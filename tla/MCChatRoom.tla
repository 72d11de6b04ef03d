----------------------------- MODULE MCChatRoom ------------------------------
(* Model values for ChatRoom.                                               *)
EXTENDS ChatRoom, TLC

CONSTANTS c1, c2, c3

ThreeClients == {c1, c2, c3}

Evening(says, bufLen, sockBuf) == [says |-> says, bufLen |-> bufLen, sockBuf |-> sockBuf]

OneEach == {Evening(c1 :> 1 @@ c2 :> 1 @@ c3 :> 1, 2, 3)}

\* Three clients of whom two talk, and two who talk more than the buffers hold.
Company == Evening(c1 :> 1 @@ c2 :> 1 @@ c3 :> 0, 2, 3)
Dialogue == Evening(c1 :> 2 @@ c2 :> 3, 1, 2)
Talks == {Company, Dialogue}
=============================================================================
