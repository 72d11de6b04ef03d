------------------------------ MODULE MCIpcChat ------------------------------
(* Values for IpcChat: how many lines a and b are given, how many processes *)
(* may be killed and which ones are interrupted from the keyboard.  The     *)
(* queue refuses b's first line; a's second fills str.                      *)
EXTENDS IpcChat
FirstOfB == {<<"b", 1>>}
SecondOfA == {<<"a", 2>>}
Limit(a, b, crashes, interrupts) ==
  [lines |-> [p \in Talkers |-> IF p = "a" THEN a ELSE b], crashes |-> crashes, interrupts |-> interrupts]
Talking == {Limit(0, 3, 0, {}), Limit(2, 0, 0, {}), Limit(1, 1, 0, {}), Limit(1, 0, 1, {}), Limit(0, 1, 1, {})}
Ending == {Limit(0, 0, 1, {"a"}), Limit(0, 0, 0, {"b", "b1"}), Limit(1, 0, 0, {"a1"})}
Mixed == Talking \cup Ending
Short == {Limit(2, 0, 0, {})}
=============================================================================
