------------------------------ MODULE ByteQueue ------------------------------
(***************************************************************************)
(* What a network::Buffer promises its users: a sequence of bytes that is   *)
(* put at the end, taken from the front, and now and then unwritten at the  *)
(* end or prepended to the front.  io is the last call and its bytes, those *)
(* passed in or those given out; the contents change by exactly these.      *)
(***************************************************************************)
EXTENDS Sequences

VARIABLES content, io

vars == <<content, io>>

Init == content = <<>> /\ io = [op |-> "new", data |-> <<>>]

Put     == io'.op = "put"     /\ content' = content \o io'.data
Take    == io'.op = "take"    /\ content  = io'.data \o content'
Unwrite == io'.op = "unwrite" /\ content  = content' \o io'.data
Prepend == io'.op = "prepend" /\ content' = io'.data \o content

Next == Put \/ Take \/ Unwrite \/ Prepend

Spec == Init /\ [][Next]_vars
==============================================================================
