-------------------------- MODULE MCReceiverLifecycle --------------------------
(* ReceiverLifecycle with two device indexes, whose devices share no button.     *)
EXTENDS ReceiverLifecycle

TwoMice == <<{"left", "other", "right"}, {"back"}>>

LeftAndBack == {{"left", "back"}}
===============================================================================
