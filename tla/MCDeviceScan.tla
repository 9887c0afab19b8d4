---------------------------- MODULE MCDeviceScan ----------------------------
(* DeviceScan with two device indexes and three kinds of device.            *)
EXTENDS DeviceScan

CONSTANTS Left, Right   \* control IDs, model values

\* The features whose presence the scan depends on.
MCFeatureIds == <<"root", "name_type", "controls_v4">>

AllFeatures == {"root", "name_type", "controls_v4"}

Mouse    == [type |-> "mouse", features |-> AllFeatures, chunks |-> 2,
             buttons |-> <<Left>>]
Keyboard == [type |-> "other", features |-> {"root", "name_type"}, chunks |-> 1,
             buttons |-> <<>>]
\* A mouse that has controls but says that they are none.
Bare     == [Mouse EXCEPT !.chunks = 1, !.buttons = <<>>]

MCKinds     == {Mouse, Keyboard, Bare}
MCButtonIds == {Left, Right}
=============================================================================
