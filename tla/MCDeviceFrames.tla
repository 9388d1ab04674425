---------------------------- MODULE MCDeviceFrames ----------------------------
(* DeviceFrames with frames so short that a text of 120 characters takes one,
   two and three digits of a count, and some take more than any header leaves. *)
EXTENDS DeviceFrames

MCRunLengths == {1, 3}
MCNumbers    == {0, 9, 10}
MCLengths    == 1..120
=============================================================================
