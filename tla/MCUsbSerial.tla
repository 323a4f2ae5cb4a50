---------------------------- MODULE MCUsbSerial ----------------------------
(* A device, and either another one beside it or a second native object. *)
EXTENDS UsbSerial
CONSTANTS d1, d2, c1, c2
SomeScenes == {[devices |-> {d1, d2}, wanted |-> {d1}, clients |-> {c1}],
               [devices |-> {d1}, wanted |-> {d1}, clients |-> {c1, c2}]}
=============================================================================
