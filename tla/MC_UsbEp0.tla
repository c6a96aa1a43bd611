------------------------------ MODULE MC_UsbEp0 ------------------------------
(* EP0 with a packet size of 2 and 4 IN descriptors (IN_BUF_SIZE 8), so    *)
(* that the device descriptor needs a short packet, a string descriptor    *)
(* ends on a full packet and the configuration blob exceeds IN_BUF_SIZE,   *)
(* as 18, 64 and > 256 bytes do with 64-byte packets.                      *)
EXTENDS UsbEp0

MC_DescLen == [DEVICE |-> 3, CONFIGURATION |-> 9, STRING0 |-> 4]

Req(k, in, b, d, v, len) ==
    [kind |-> k, dirIn |-> in, bRequest |-> b, desc |-> d, wValue |-> v,
     wIndex |-> 0, wLength |-> len]

GetDevice == Req("std", TRUE, "GET_DESCRIPTOR", "DEVICE", 0, 4)
GetConfig == Req("std", TRUE, "GET_DESCRIPTOR", "CONFIGURATION", 0, 9)
GetString == Req("std", TRUE, "GET_DESCRIPTOR", "STRING0", 0, 7)
SetAddress == Req("std", FALSE, "SET_ADDRESS", "none", 1, 0)

MC_Requests == {GetDevice, GetConfig, GetString, SetAddress}
====
