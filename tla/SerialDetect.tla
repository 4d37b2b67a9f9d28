------------------------------ MODULE SerialDetect ------------------------------
(***************************************************************************)
(* How the PC program finds a serial port nobody named.  A device attached *)
(* is [node, usb]: its device node, <<>> if it has none, and whether the   *)
(* node's name contains usbserial, ttyUSB or ttyACM.                       *)
(***************************************************************************)
EXTENDS Integers, Sequences, FiniteSets

CONSTANTS
  Scratch,      \* devices serial_enumerate_filtered looks at: 64
  MaxMatches    \* devices serial_autodetect has room for: 16

ASSUME DetectAssumption == Scratch \in Nat \ {0} /\ MaxMatches \in Nat \ {0, 1}

Device == [node : Seq(STRING), usb : BOOLEAN]
HasNode(device) == device.node # <<>>
IsUsb(device) == device.usb

\* The places of a list where a device with a node stands, and a USB one.
NodesOf(devices) == {i \in 1 .. Len(devices) : HasNode(devices[i])}
UsbOf(devices) == {i \in 1 .. Len(devices) : IsUsb(devices[i])}

\* The first max of a set of places, for the properties.
FirstOf(places, max) == {i \in places : Cardinality({j \in places : j <= i}) <= max}

\* The loop of each function: the first max of the devices that are wanted.
Kept(devices, wanted, max) ==
  LET kept[i \in 0 .. Len(devices)] ==
        IF i = 0 THEN <<>>
        ELSE IF Len(kept[i - 1]) < max /\ i \in wanted
        THEN Append(kept[i - 1], devices[i]) ELSE kept[i - 1]
  IN  kept[Len(devices)]

\* The devices in the order the system lists them; those without a node do
\* not count.  The two systems are asked differently, the loops are the same.
SerialEnumerateLinux(attached, max) == Kept(attached, NodesOf(attached), max)
SerialEnumerateMacos(attached, max) == Kept(attached, NodesOf(attached), max)

SerialEnumerate(host, attached, max) ==
  IF host = "linux" THEN SerialEnumerateLinux(attached, max)
                    ELSE SerialEnumerateMacos(attached, max)

SerialEnumerateFiltered(host, attached, max) ==
  LET first == SerialEnumerate(host, attached, Scratch)
  IN  Kept(first, UsbOf(first), max)

\* mutant: room for one match, so that a second one is not noticed
SerialAutodetectFirst(host, attached) == SerialEnumerateFiltered(host, attached, 1)

\* What serial_autodetect finds; it returns how many there are.
SerialAutodetect(host, attached) == SerialEnumerateFiltered(host, attached, MaxMatches)
==============================================================================
