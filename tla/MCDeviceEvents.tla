--------------------------- MODULE MCDeviceEvents ---------------------------
(* An input among outputs: its callback drives an output that check_devs    *)
(* has visited in this scan and one that comes next.                        *)
EXTENDS DeviceEvents

CONSTANTS button, led, lamp

TwoDevs   == <<led, button>>
ThreeDevs == <<led, button, lamp>>
OnePin    == {button}
=============================================================================
