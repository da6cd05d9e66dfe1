------------------------ MODULE MCHkCharacteristics ------------------------
(***************************************************************************)
(* Bounds for HkCharacteristics and HkSetup.  The setups are all that two  *)
(* accessories, two services and three characteristics of their own allow, *)
(* with types of more than 8 bits, and the five of hk_fascade.h.  The run  *)
(* time is that of the switch and of the temperature sensor, whose only    *)
(* characteristic has the pointer <<1, 2, 1>>; two controllers, two        *)
(* sockets, and a number that is no boolean among those written.           *)
(***************************************************************************)
EXTENDS HkCharacteristics

CONSTANTS c1, c2, s1, s2

MCStacks == {"ip", "ble"}
MCSrvTypes == {\h49, \h112}
MCChrKinds ==
  {Chr(\h25, {"read", "write", "notify"}), Chr(\h11A, {"read", "notify"}), Chr(\hD4, {"read"})}
MCFacades ==
  {Switch, MotionSensor, TemperatureSensor, SimpleAirQualitySensor, FullAirQualitySensor}
MCHandles == {<<1, 2, 1>>}
MCServed == {<<<<AccessoryInformation, srv>>>> : srv \in {Switch, TemperatureSensor}}
MCCtls == {c1, c2}
MCFds == {s1, s2}
MCValues == {0, 1}
MCNumbers == {0, 1, 2}
MCSymmetry == Permutations(MCCtls) \cup Permutations(MCFds)

=============================================================================
