---- MODULE MCInputDevices ----
(* Three nodes; the kinds of device a phone has, one with each trap. *)
EXTENDS InputDevices

Dev(abs, mt, btn, direct, touchName, keys, powerName, hints) ==
  [abs |-> abs, mt |-> mt, btn |-> btn, direct |-> direct, touchName |-> touchName,
   keys |-> keys, powerName |-> powerName, hints |-> hints]

MCKinds == {
  \* a touchscreen that can wake the phone with a gesture
  Dev(TRUE, TRUE, TRUE, TRUE, 6, {"touch", "wakeup"}, FALSE, 0),
  \* an unnamed one with multi-touch coordinates only
  Dev(FALSE, TRUE, FALSE, FALSE, 0, {}, FALSE, 0),
  \* a PMIC power key, gpio-keys for the volume, a remote with a sleep key
  Dev(FALSE, FALSE, FALSE, FALSE, -8, {"power"}, TRUE, 0),
  Dev(FALSE, FALSE, FALSE, FALSE, -8, {"volume", "wakeup"}, TRUE, 0),
  Dev(TRUE, FALSE, FALSE, FALSE, 0, {"sleep"}, FALSE, 1)}
====
