---------------------------- MODULE MCEnergyHistory ----------------------------
(* Three windows, as the temperature page has: two days, a week and a month  *)
(* stand for 3, 8 and 30 units of time.                                      *)
EXTENDS EnergyHistory

ThreeWindows == <<3, 8, 30>>
=============================================================================
