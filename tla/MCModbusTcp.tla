---------------------------- MODULE MCModbusTcp -----------------------------
(* ModbusTcp with a calm master, one of any kind, a request to the unit    *)
(* and one to a sensor.                                                    *)
EXTENDS ModbusTcp

MCAsk == {[unit |-> Own, reg |-> Viconox, bytes |-> 80],
          [unit |-> "sensor", reg |-> 1, bytes |-> 4]}
=============================================================================
