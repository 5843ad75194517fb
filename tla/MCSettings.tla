---------------------------- MODULE MCSettings ----------------------------
(* A small board for Settings: relay time in half seconds, price in pesos. *)
EXTENDS Settings

Factory == [mode |-> 0, sensor |-> FALSE, relay |-> 4, price |-> 1, other |-> 0,
            beep |-> 0, polarity |-> TRUE]

(* A phone writes an odd relay time, the auto-start mode and the other     *)
(* polarity, or a frame outside the contract.                              *)
Phone == {[Factory EXCEPT !.mode = 2, !.sensor = TRUE, !.relay = 3, !.price = 2,
                          !.polarity = FALSE],
          [Factory EXCEPT !.relay = 1]}

(* A technician calibrates, and shortens the relay time, once too far.     *)
Console == {[field |-> "polarity", value |-> FALSE],
            [field |-> "relay", value |-> 1], [field |-> "relay", value |-> 0]}

NoPhone == {}

=============================================================================
