------------------------------ MODULE SeatLedger ------------------------------
(***************************************************************************)
(* What AsyncSeatBooking (asyncseatbooking/booking.py) promises, without   *)
(* maps and lock: every seat is free or has one booking and its customer,  *)
(* a taken seat stays with them until that booking is cancelled, and no    *)
(* booking has two seats.                                                  *)
(***************************************************************************)
CONSTANTS Bookings, Customers, Seats

VARIABLE holder   (* per seat: <<>>, or its booking and customer           *)

Free == <<>>

Init == holder = [s \in Seats |-> Free]

Holds(b, s) == \E c \in Customers : holder[s] = <<b, c>>

Reserve(b, c, s) ==
  /\ holder[s] = Free /\ \A r \in Seats : ~Holds(b, r)
  /\ holder' = [holder EXCEPT ![s] = <<b, c>>]

Vacate(b, s) == Holds(b, s) /\ holder' = [holder EXCEPT ![s] = Free]

Next ==
  \E b \in Bookings, s \in Seats :
    Vacate(b, s) \/ \E c \in Customers : Reserve(b, c, s)

Spec == Init /\ [][Next]_holder
=============================================================================
