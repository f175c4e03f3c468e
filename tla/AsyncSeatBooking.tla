--------------------------- MODULE AsyncSeatBooking ---------------------------
(***************************************************************************)
(* AsyncSeatBooking of asyncseatbooking/booking.py: two maps, from booking *)
(* ids to bookings and from seats to booking ids, kept in step.  No code   *)
(* under the asyncio.Lock awaits, so each method runs without suspending   *)
(* and is one action.  Refused calls change nothing, and an id whose       *)
(* booking was cancelled may be booked again.                              *)
(***************************************************************************)
CONSTANTS
  Bookings,    (* booking ids                                              *)
  Customers,   (* customer ids                                             *)
  Seats        (* _seat_ids                                                *)

Nothing == "none"

ASSUME BookingAssumption == Nothing \notin Bookings \cup Customers \cup Seats

VARIABLES
  seatOf,      (* _bookings_by_id: seat_id of each booking, or Nothing     *)
  customerOf,  (* _bookings_by_id: customer_id of each booking             *)
  ownerOf      (* _booking_ids_by_seat                                     *)

vars == <<seatOf, customerOf, ownerOf>>

Init ==
  /\ seatOf = [b \in Bookings |-> Nothing]
  /\ customerOf = [b \in Bookings |-> Nothing]
  /\ ownerOf = [s \in Seats |-> Nothing]

-----------------------------------------------------------------------------
BookAnySeat(b, c, s) ==   \* mutant: only the booking id is tested
  /\ seatOf[b] = Nothing
  /\ seatOf' = [seatOf EXCEPT ![b] = s]
  /\ customerOf' = [customerOf EXCEPT ![b] = c]
  /\ ownerOf' = [ownerOf EXCEPT ![s] = b]

Book(b, c, s) ==
  /\ seatOf[b] = Nothing /\ ownerOf[s] = Nothing
  /\ seatOf' = [seatOf EXCEPT ![b] = s]
  /\ customerOf' = [customerOf EXCEPT ![b] = c]
  /\ ownerOf' = [ownerOf EXCEPT ![s] = b]

CancelKeepingSeat(b) ==   \* mutant: the entry of the seat is not deleted
  /\ seatOf[b] # Nothing
  /\ seatOf' = [seatOf EXCEPT ![b] = Nothing]
  /\ customerOf' = [customerOf EXCEPT ![b] = Nothing]
  /\ UNCHANGED ownerOf

Cancel(b) ==
  /\ seatOf[b] # Nothing
  /\ seatOf' = [seatOf EXCEPT ![b] = Nothing]
  /\ customerOf' = [customerOf EXCEPT ![b] = Nothing]
  /\ ownerOf' = [ownerOf EXCEPT ![seatOf[b]] = Nothing]

(* booking_for_seat: the booking of a seat and its customer.               *)
BookingForSeat(s) ==
  IF ownerOf[s] = Nothing THEN <<>> ELSE <<ownerOf[s], customerOf[ownerOf[s]]>>

Next ==
  \E b \in Bookings :
    Cancel(b) \/ \E c \in Customers, s \in Seats : Book(b, c, s)

Spec == Init /\ [][Next]_vars

-----------------------------------------------------------------------------
TypeOK ==
  /\ seatOf \in [Bookings -> Seats \cup {Nothing}]
  /\ customerOf \in [Bookings -> Customers \cup {Nothing}]
  /\ ownerOf \in [Seats -> Bookings \cup {Nothing}]

(* The two maps are inverse to each other, so booking_for_seat never looks *)
(* up an id that is gone, and cancel never deletes the entry of a seat     *)
(* that is another booking's (booking:66-78, 86-91).                       *)
MapsAreInverse ==
  /\ \A b \in Bookings, s \in Seats : seatOf[b] = s <=> ownerOf[s] = b
  /\ \A b \in Bookings : seatOf[b] = Nothing <=> customerOf[b] = Nothing

(* What booking_for_seat answers follows SeatLedger: no seat changes hands *)
(* but through a cancellation (booking:35-37).                             *)
Ledger == INSTANCE SeatLedger WITH holder <- [s \in Seats |-> BookingForSeat(s)]

ImplementsLedger == Ledger!Spec
=============================================================================
