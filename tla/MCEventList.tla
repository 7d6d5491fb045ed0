----------------------------- MODULE MCEventList -----------------------------
(***************************************************************************)
(* EventList for TLC.                                                       *)
(***************************************************************************)
EXTENDS EventList

Recorded(op, n, t) == [op |-> op, note |-> n, ts |-> t, sel |-> 0, link |-> None]

(* a note; two notes of one pitch, one directly behind the other *)
CleanTakes ==
  {<<Recorded("on", 0, 0), Recorded("off", 0, 1)>>,
   <<Recorded("on", 0, 0), Recorded("off", 0, 1), Recorded("on", 0, 1), Recorded("off", 0, 2)>>}

(* a recording that begins or ends while a key is down *)
RawTakes ==
  {<<Recorded("on", 0, 1)>>, <<Recorded("off", 0, 1)>>,
   <<Recorded("off", 0, 0), Recorded("on", 0, 1), Recorded("on", 0, 2)>>}
=============================================================================
