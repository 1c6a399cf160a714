----------------------------- MODULE MCLaneQueue -----------------------------
(* A few entries on each lane for LaneQueue. *)
EXTENDS LaneQueue

CONSTANTS OTPs, Transactionals, Marketings

MCMsgs == OTPs \cup Transactionals \cup Marketings
MCLaneOf == [m \in Msgs |->
    CASE m \in OTPs -> "otp" [] m \in Transactionals -> "transactional" [] OTHER -> "marketing"]
=============================================================================
