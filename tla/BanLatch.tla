------------------------------- MODULE BanLatch -------------------------------
(***************************************************************************)
(* What the backend and the handler promise about the ban of a session:    *)
(* it is decided once and for ever, recorded once, and the handler is told *)
(* the truth, but never before the record is there.                        *)
(***************************************************************************)
EXTENDS Naturals

VARIABLES
    banned,   \* has the session been banned?
    records,  \* the number of its records in the ban list
    told      \* the last answer to the handler

latch_vars == <<banned, records, told>>

LatchInit == ~banned /\ records = 0 /\ told = FALSE

Ban    == ~banned /\ banned' /\ UNCHANGED <<records, told>>
Record == banned /\ records = 0 /\ records' = 1 /\ banned' /\ UNCHANGED told

Answer ==
    /\ told' \in BOOLEAN /\ (told' <=> banned)
    /\ banned => records = 1
    /\ (banned' <=> banned) /\ UNCHANGED records

LatchNext == Ban \/ Record \/ Answer

LatchSpec == LatchInit /\ [][LatchNext]_latch_vars
=============================================================================
