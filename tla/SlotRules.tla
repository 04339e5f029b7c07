----------------------------- MODULE SlotRules -----------------------------
(***************************************************************************)
(* When a slot is free (booking-availability.ts): the rule the page, the   *)
(* commit check and the check of a reschedule share.                       *)
(***************************************************************************)
EXTENDS Integers

CONSTANTS
    Duration,                   \* durationMinutes
    BufferBefore, BufferAfter   \* bufferBeforeMinutes, bufferAfterMinutes

ASSUME SlotAssumption ==
    Duration \in Nat \ {0} /\ BufferBefore \in Nat /\ BufferAfter \in Nat

Overlaps(aS, aE, bS, bE) == aS < bE /\ bS < aE

\* Mutant of Free: the block ends with the meeting.
FreeWithoutBuffer(s, windows) ==
    \A w \in windows : ~Overlaps(s - BufferBefore, s + Duration, w.start, w.end)

\* The slot and its buffers touch no busy window.
Free(s, windows) ==
    \A w \in windows :
        ~Overlaps(s - BufferBefore, s + Duration + BufferAfter, w.start, w.end)
=============================================================================
