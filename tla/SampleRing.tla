----------------------------- MODULE SampleRing -----------------------------
(* The ring of rendered samples in gb_audio.c: the emulation renders into    *)
(* it, the host's pump (gb_audio_sdl3_pump) takes a batch out for SDL. A     *)
(* sample is the pair of filtered values of render_sample; Capacity is       *)
(* GB_AUDIO_RING_FRAMES.                                                     *)
EXTENDS Integers, Sequences

CONSTANTS
    Capacity,
    Batches,      \* numbers of frames the pump may ask for
    Samples,
    Silence,      \* content of a slot after a reset
    MaxDropped    \* bound on dropped_frames

ASSUME RingAssumption ==
    /\ Capacity \in Nat /\ Capacity > 0
    /\ Batches \subseteq Nat
    /\ MaxDropped \in Nat

VARIABLES ring, ring_read, ring_write, ring_count, dropped_frames

ringVars == <<ring, ring_read, ring_write, ring_count, dropped_frames>>

Slots == 0 .. Capacity - 1

RingInit ==
    /\ ring = [i \in Slots |-> Silence]
    /\ ring_read = 0 /\ ring_write = 0 /\ ring_count = 0 /\ dropped_frames = 0

\* (i + n) % Capacity, for a slot i and up to Capacity steps.
Ahead(i, n) == IF i + n < Capacity THEN i + n ELSE i + n - Capacity

Full == ring_count = Capacity

\* Mutant: a full ring is overwritten without moving the read position.
RenderKeepsRead(s) ==
    /\ ring' = [ring EXCEPT ![ring_write] = s]
    /\ ring_write' = Ahead(ring_write, 1)
    /\ ring_count' = IF Full THEN ring_count ELSE ring_count + 1
    /\ dropped_frames' = IF Full THEN dropped_frames + 1 ELSE dropped_frames
    /\ dropped_frames' <= MaxDropped
    /\ UNCHANGED ring_read

\* The end of render_sample: a full ring drops its oldest sample.
Render(s) ==
    /\ ring' = [ring EXCEPT ![ring_write] = s]
    /\ ring_write' = Ahead(ring_write, 1)
    /\ ring_count' = IF Full THEN ring_count ELSE ring_count + 1
    /\ ring_read' = IF Full THEN Ahead(ring_read, 1) ELSE ring_read
    /\ dropped_frames' = IF Full THEN dropped_frames + 1 ELSE dropped_frames
    /\ dropped_frames' <= MaxDropped

\* gb_audio_read_samples copies up to max_frames samples from ring_read on.
\* What SDL refuses afterwards is lost: the samples have left the ring.
ReadSamples(max_frames) ==
    LET count == IF ring_count < max_frames THEN ring_count ELSE max_frames IN
    /\ ring_read' = Ahead(ring_read, count)
    /\ ring_count' = ring_count - count
    /\ UNCHANGED <<ring, ring_write, dropped_frames>>

ResetRing ==
    /\ ring' = [i \in Slots |-> Silence]
    /\ ring_read' = 0 /\ ring_write' = 0 /\ ring_count' = 0 /\ dropped_frames' = 0

RingNext ==
    \/ \E s \in Samples : Render(s)
    \/ \E n \in Batches : ReadSamples(n)
    \/ ResetRing

RingSpec == RingInit /\ [][RingNext]_ringVars

-----------------------------------------------------------------------------
(* Both positions stay inside the ring and the count within its capacity.    *)
RingTypeOK ==
    /\ ring \in [Slots -> Samples \cup {Silence}]
    /\ ring_read \in Slots /\ ring_write \in Slots
    /\ ring_count \in 0 .. Capacity
    /\ dropped_frames \in 0 .. MaxDropped

\* The samples queued, oldest first.
View(slots, first, count) == [i \in 1 .. count |-> slots[Ahead(first, i - 1)]]

Queued == View(ring, ring_read, ring_count)

Queue == INSTANCE DropOldest WITH queue <- Queued, dropped <- dropped_frames

(* Across wrap-around, overflow, partial reads and resets the ring is a      *)
(* queue in order of production that loses nothing but its oldest sample,    *)
(* one for each sample that finds it full (render_sample,                    *)
(* gb_audio_read_samples).                                                   *)
IsDropOldest == Queue!Spec
=============================================================================
