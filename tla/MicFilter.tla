------------------------------- MODULE MicFilter -------------------------------
(***************************************************************************)
(* The sample path of the voice assistant's microphone (process_mic in     *)
(* voice_assistant.ino): shift, clip, and the DC-blocking filter           *)
(*     y[n] = a * (y[n-1] + x[n] - x[n-1])                                 *)
(* in fixed point.  Full is 2^15, so samples are -Full .. Full - 1 and the *)
(* coefficient a is alpha / Full.  The sum of the two products is formed   *)
(* in a signed word of Word values on each side, where it must not wrap.   *)
(***************************************************************************)
EXTENDS Integers

CONSTANTS
    \* @type: Int; 2^15 in the code, a power of two
    Full,
    \* @type: Set(Int); what the microphone's word is after the gain shift
    Shifted

ASSUME FilterAssumption == Full \in Nat /\ Full >= 1 /\ Shifted \subseteq Int

VARIABLES
    hpfIn,      \* g_hpf_in: the last clipped sample
    hpfOut,     \* g_hpf_out: the last output
    alpha,      \* g_hpf_alpha
    clip        \* g_clip_limit

filterVars == <<hpfIn, hpfOut, alpha, clip>>

\* Twice Full squared is the range of the 32-bit word: 2^31 = 2 * (2^15)^2.
Word == 2 * Full * Full

Samples == -Full .. Full - 1

FilterInit == hpfIn = 0 /\ hpfOut = 0 /\ alpha \in 0 .. Full - 1 /\ clip \in 0 .. Full - 1

Between(v, low, high) == IF v > high THEN high ELSE IF v < low THEN low ELSE v

\* Mutated form of Clipped: the samples below zero are not limited.
ClippedAbove(v) == IF v > clip THEN clip ELSE v

Clipped(v) == Between(v, -clip, clip)

\* What is summed before the shift, as an exact integer.
Sum(s) == hpfOut * alpha + (s - hpfIn) * alpha

\* >> rounds down, as \div does; the result is limited to sixteen bits.
Filtered(s) == Between(Sum(s) \div Full, -Full, Full - 1)

\* One microphone word goes through.
Sample == \E v \in Shifted :
    /\ hpfIn' = Clipped(v)
    /\ hpfOut' = Filtered(Clipped(v))
    /\ UNCHANGED <<alpha, clip>>

\* CMD:HPF_ALPHA, CMD:CLIP and /api/config change the settings between two
\* samples.  (The code also requires clip to be 1000 or more.)
Adjust ==
    /\ alpha' \in 0 .. Full - 1
    /\ clip' \in 0 .. Full - 1
    /\ UNCHANGED <<hpfIn, hpfOut>>

FilterNext == Sample \/ Adjust

FilterSpec == FilterInit /\ [][FilterNext]_filterVars

(***************************************************************************)
(* Properties                                                              *)
(***************************************************************************)

\* The filter's memory is made of samples and its settings of accepted values.
FilterTypeOK ==
    /\ hpfIn \in Samples
    /\ hpfOut \in Samples
    /\ alpha \in 0 .. Full - 1
    /\ clip \in 0 .. Full - 1

\* However the settings are changed while sound comes in, the sum of the next
\* sample fits in the signed word: process_mic has no overflow, although each of
\* its two products may fill more than half of the word.
NoOverflow == \A v \in Shifted : Sum(Clipped(v)) \in -Word .. Word - 1

\* Why: the output never strays from the input by more than a full sample.
OutputNearInput == hpfOut - hpfIn \in -Full .. Full

=============================================================================
