--------------------------- MODULE MCVoiceAssistant ---------------------------
(***************************************************************************)
(* A ring of four bytes (three in use), packets of one or two, frames of   *)
(* one or two samples in a packet of four, and three events from outside.  *)
(* A behaviour is either one of the tasks or, with the tasks at rest, one  *)
(* of the microphone's filter with samples of four bits.  Another number   *)
(* of DMA buffers than the default comes first and alone, if at all, and   *)
(* one more event follows it.                                              *)
(***************************************************************************)
EXTENDS VoiceAssistant, MicFilter

VARIABLE part

mcVars == <<part, vars, filterVars>>

MCInit == /\ part \in {"tasks", "filter"}
          /\ Init /\ FilterInit
          /\ part = "tasks" => alpha = 0 /\ clip = 0
          /\ part = "filter" => \A s \in Starts : cfg.rate <= s.cfg.rate /\ cfg.chunk <= s.cfg.chunk
                                                  /\ cfg.len <= s.cfg.len

MCNext ==
    \/ /\ part = "tasks" /\ Next /\ UNCHANGED <<part, filterVars>>
       /\ cfg'.bufs \notin {cfg.bufs, DefaultBufs} =>
             events = 0 /\ cfg'.rate = cfg.rate /\ cfg'.chunk = cfg.chunk
       /\ cfg.bufs # DefaultBufs => events' < MaxEvents
    \/ part = "filter" /\ FilterNext /\ UNCHANGED <<part, vars>>

MCSpec == MCInit /\ [][MCNext]_mcVars /\ Fairness

MCLens == {1, 2}
MCRates == {8000, 16000}
MCChunks == {2, 4}
MCBufs == {4, 8}
MCPackets == {1, 2}
MCShifted == -20 .. 20
=============================================================================
