---------------------------- MODULE VoiceAssistant ----------------------------
(***************************************************************************)
(* The ESP32-S3 voice assistant (voice_assistant.ino): three tasks that    *)
(* share the audio drivers, the frame buffers and a playback ring.         *)
(*   task_capture (core 1)  plays what is in the ring, reads the           *)
(*       microphone and sends it in packets;                               *)
(*   task_ws (core 0)       runs the WebSocket's events and the serial     *)
(*       commands;                                                         *)
(*   task_config (core 0)   polls /api/config and reopens the drivers      *)
(*       when the rate or the length of the DMA buffers has changed.       *)
(* The ring is counted in bytes, each named by its place in the stream of  *)
(* all bytes pushed; the microphone in samples.                            *)
(***************************************************************************)
EXTENDS Integers, Sequences

CONSTANTS
    RingBytes,      \* PLAY_RING_BYTES: one cell stays free
    PopMax,         \* sizeof(play_buf)
    DrainLimit,     \* 8 empty reads in a row
    PktMax,         \* 3200 bytes, in samples
    DmaLens,        \* the accepted dma_len, in samples
    Rates,
    ChunkSizes,     \* the accepted chunk_size, in samples
    BufCounts,      \* dma_bufs the drivers accept
    DefaultBufs,    \* g_dma_bufs as compiled
    Packets,        \* lengths of the server's audio messages
    AllocFails,     \* the heap may run out at reinit
    Down,           \* a driver that is not installed
    MaxEvents       \* bound: events from outside

ASSUME VoiceAssumption ==
    /\ RingBytes \in Nat \ {0, 1} /\ PopMax \in Nat \ {0} /\ DrainLimit \in Nat \ {0}
    /\ PktMax \in Nat \ {0}
    /\ DmaLens \subseteq 1 .. PktMax /\ DmaLens # {}
    /\ ChunkSizes \subseteq 1 .. PktMax /\ ChunkSizes # {}
    /\ Rates # {} /\ DefaultBufs \in BufCounts /\ Packets \subseteq 1 .. RingBytes - 1
    /\ Down \notin [rate : Rates, len : DmaLens, bufs : BufCounts]
    /\ AllocFails \in BOOLEAN /\ MaxEvents \in Nat

Setters == {"ws", "config"}

VARIABLES
    cfg,        \* g_sample_rate, g_dma_len, g_dma_bufs, g_chunk_bytes, g_karaoke, g_wsloop
    need,       \* g_need_reinit
    audio,      \* g_i2s_running, the frame buffers, the installed drivers
    cfgPc,      \* where task_config is
    setter,     \* per task: a change of settings under way
    ws,         \* g_ws_up, where task_ws is, the length of the message in hand
    wsMutex,    \* g_ws_mtx
    ringMutex,  \* g_ring_mtx
    ring,       \* g_ring, g_ring_rd, g_ring_wr
    stream,     \* bytes pushed since the start; the last byte taken out; the last one
                \* that was taken out or cleared
    playing,    \* g_playing
    cap,        \* task_capture: its place, s_drain_count, the frame in hand
    pkt,        \* pkt_len, and how many of these were never microphone samples
    events      \* events so far

vars == <<cfg, need, audio, cfgPc, setter, ws, wsMutex, ringMutex, ring, stream,
          playing, cap, pkt, events>>

configVars == <<cfgPc, audio>>
ringVars == <<ring, stream, ringMutex>>
captureVars == <<cap, pkt>>

\* i2s_driver_install with the settings of this moment.
Driver(len) == [rate |-> cfg.rate, len |-> len, bufs |-> cfg.bufs]

\* setup() opens the drivers with the default settings and starts the tasks.
Fresh(driver, chunk) ==
    [cfg |-> [rate |-> driver.rate, len |-> driver.len, bufs |-> driver.bufs, chunk |-> chunk,
              karaoke |-> FALSE, loop |-> FALSE],
     audio |-> [running |-> TRUE, buffers |-> driver.len, mic |-> driver, spk |-> driver],
     setter |-> [a \in Setters |-> [pc |-> "none", reinit |-> FALSE]],
     ws |-> [up |-> FALSE, pc |-> "loop", n |-> 0],
     ring |-> [cells |-> [i \in 0 .. RingBytes - 1 |-> 0], rd |-> 0, wr |-> 0],
     cap |-> [pc |-> "top", drain |-> 0, len |-> 0, n |-> 0]]

Opened == [rate : Rates, len : DmaLens, bufs : BufCounts]

Starts == {Fresh(d, c) : d \in {o \in Opened : o.bufs = DefaultBufs}, c \in ChunkSizes}

Init == \E f \in Starts :
    /\ cfg = f.cfg /\ need = FALSE /\ audio = f.audio /\ cfgPc = "idle" /\ setter = f.setter
    /\ ws = f.ws /\ wsMutex = "none" /\ ringMutex = "none" /\ ring = f.ring
    /\ stream = [pushed |-> 0, taken |-> 0, gone |-> 0] /\ playing = FALSE
    /\ cap = f.cap /\ pkt = [len |-> 0, stale |-> 0]
    /\ events = 0

Event == events < MaxEvents /\ events' = events + 1

(***************************************************************************)
(* The ring                                                                *)
(***************************************************************************)

Used(r) == IF r.wr >= r.rd THEN r.wr - r.rd ELSE RingBytes - r.rd + r.wr

Advance(at, n) == (at + n) % RingBytes

Room(r) == RingBytes - Used(r) - 1

\* The n bytes that follow `from` in the stream are copied in at wr, round the
\* end; what does not fit pushes out the oldest.
Pushed(r, n, from) ==
    [cells |-> [i \in 0 .. RingBytes - 1 |->
                   LET k == (i - r.wr) % RingBytes IN IF k < n THEN from + k + 1 ELSE r.cells[i]],
     rd    |-> IF n > Room(r) THEN Advance(r.rd, n - Room(r)) ELSE r.rd,
     wr    |-> Advance(r.wr, n)]

Popped(r) == IF Used(r) < PopMax THEN Used(r) ELSE PopMax

\* What ring_pop would hand out, in order.
Content(r) == [i \in 1 .. Used(r) |-> r.cells[Advance(r.rd, i - 1)]]

(***************************************************************************)
(* Settings: written one by one, the request to reopen the drivers last    *)
(***************************************************************************)

WsIdle == ws.pc = "loop" /\ setter["ws"].pc = "none"

\* /api/config is fetched by the poll or, on RECONFIG, by task_ws. A new number of
\* DMA buffers is taken down, but does not ask for the drivers to be reopened.
FetchConfig(a) ==
    /\ Event
    /\ setter[a].pc = "none"
    /\ IF a = "ws" THEN WsIdle ELSE cfgPc = "idle"
    /\ \E r \in Rates, b \in BufCounts, c \in ChunkSizes :
        /\ cfg' = [cfg EXCEPT !.rate = r, !.bufs = b, !.chunk = c]
        /\ setter' = [setter EXCEPT ![a] = [pc |-> "len", reinit |-> r # cfg.rate]]
    /\ UNCHANGED <<need, ws, wsMutex, playing, configVars, ringVars, captureVars>>

FetchLen(a) ==
    /\ setter[a].pc = "len"
    /\ \E l \in DmaLens :
        LET reinit == setter[a].reinit \/ l # cfg.len
        IN  /\ cfg' = [cfg EXCEPT !.len = l]
            /\ setter' = [setter EXCEPT ![a] = [pc |-> IF reinit THEN "flag" ELSE "none",
                                                reinit |-> reinit]]
    /\ UNCHANGED <<need, ws, wsMutex, playing, events, configVars, ringVars, captureVars>>

SetNeed(a) ==
    /\ setter[a].pc = "flag"
    /\ need' = TRUE
    /\ setter' = [setter EXCEPT ![a] = [pc |-> "none", reinit |-> FALSE]]
    /\ UNCHANGED <<cfg, ws, wsMutex, playing, events, configVars, ringVars, captureVars>>

(***************************************************************************)
(* task_ws                                                                 *)
(***************************************************************************)

\* CMD:SAMPLE_RATE and CMD:DMA_LEN ask for a reinit even when nothing changes.
Command ==
    /\ Event /\ WsIdle /\ ws.up
    /\ \/ \E r \in Rates : cfg' = [cfg EXCEPT !.rate = r]
       \/ \E l \in DmaLens : cfg' = [cfg EXCEPT !.len = l]
    /\ setter' = [setter EXCEPT !["ws"] = [pc |-> "flag", reinit |-> TRUE]]
    /\ UNCHANGED <<need, ws, wsMutex, playing, configVars, ringVars, captureVars>>

\* CMD:CHUNK_SIZE, CMD:KARAOKE, CMD:STOPK, CMD:WSLOOP_START and CMD:WSLOOP_STOP.
Switch ==
    /\ Event /\ WsIdle /\ ws.up
    /\ \/ \E c \in ChunkSizes : cfg' = [cfg EXCEPT !.chunk = c]
       \/ \E on \in BOOLEAN : cfg' = [cfg EXCEPT !.karaoke = on]
       \/ \E on \in BOOLEAN : cfg' = [cfg EXCEPT !.loop = on]
    /\ UNCHANGED <<need, setter, ws, wsMutex, playing, configVars, ringVars, captureVars>>

Connect ==
    /\ Event /\ WsIdle /\ ~ws.up
    /\ ws' = [ws EXCEPT !.up = TRUE, !.pc = "send"]
    /\ UNCHANGED <<cfg, need, setter, wsMutex, playing, configVars, ringVars, captureVars>>

Disconnect ==
    /\ Event /\ WsIdle /\ ws.up
    /\ ws' = [ws EXCEPT !.up = FALSE, !.pc = "clear"]
    /\ UNCHANGED <<cfg, need, setter, wsMutex, playing, configVars, ringVars, captureVars>>

\* Audio from the server: echoed, or marked as playing and then pushed.
Audio == \E n \in Packets :
    /\ Event /\ WsIdle /\ ws.up
    /\ ws' = [ws EXCEPT !.pc = IF cfg.loop THEN "send" ELSE "push", !.n = n]
    /\ playing' = (playing \/ ~cfg.loop)
    /\ UNCHANGED <<cfg, need, setter, wsMutex, configVars, ringVars, captureVars>>

WsOnly == UNCHANGED <<cfg, need, setter, events, configVars, captureVars>>

WsToLoop(pc) == ws' = [ws EXCEPT !.pc = pc, !.n = IF pc = "loop" THEN 0 ELSE @]

RingTake ==
    /\ ws.pc \in {"push", "clear"} /\ ringMutex = "none"
    /\ ringMutex' = "ws"
    /\ WsToLoop(IF ws.pc = "push" THEN "pushing" ELSE "clearing")
    /\ WsOnly /\ UNCHANGED <<wsMutex, playing, ring, stream>>

\* While task_capture keeps the ring the packet is dropped, the ring not cleared.
RingTimeout ==
    /\ ws.pc \in {"push", "clear"} /\ ringMutex = "cap"
    /\ WsToLoop(IF ws.pc = "push" THEN "loop" ELSE "stop")
    /\ WsOnly /\ UNCHANGED <<wsMutex, playing, ringVars>>

RingPush ==
    /\ ws.pc = "pushing"
    /\ ring' = Pushed(ring, ws.n, stream.pushed)
    /\ stream' = [stream EXCEPT !.pushed = @ + ws.n]
    /\ ringMutex' = "none"
    /\ WsToLoop("loop")
    /\ WsOnly /\ UNCHANGED <<wsMutex, playing>>

\* Mutated form of RingClear: only the read position is set back.
RingClearHalf ==
    /\ ws.pc = "clearing"
    /\ ring' = [ring EXCEPT !.rd = 0]
    /\ stream' = [stream EXCEPT !.gone = stream.pushed]
    /\ ringMutex' = "none"
    /\ WsToLoop("stop")
    /\ WsOnly /\ UNCHANGED <<wsMutex, playing>>

RingClear ==
    /\ ws.pc = "clearing"
    /\ ring' = [ring EXCEPT !.rd = 0, !.wr = 0]
    /\ stream' = [stream EXCEPT !.gone = stream.pushed]
    /\ ringMutex' = "none"
    /\ WsToLoop("stop")
    /\ WsOnly /\ UNCHANGED <<wsMutex, playing>>

StopPlaying ==
    /\ ws.pc = "stop"
    /\ playing' = FALSE
    /\ WsToLoop("loop")
    /\ WsOnly /\ UNCHANGED <<wsMutex, ringVars>>

\* ws_txt and ws_bin in task_ws: dropped after 5 ms when task_capture is sending.
WsSend ==
    /\ ws.pc = "send"
    /\ \/ wsMutex = "none" /\ wsMutex' = "ws" /\ WsToLoop("sending")
       \/ wsMutex = "cap" /\ WsToLoop("loop") /\ UNCHANGED wsMutex
    /\ WsOnly /\ UNCHANGED <<playing, ringVars>>

WsSent ==
    /\ ws.pc = "sending"
    /\ wsMutex' = "none"
    /\ WsToLoop("loop")
    /\ WsOnly /\ UNCHANGED <<playing, ringVars>>

(***************************************************************************)
(* task_config                                                             *)
(***************************************************************************)

ConfigOnly == UNCHANGED <<cfg, setter, ws, wsMutex, playing, cap, events, ringVars>>

\* The request is cleared before the drivers are reopened.
TakeNeed ==
    /\ cfgPc = "idle" /\ setter["config"].pc = "none" /\ need
    /\ need' = FALSE
    /\ cfgPc' = "deinit"
    /\ ConfigOnly /\ UNCHANGED <<audio, pkt>>

\* deinit_i2s uninstalls the drivers before it says so.
Uninstall ==
    /\ cfgPc = "deinit"
    /\ audio' = [audio EXCEPT !.mic = Down, !.spk = Down]
    /\ cfgPc' = "stopped"
    /\ ConfigOnly /\ UNCHANGED <<need, pkt>>

FreeBuffers ==
    /\ cfgPc = "stopped"
    /\ audio' = [audio EXCEPT !.running = FALSE, !.buffers = 0]
    /\ cfgPc' = "alloc"
    /\ ConfigOnly /\ UNCHANGED <<need, pkt>>

\* pkt_len outlives g_pkt: what it counts is now whatever the new block holds.
AllocBuffers ==
    /\ cfgPc = "alloc"
    /\ audio' = [audio EXCEPT !.buffers = cfg.len]
    /\ pkt' = [pkt EXCEPT !.stale = pkt.len]
    /\ cfgPc' = "mic"
    /\ ConfigOnly /\ UNCHANGED need

\* FATAL: the task never comes back from reinit_i2s.
AllocFailure ==
    /\ AllocFails /\ cfgPc = "alloc"
    /\ cfgPc' = "fatal"
    /\ ConfigOnly /\ UNCHANGED <<need, audio, pkt>>

\* Each driver takes the settings of its own moment.
InitMic ==
    /\ cfgPc = "mic"
    /\ audio' = [audio EXCEPT !.mic = Driver(cfg.len)]
    /\ cfgPc' = "spk"
    /\ ConfigOnly /\ UNCHANGED <<need, pkt>>

InitSpk ==
    /\ cfgPc = "spk"
    /\ audio' = [audio EXCEPT !.spk = Driver(cfg.len)]
    /\ cfgPc' = "run"
    /\ ConfigOnly /\ UNCHANGED <<need, pkt>>

\* Mutated form of SetRunning: the request is cleared when it has been served.
SetRunningClears ==
    /\ cfgPc = "run"
    /\ audio' = [audio EXCEPT !.running = TRUE]
    /\ need' = FALSE
    /\ cfgPc' = "idle"
    /\ ConfigOnly /\ UNCHANGED pkt

SetRunning ==
    /\ cfgPc = "run"
    /\ audio' = [audio EXCEPT !.running = TRUE]
    /\ cfgPc' = "idle"
    /\ ConfigOnly /\ UNCHANGED <<need, pkt>>

(***************************************************************************)
(* task_capture                                                            *)
(***************************************************************************)

CaptureOnly == UNCHANGED <<cfg, need, configVars, setter, ws, events>>

Go(pc) == cap' = [cap EXCEPT !.pc = pc]

\* The state of the audio is looked at here and nowhere else in the loop.
CaptureTop ==
    /\ cap.pc = "top" /\ audio.running /\ ~need
    /\ IF playing THEN Go("play")
                  ELSE cap' = [cap EXCEPT !.pc = "frame", !.drain = 0]
    /\ CaptureOnly /\ UNCHANGED <<wsMutex, playing, pkt, ringVars>>

CaptureTake ==
    /\ cap.pc = "play" /\ ringMutex = "none"
    /\ ringMutex' = "cap"
    /\ Go("pop")
    /\ CaptureOnly /\ UNCHANGED <<wsMutex, playing, pkt, ring, stream>>

\* An empty read; after DrainLimit of them playing is over.
Emptied(c) == IF c.drain + 1 >= DrainLimit THEN [c EXCEPT !.pc = "quiet", !.drain = 0]
                                           ELSE [c EXCEPT !.pc = "frame", !.drain = @ + 1]

\* A ring that cannot be had within 1 ms counts as empty.
CaptureTimeout ==
    /\ cap.pc = "play" /\ ringMutex = "ws"
    /\ cap' = Emptied(cap)
    /\ CaptureOnly /\ UNCHANGED <<wsMutex, playing, pkt, ringVars>>

CapturePop ==
    /\ cap.pc = "pop"
    /\ LET n == Popped(ring)
       IN  /\ ring' = [ring EXCEPT !.rd = Advance(@, n)]
           /\ stream' = IF n = 0 THEN stream
                        ELSE [stream EXCEPT !.taken = Content(ring)[n], !.gone = Content(ring)[n]]
           /\ cap' = IF n > 0 THEN [cap EXCEPT !.pc = "frame", !.drain = 0] ELSE Emptied(cap)
    /\ ringMutex' = "none"
    /\ CaptureOnly /\ UNCHANGED <<wsMutex, playing, pkt>>

CaptureQuiet ==
    /\ cap.pc = "quiet"
    /\ playing' = FALSE
    /\ Go("frame")
    /\ CaptureOnly /\ UNCHANGED <<wsMutex, pkt, ringVars>>

\* i2s_read begins, with the length of this moment and the buffer of this moment.
CaptureFrame ==
    /\ cap.pc = "frame"
    /\ cap' = [cap EXCEPT !.pc = "read", !.len = cfg.len]
    /\ CaptureOnly /\ UNCHANGED <<wsMutex, playing, pkt, ringVars>>

\* Some samples arrive within 8 ms, as many as were asked for or fewer.
MicReads ==
    /\ cap.pc = "read" /\ audio.mic # Down
    /\ \E n \in 1 .. cap.len : cap' = [cap EXCEPT !.pc = "use", !.n = n]
    /\ CaptureOnly /\ UNCHANGED <<wsMutex, playing, pkt, ringVars>>

MicSilent ==
    /\ cap.pc = "read"
    /\ cap' = [cap EXCEPT !.pc = "top", !.len = 0]
    /\ CaptureOnly /\ UNCHANGED <<wsMutex, playing, pkt, ringVars>>

Empty == [len |-> 0, stale |-> 0]

\* A frame that does not fit discards the packet collected so far.
Accumulated == IF pkt.len + cap.n > PktMax THEN [len |-> cap.n, stale |-> 0]
                                           ELSE [pkt EXCEPT !.len = @ + cap.n]

\* Mutated form of CaptureUse: a packet of exactly the chunk size is not sent yet.
CaptureUseBeyond ==
    /\ cap.pc = "use"
    /\ LET p == IF cfg.karaoke THEN pkt ELSE IF ws.up THEN Accumulated ELSE Empty
       IN  /\ pkt' = p
           /\ cap' = [cap EXCEPT !.pc = IF ~cfg.karaoke /\ ws.up /\ p.len > cfg.chunk
                                        THEN "send" ELSE "top",
                                 !.len = 0, !.n = 0]
    /\ CaptureOnly /\ UNCHANGED <<wsMutex, playing, ringVars>>

\* The frame is looped to the speaker, added to the packet, or forgotten.
CaptureUse ==
    /\ cap.pc = "use"
    /\ LET p == IF cfg.karaoke THEN pkt ELSE IF ws.up THEN Accumulated ELSE Empty
       IN  /\ pkt' = p
           /\ cap' = [cap EXCEPT !.pc = IF ~cfg.karaoke /\ ws.up /\ p.len >= cfg.chunk
                                        THEN "send" ELSE "top",
                                 !.len = 0, !.n = 0]
    /\ CaptureOnly /\ UNCHANGED <<wsMutex, playing, ringVars>>

\* ws_bin in task_capture; a packet that cannot be sent in 5 ms is lost.
CaptureSend ==
    /\ cap.pc = "send"
    /\ \/ ws.up /\ wsMutex = "none" /\ wsMutex' = "cap" /\ Go("sending") /\ UNCHANGED pkt
       \/ ~ws.up /\ Go("top") /\ pkt' = Empty /\ UNCHANGED wsMutex
       \/ wsMutex = "ws" /\ Go("top") /\ pkt' = Empty /\ UNCHANGED wsMutex
    /\ CaptureOnly /\ UNCHANGED <<playing, ringVars>>

CaptureSent ==
    /\ cap.pc = "sending"
    /\ wsMutex' = "none"
    /\ Go("top") /\ pkt' = Empty
    /\ CaptureOnly /\ UNCHANGED <<playing, ringVars>>

\* CMD:REBOOT, or a panic after a write through a buffer that is gone: everything
\* but the settings' defaults is forgotten.
Reboot == \E f \in Starts :
    /\ Event
    /\ cfg' = f.cfg /\ need' = FALSE /\ audio' = f.audio /\ cfgPc' = "idle" /\ setter' = f.setter
    /\ ws' = f.ws /\ wsMutex' = "none" /\ ringMutex' = "none" /\ ring' = f.ring
    /\ stream' = [pushed |-> 0, taken |-> 0, gone |-> 0] /\ playing' = FALSE
    /\ cap' = f.cap /\ pkt' = [len |-> 0, stale |-> 0]

(***************************************************************************)
(* The system                                                              *)
(***************************************************************************)

Capture ==
    \/ CaptureTop \/ CaptureTake \/ CaptureTimeout \/ CapturePop \/ CaptureQuiet
    \/ CaptureFrame \/ MicReads \/ MicSilent \/ CaptureUse \/ CaptureSend \/ CaptureSent

WsStep == RingTake \/ RingTimeout \/ RingPush \/ RingClear \/ StopPlaying \/ WsSend \/ WsSent

Reopen == TakeNeed \/ Uninstall \/ FreeBuffers \/ AllocBuffers \/ InitMic \/ InitSpk \/ SetRunning

Setting(a) == FetchLen(a) \/ SetNeed(a)

Outside ==
    \/ \E a \in Setters : FetchConfig(a)
    \/ Command \/ Switch \/ Connect \/ Disconnect \/ Audio \/ Reboot

Next == Capture \/ WsStep \/ Reopen \/ AllocFailure \/ (\E a \in Setters : Setting(a)) \/ Outside

\* The scheduler runs every task again and again, each on the core it is pinned to;
\* and the microphone, clocked by the hardware, keeps delivering.
Fairness ==
    /\ WF_vars(Capture) /\ WF_vars(WsStep) /\ WF_vars(Reopen)
    /\ \A a \in Setters : WF_vars(Setting(a))
    /\ SF_vars(MicReads)

Spec == Init /\ [][Next]_vars

FairSpec == Spec /\ Fairness

(***************************************************************************)
(* Properties                                                              *)
(***************************************************************************)

Drivers == Opened \cup {Down}

VoiceTypeOK ==
    /\ cfg \in [rate : Rates, len : DmaLens, bufs : BufCounts, chunk : ChunkSizes,
                karaoke : BOOLEAN, loop : BOOLEAN]
    /\ need \in BOOLEAN /\ playing \in BOOLEAN
    /\ audio \in [running : BOOLEAN, buffers : DmaLens \cup {0}, mic : Drivers, spk : Drivers]
    /\ cfgPc \in {"idle", "deinit", "stopped", "alloc", "mic", "spk", "run", "fatal"}
    /\ setter \in [Setters -> [pc : {"none", "len", "flag"}, reinit : BOOLEAN]]
    /\ ws \in [up : BOOLEAN, n : Packets \cup {0},
               pc : {"loop", "send", "sending", "push", "pushing", "clear", "clearing", "stop"}]
    /\ wsMutex \in {"none", "ws", "cap"} /\ ringMutex \in {"none", "ws", "cap"}
    /\ ring.rd \in 0 .. RingBytes - 1 /\ ring.wr \in 0 .. RingBytes - 1
    /\ stream.taken \in 0 .. stream.gone /\ stream.gone \in 0 .. stream.pushed
    /\ cap \in [pc : {"top", "play", "pop", "quiet", "frame", "read", "use", "send", "sending"},
                drain : 0 .. DrainLimit - 1, len : DmaLens \cup {0}, n : 0 .. PktMax]
    /\ pkt.len \in 0 .. PktMax /\ pkt.stale \in 0 .. pkt.len

\* Whatever has been dropped at a mutex or overrun, the ring holds the newest bytes
\* of the stream in order, and as many of those not yet played or cleared as it can.
InOrder ==
    LET c == Content(ring)
        left == stream.pushed - stream.gone
    IN  /\ Len(c) = IF left < RingBytes THEN left ELSE RingBytes - 1
        /\ \A i \in DOMAIN c : c[i] = stream.pushed - Len(c) + i

\* What the ring holds is newer than all that was played before: no byte is heard
\* twice, not even across an overrun, a disconnection or a lost mutex.
NothingReplayed == \A i \in DOMAIN Content(ring) : Content(ring)[i] > stream.taken

Settled == cfgPc = "idle" /\ ~need /\ \A a \in Setters : setter[a].pc = "none"

\* When no change of the sample rate or the DMA length is under way and none is asked
\* for, the audio runs, with buffers and drivers of the rate and the length in force: a
\* change of these that arrives while the drivers are being reopened is not lost. (A
\* change of dma_bufs alone asks for nothing: the drivers keep the number they were
\* opened with until something else reopens them, see AllSettingsTaken.)
SettingsTaken ==
    Settled => /\ audio.running /\ audio.buffers = cfg.len
               /\ \A d \in {audio.mic, audio.spk} : d # Down /\ d.rate = cfg.rate /\ d.len = cfg.len

\* The drivers are opened with all of the settings in force, the number of their DMA
\* buffers too. The code does not keep this: fetch_config writes g_dma_bufs without
\* asking for the drivers to be reopened.
AllSettingsTaken == Settled => audio.mic = Driver(cfg.len) /\ audio.spk = Driver(cfg.len)

\* The chunk size can be reached with frames of this length before they overflow.
ChunkFits == cfg.chunk - 1 + cfg.len <= PktMax

Streams == Settled /\ ws.up /\ ~cfg.karaoke /\ ChunkFits

\* As long as the assistant is connected and its settings are left alone, what is
\* spoken is sent to the server again and again.
MicReachesServer == <>[]Streams => []<>(cap.pc = "sending")

\* Audio comes to an end: with the drivers up, playing is over some time after the
\* last packet.
PlaybackEnds == <>[]Settled => <>[]~playing

\* "ring truly drained": when the assistant has stopped playing, nothing is left to play.
QuietMeansDrained == (~playing /\ ws.pc = "loop") => Used(ring) = 0

\* "wait for reinit to complete": the frame in hand lies in a buffer of its size.
BuffersAlive == cap.pc \in {"read", "use"} => audio.buffers >= cap.len

\* Every chunk size that is accepted can be sent.
AnyChunkSent == <>[](Settled /\ ws.up /\ ~cfg.karaoke) => []<>(cap.pc = "sending")

\* A packet is made of what the microphone heard.
OnlyMicSent == cap.pc = "sending" => pkt.stale = 0

\* The variables have their types, and the player hears the stream in order and
\* no byte of it twice, though the ring overruns, is cleared and loses its mutex.
PlaysInOrder == VoiceTypeOK /\ InOrder /\ NothingReplayed

\* The microphone reaches the server, and playing ends.
AudioFlows == MicReachesServer /\ PlaybackEnds

=============================================================================
