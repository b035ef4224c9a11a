---------------------------- MODULE Sources_proofs ----------------------------
(***************************************************************************)
(* Proofs about the three sources, for every chunk, transfer and file size *)
(* and every bound:                                                        *)
(*   - the losses a source counts are exact;                               *)
(*   - a file plays round and round without a seam, at its rate;           *)
(*   - whichever source runs, main() sees the contract of SampleSource.    *)
(***************************************************************************)
EXTENDS Sources, DataFacts

-----------------------------------------------------------------------------
(* The USRP. *)

\* What the contract needs: the thread lives from start() to the join, and what
\* it is about to hand on is a frame.
UhdCalls ==
  /\ caller \in {"idle", "running", "stopping"}
  /\ caller = "idle" <=> thread = "none"
  /\ chunk \in Nat /\ handed \in Nat /\ dropped \in Nat /\ n \in Nat
  /\ clock \in Nat /\ expected \in Nat
  /\ thread = "frame" => 1 <= n /\ n <= chunk

\* Within a stream, as long as packets carry their time, the one expected next
\* starts where the last one ended, and the device's clock is not before it.
UhdStream ==
  /\ packets \in [first : Int, end : Int] /\ spanned \in Int
  /\ thread \in {"top", "recv", "frame"} /\ ~untimed =>
       /\ have_expected => packets.first >= 0 /\ expected = packets.end
                           /\ packets.end <= clock
       /\ ~have_expected => packets = Uhd!NoPackets

\* The account: a packet in the thread's hands is in neither count yet.
UhdAccount ==
  ~untimed => handed + dropped + (IF thread = "frame" THEN n ELSE 0)
                = spanned + (packets.end - packets.first)

UhdInv == UhdCalls /\ UhdStream /\ UhdAccount

LEMMA UhdInit == Uhd!Init => UhdInv
BY DEF Uhd!Init, UhdInv, UhdCalls, UhdStream, UhdAccount, Uhd!NoPackets

LEMMA UhdCallsStep ==
  ASSUME UhdCalls, [Uhd!Next]_(Uhd!vars)
  PROVE  UhdCalls'
<1> USE DEF UhdCalls, Uhd!uhdVars, Uhd!localVars
<1>1. ASSUME NEW size \in ChunkSizes, Uhd!Start(size) PROVE UhdCalls'
  BY <1>1, SourcesAssumption DEF Uhd!Start
<1>2. CASE Uhd!AskStop
  BY <1>2 DEF Uhd!AskStop
<1>3. CASE Uhd!StopReturns
  BY <1>3 DEF Uhd!StopReturns, Uhd!Joinable
<1>4. CASE Uhd!OpenStream
  BY <1>4 DEF Uhd!OpenStream
<1>5. CASE Uhd!CallRecv \/ Uhd!LeaveLoop \/ Uhd!RecvTimesOut \/ Uhd!Throw
  BY <1>5 DEF Uhd!CallRecv, Uhd!LeaveLoop, Uhd!RecvTimesOut, Uhd!Throw
<1>6. ASSUME NEW samples \in 1..chunk, NEW timed \in Uhd!Times,
             Uhd!Receive(samples, timed)
      PROVE  UhdCalls'
  BY <1>6 DEF Uhd!Receive, Uhd!Gap
<1>7. CASE Uhd!HandFrame
  BY <1>7 DEF Uhd!HandFrame
<1>8. CASE Uhd!NoFrame
  BY <1>8 DEF Uhd!NoFrame
<1>9. CASE Uhd!LoseSamples
  BY <1>9 DEF Uhd!LoseSamples, Uhd!callVars
<1>10. CASE UNCHANGED Uhd!vars
  BY <1>10 DEF Uhd!vars, Uhd!callVars
<1> QED BY <1>1, <1>2, <1>3, <1>4, <1>5, <1>6, <1>7, <1>8, <1>9, <1>10
        DEF Uhd!Next

LEMMA UhdInvStep ==
  ASSUME UhdInv, [Uhd!Next]_(Uhd!vars)
  PROVE  UhdStream' /\ UhdAccount'
<1> USE DEF UhdInv, UhdCalls, UhdStream, UhdAccount, Uhd!uhdVars, Uhd!localVars
<1>1. ASSUME NEW size \in ChunkSizes, Uhd!Start(size)
      PROVE UhdStream' /\ UhdAccount'
  BY <1>1 DEF Uhd!Start
<1>2. CASE Uhd!AskStop
  BY <1>2 DEF Uhd!AskStop
<1>3. CASE Uhd!StopReturns
  BY <1>3 DEF Uhd!StopReturns, Uhd!Joinable
<1>4. CASE Uhd!OpenStream
  BY <1>4 DEF Uhd!OpenStream, Uhd!Span, Uhd!FreshExpectation, Uhd!NoPackets
<1>5. CASE Uhd!CallRecv \/ Uhd!LeaveLoop \/ Uhd!RecvTimesOut \/ Uhd!Throw
  BY <1>5 DEF Uhd!CallRecv, Uhd!LeaveLoop, Uhd!RecvTimesOut, Uhd!Throw
<1>6. ASSUME NEW samples \in 1..chunk, NEW timed \in Uhd!Times,
             Uhd!Receive(samples, timed)
      PROVE  UhdStream' /\ UhdAccount'
  <2>1. packets' \in [first : Int, end : Int] /\ spanned' \in Int
    BY <1>6 DEF Uhd!Receive
  <2>2. packets'.end = clock + samples /\ thread' = "frame" /\ n' = samples
        /\ clock' = clock + samples /\ spanned' = spanned /\ handed' = handed
    BY <1>6 DEF Uhd!Receive
  <2>3. ~untimed' => ~untimed /\ timed
    BY <1>6 DEF Uhd!Receive
  <2>4. CASE untimed'
    BY <2>1, <2>4
  <2>5. CASE ~untimed' /\ have_expected
    <3>1. packets # Uhd!NoPackets
      <4>1. packets.first >= 0
        BY <2>3, <2>5, <1>6 DEF Uhd!Receive
      <4>2. Uhd!NoPackets.first = -1
        BY DEF Uhd!NoPackets
      <4> QED BY <4>1, <4>2
    <3>2. packets'.first = packets.first /\ expected' = clock + samples
          /\ have_expected'
      BY <3>1, <2>3, <2>5, <1>6 DEF Uhd!Receive
    <3>3. dropped' = dropped + (clock - expected)
      BY <2>3, <2>5, <1>6 DEF Uhd!Receive, Uhd!Gap
    <3> QED BY <2>1, <2>2, <2>3, <2>5, <3>2, <3>3, <1>6 DEF Uhd!Receive
  <2>6. CASE ~untimed' /\ ~have_expected
    <3>1. packets = Uhd!NoPackets
      BY <2>3, <2>6, <1>6 DEF Uhd!Receive
    <3>2. packets'.first = clock /\ expected' = clock + samples
          /\ have_expected'
      BY <3>1, <2>3, <2>6, <1>6 DEF Uhd!Receive
    <3>4. dropped' = dropped
      BY <2>6, <1>6 DEF Uhd!Receive, Uhd!Gap
    <3>3. packets.end - packets.first = 0
      BY <3>1 DEF Uhd!NoPackets
    <3> QED BY <2>1, <2>2, <2>3, <2>6, <3>2, <3>3, <3>4, <1>6 DEF Uhd!Receive
  <2> QED BY <2>4, <2>5, <2>6
<1>7. CASE Uhd!HandFrame
  BY <1>7 DEF Uhd!HandFrame
<1>8. CASE Uhd!NoFrame
  BY <1>8 DEF Uhd!NoFrame
<1>9. CASE Uhd!LoseSamples
  BY <1>9 DEF Uhd!LoseSamples, Uhd!callVars
<1>10. CASE UNCHANGED Uhd!vars
  BY <1>10 DEF Uhd!vars, Uhd!callVars
<1> QED BY <1>1, <1>2, <1>3, <1>4, <1>5, <1>6, <1>7, <1>8, <1>9, <1>10
        DEF Uhd!Next

LEMMA UhdLosses == UhdInv => Uhd!EveryLossIsCounted
BY DEF UhdInv, UhdCalls, UhdStream, UhdAccount, Uhd!EveryLossIsCounted, Uhd!Span

-----------------------------------------------------------------------------
(* The RTL-SDR. *)

\* The account: of the transfer in the callback only what is before the offset
\* is in either count.
RtlInv ==
  /\ caller \in {"idle", "running", "cancelling", "stopping"}
  /\ caller = "idle" <=> thread = "none"
  /\ caller # "idle" => chunk \in ChunkSizes
  /\ chunk \in Nat /\ handed \in Nat /\ dropped \in Nat
  /\ transferred \in Nat /\ offset \in Nat
  /\ thread = "callback" => offset < TransferSamples
  /\ handed + dropped =
       transferred - (IF thread = "callback" THEN TransferSamples - offset ELSE 0)

LEMMA RtlInit == Rtl!Init => RtlInv
BY DEF Rtl!Init, RtlInv

LEMMA RtlStep ==
  ASSUME RtlInv, [Rtl!Next]_(Rtl!vars)
  PROVE  RtlInv'
<1> USE SourcesAssumption DEF RtlInv, Rtl!rtlVars
<1>1. ASSUME NEW size \in ChunkSizes, Rtl!Start(size) PROVE RtlInv'
  BY <1>1 DEF Rtl!Start
<1>2. CASE Rtl!AskStop \/ Rtl!Cancel \/ Rtl!StopReturns
  BY <1>2 DEF Rtl!AskStop, Rtl!Cancel, Rtl!StopReturns, Rtl!Joinable
<1>3. CASE Rtl!EnterRead \/ Rtl!ReadReturns \/ Rtl!ReadFails
  BY <1>3 DEF Rtl!EnterRead, Rtl!ReadReturns, Rtl!ReadFails
<1>4. CASE Rtl!Transfer
  BY <1>4 DEF Rtl!Transfer
<1>5. CASE Rtl!HandFrame
  BY <1>5 DEF Rtl!HandFrame, Rtl!Taken
<1>6. CASE Rtl!NoFrame
  BY <1>6 DEF Rtl!NoFrame, Rtl!Refused
<1>7. CASE UNCHANGED Rtl!vars
  BY <1>7 DEF Rtl!vars, Rtl!callVars
<1> QED BY <1>1, <1>2, <1>3, <1>4, <1>5, <1>6, <1>7 DEF Rtl!Next

-----------------------------------------------------------------------------
(* The playback. *)

\* What the contract needs.
PlayCalls ==
  /\ caller \in {"idle", "running", "stopping"}
  /\ caller = "idle" <=> thread = "none"
  /\ caller # "idle" => chunk \in ChunkSizes
  /\ chunk \in Nat /\ handed \in Nat /\ dropped \in Nat
  /\ position \in 0..FileSamples
  /\ frame.samples \in Nat
  /\ thread = "send" => 1 <= frame.samples /\ frame.samples <= chunk

LEMMA PlayInit == Playback!Init => PlayCalls
BY SourcesAssumption DEF Playback!Init, PlayCalls

\* What the two reads of a chunk may return.
LEMMA FillReads ==
  ASSUME PlayCalls, chunk \in ChunkSizes,
         NEW got \in Playback!Reads(position, chunk),
         NEW more \in IF got < chunk THEN Playback!Reads(0, chunk - got) ELSE {0}
  PROVE  /\ got \in Nat /\ got <= chunk /\ got <= FileSamples - position
         /\ more \in Nat /\ got + more <= chunk /\ more <= FileSamples
         /\ got = chunk => more = 0
BY SourcesAssumption DEF PlayCalls, Playback!Reads, Playback!Minimum

LEMMA PlayCallsStep ==
  ASSUME PlayCalls, [Playback!Next]_(Playback!vars)
  PROVE  PlayCalls'
<1> USE DEF PlayCalls, Playback!fileVars, Playback!paceVars, Playback!playVars
<1>1. ASSUME NEW size \in ChunkSizes, Playback!Start(size) PROVE PlayCalls'
  BY <1>1, SourcesAssumption DEF Playback!Start
<1>2. CASE Playback!AskStop \/ Playback!StopReturns \/ Playback!Begin
  BY <1>2 DEF Playback!AskStop, Playback!StopReturns, Playback!Begin
<1>3. CASE Playback!AcquireFrame \/ Playback!LeaveLoop
  BY <1>3 DEF Playback!AcquireFrame, Playback!LeaveLoop
<1>4. ASSUME NEW got \in Playback!Reads(position, chunk),
             NEW more \in IF got < chunk THEN Playback!Reads(0, chunk - got)
                          ELSE {0},
             Playback!Fill(got, more)
      PROVE  PlayCalls'
  <2>1. thread = "fill" /\ chunk \in ChunkSizes
    BY <1>4 DEF Playback!Fill
  <2>2. /\ got \in Nat /\ got <= chunk /\ got <= FileSamples - position
        /\ more \in Nat /\ got + more <= chunk /\ more <= FileSamples
    BY <2>1, FillReads
  <2> QED BY <1>4, <2>1, <2>2, SourcesAssumption
          DEF Playback!Fill, Playback!PositionAfter
<1>5. CASE Playback!SendFrame
  BY <1>5 DEF Playback!SendFrame
<1>6. CASE Playback!Wake \/ Playback!Pace
  BY <1>6 DEF Playback!Wake, Playback!Pace
<1>7. CASE Playback!Tick
  BY <1>7 DEF Playback!Tick, Playback!callVars
<1>8. CASE UNCHANGED Playback!vars
  BY <1>8 DEF Playback!vars, Playback!callVars
<1> QED BY <1>1, <1>2, <1>3, <1>4, <1>5, <1>6, <1>7, <1>8 DEF Playback!Next

\* Where the next frame is to begin: after the one before it, in the file's
\* round.  While a frame is in the thread's hands, it begins there, and the
\* file stands after it.
PlaySeam ==
  /\ frame.first \in Nat
  /\ ~misread /\ thread # "send" => position % FileSamples = follows
  /\ ~misread /\ thread = "send" =>
       /\ frame.first % FileSamples = follows
       /\ (frame.first + frame.samples) % FileSamples = position % FileSamples
       /\ frame.samples >= chunk \/ frame.samples >= FileSamples

LEMMA SeamInit == Playback!Init => PlaySeam
BY SourcesAssumption, SlotUnique DEF Playback!Init, PlaySeam

LEMMA SeamFill ==
  ASSUME PlayCalls, PlaySeam, chunk \in ChunkSizes, thread = "fill",
         NEW got \in Playback!Reads(position, chunk),
         NEW more \in IF got < chunk THEN Playback!Reads(0, chunk - got) ELSE {0},
         Playback!Fill(got, more)
  PROVE  PlaySeam'
<1>1. /\ got \in Nat /\ got <= chunk /\ got <= FileSamples - position
      /\ more \in Nat /\ got + more <= chunk /\ more <= FileSamples
      /\ got = chunk => more = 0
  BY FillReads
<1>2. FileSamples \in Nat \ {0} /\ position \in Nat /\ position <= FileSamples
      /\ chunk \in Nat \ {0}
  BY SourcesAssumption DEF PlayCalls
<1>3. /\ frame'.first = IF got = 0 THEN 0 ELSE position
      /\ frame'.samples = got + more
      /\ position' = IF got < chunk THEN more ELSE position + got
      /\ thread' = IF got + more = 0 THEN "top" ELSE "send"
      /\ chunk' = chunk /\ follows' = follows
  BY DEF Playback!Fill, Playback!PositionAfter, Playback!paceVars
<1>4. frame'.first \in Nat
  BY <1>2, <1>3
<1>5. CASE misread'
  BY <1>4, <1>5 DEF PlaySeam
<1>6. CASE ~misread'
  <2>1. /\ ~misread
        /\ got >= Playback!Minimum(chunk, FileSamples - position)
        /\ got < chunk => more >= Playback!Minimum(chunk - got, FileSamples)
    BY <1>1, <1>2, <1>6 DEF Playback!Fill, Playback!Minimum
  <2>2. got < chunk => position + got = FileSamples
    BY <2>1, <1>1, <1>2 DEF Playback!Minimum
  <2>3. thread' = "send" /\ (got + more >= chunk \/ got + more >= FileSamples)
    BY <2>1, <2>2, <1>1, <1>2, <1>3 DEF Playback!Minimum
  <2>4. position % FileSamples = follows
    BY <2>1 DEF PlaySeam
  <2>5. FileSamples % FileSamples = 0 /\ 0 % FileSamples = 0
    BY <1>2, SlotUnique
  <2>6. frame'.first % FileSamples = follows
    BY <1>1, <1>2, <1>3, <2>2, <2>4, <2>5
  <2>7. (frame'.first + frame'.samples) % FileSamples = position' % FileSamples
    <3>1. CASE got = chunk
      BY <1>1, <1>2, <1>3, <3>1
    <3>2. CASE got < chunk /\ got = 0
      BY <1>1, <1>2, <1>3, <3>2
    <3>3. CASE got < chunk /\ got # 0
      <4>1. frame'.first + frame'.samples = FileSamples + more
        BY <1>1, <1>2, <1>3, <2>2, <3>3
      <4>2. (FileSamples + more) % FileSamples = more % FileSamples
        <5>1. \A k \in Int : (FileSamples + k) % FileSamples = k % FileSamples
          BY <1>2, WholeTurn
        <5> QED BY <5>1, <1>1
      <4> QED BY <4>1, <4>2, <1>3, <3>3
    <3> QED BY <3>1, <3>2, <3>3, <1>1, <1>2
  <2> QED BY <1>3, <1>4, <2>3, <2>6, <2>7 DEF PlaySeam
<1> QED BY <1>5, <1>6

LEMMA SeamStep ==
  ASSUME PlayCalls, PlaySeam, [Playback!Next]_(Playback!vars)
  PROVE  PlaySeam'
<1> USE DEF PlaySeam, Playback!fileVars, Playback!paceVars, Playback!playVars
<1>1. ASSUME NEW size \in ChunkSizes, Playback!Start(size) PROVE PlaySeam'
  BY <1>1 DEF Playback!Start, PlayCalls
<1>2. CASE Playback!AskStop \/ Playback!StopReturns \/ Playback!Begin
  BY <1>2 DEF Playback!AskStop, Playback!StopReturns, Playback!Begin
<1>3. CASE Playback!AcquireFrame \/ Playback!LeaveLoop
  BY <1>3 DEF Playback!AcquireFrame, Playback!LeaveLoop
<1>4. ASSUME NEW got \in Playback!Reads(position, chunk),
             NEW more \in IF got < chunk THEN Playback!Reads(0, chunk - got)
                          ELSE {0},
             Playback!Fill(got, more)
      PROVE  PlaySeam'
  <2>1. thread = "fill" /\ chunk \in ChunkSizes
    BY <1>4 DEF Playback!Fill, PlayCalls
  <2> QED BY <1>4, <2>1, SeamFill
<1>5. CASE Playback!SendFrame
  BY <1>5 DEF Playback!SendFrame
<1>6. CASE Playback!Wake \/ Playback!Pace
  BY <1>6 DEF Playback!Wake, Playback!Pace
<1>7. CASE Playback!Tick
  BY <1>7 DEF Playback!Tick, Playback!callVars
<1>8. CASE UNCHANGED Playback!vars
  BY <1>8 DEF Playback!vars, Playback!callVars
<1> QED BY <1>1, <1>2, <1>3, <1>4, <1>5, <1>6, <1>7, <1>8 DEF Playback!Next

\* How far the thread may be ahead of the clock, and how many frames it may
\* have sent in one instant, by how far the next deadline is: a frame moves
\* both, a tick takes from the lead and ends the burst.
PlayPace ==
  /\ due \in Int /\ ahead \in Int /\ burst \in Nat
  /\ thread = "init" => ahead <= 0 /\ burst = 0
  /\ thread \in {"top", "fill", "send"} =>
       /\ due <= chunk
       /\ ahead <= due - chunk \/ ahead <= -(ResyncAfter + 3 * chunk)
       /\ burst = 0 \/ burst * chunk <= due + ResyncAfter + chunk
  /\ thread = "sleep" =>
       /\ due <= chunk
       /\ ahead <= due \/ ahead <= -(ResyncAfter + 2 * chunk)
       /\ burst <= 1 \/ burst * chunk <= due + ResyncAfter + 2 * chunk
  /\ thread = "pace" =>
       /\ due <= chunk
       /\ ahead <= due - chunk \/ ahead <= -(ResyncAfter + 2 * chunk)
       /\ burst <= 1 \/ burst * chunk <= due + ResyncAfter + chunk
  /\ Playback!PlaybackIsPaced

LEMMA PaceInit == Playback!Init => PlayPace
BY SourcesAssumption DEF Playback!Init, PlayPace, Playback!PlaybackIsPaced

LEMMA Products ==
  ASSUME NEW b \in Nat, NEW c \in Nat
  PROVE  /\ (b + 1) * c = b * c + c /\ 0 * c = 0 /\ b * c \in Nat
         /\ b <= 1 => b * c <= c
OBVIOUS

LEMMA PaceStep ==
  ASSUME PlayCalls, PlayPace, [Playback!Next]_(Playback!vars)
  PROVE  PlayPace'
<1> USE DEF PlayPace, Playback!fileVars, Playback!paceVars, Playback!playVars,
            Playback!PlaybackIsPaced
<1>0. ResyncAfter \in Nat /\ chunk \in Nat
  BY SourcesAssumption DEF PlayCalls
<1>a. /\ (burst + 1) * chunk = burst * chunk + chunk /\ 0 * chunk = 0
      /\ burst * chunk \in Nat /\ (burst <= 1 => burst * chunk <= chunk)
  BY <1>0, Products DEF PlayPace
<1>1. ASSUME NEW size \in ChunkSizes, Playback!Start(size) PROVE PlayPace'
  <2>1. size \in Nat /\ 0 * size = 0
    BY SourcesAssumption, Products
  <2> QED BY <1>0, <1>1, <2>1 DEF Playback!Start
<1>2. CASE Playback!AskStop \/ Playback!StopReturns
  BY <1>2 DEF Playback!AskStop, Playback!StopReturns
<1>3. CASE Playback!Begin
  BY <1>0, <1>a, <1>3 DEF Playback!Begin
<1>4. CASE Playback!AcquireFrame \/ Playback!LeaveLoop
  BY <1>4 DEF Playback!AcquireFrame, Playback!LeaveLoop
<1>5. ASSUME NEW got, NEW more, Playback!Fill(got, more) PROVE PlayPace'
  BY <1>5 DEF Playback!Fill
<1>6. CASE Playback!SendFrame
  <2>1. frame.samples \in Nat /\ frame.samples <= chunk /\ thread = "send"
    BY <1>6 DEF Playback!SendFrame, PlayCalls
  <2>2. /\ thread' = "sleep" /\ due' = due /\ chunk' = chunk
        /\ ahead' = ahead + frame.samples /\ burst' = burst + 1
    BY <1>6 DEF Playback!SendFrame
  <2>3. due <= chunk /\ ahead' <= chunk
    BY <1>0, <2>1, <2>2
  <2>4. ahead' <= due \/ ahead' <= -(ResyncAfter + 2 * chunk)
    BY <1>0, <2>1, <2>2
  <2>5. burst' * chunk = burst * chunk + chunk
    BY <1>a, <2>2
  <2>6. burst' <= 1 \/ burst' * chunk <= due + ResyncAfter + 2 * chunk
    BY <1>0, <1>a, <2>1, <2>2, <2>5
  <2>7. burst' * chunk <= ResyncAfter + 3 * chunk
    BY <1>0, <1>a, <2>1, <2>2, <2>3, <2>5
  <2> QED BY <1>0, <2>1, <2>2, <2>3, <2>4, <2>6, <2>7
<1>7. CASE Playback!Wake
  BY <1>0, <1>a, <1>7 DEF Playback!Wake, Playback!DeadlineCame
<1>8. CASE Playback!Pace
  BY <1>0, <1>a, <1>8 DEF Playback!Pace, Playback!Resynchronised
<1>9. CASE Playback!Tick
  BY <1>0, <1>a, <1>9
     DEF Playback!Tick, Playback!callVars, Playback!LateEnough, Playback!Maximum
<1>10. CASE UNCHANGED Playback!vars
  BY <1>10 DEF Playback!vars, Playback!callVars
<1> QED BY <1>1, <1>2, <1>3, <1>4, <1>5, <1>6, <1>7, <1>8, <1>9, <1>10
        DEF Playback!Next

-----------------------------------------------------------------------------
(* One of the three runs. *)

Inv ==
  /\ source \in {"Playback", "Uhd", "Rtl"}
  /\ source = "Uhd" => UhdInv
  /\ source = "Rtl" => RtlInv
  /\ source = "Playback" => PlayCalls /\ PlaySeam /\ PlayPace

LEMMA InvInit == Init => Inv
BY UhdInit, RtlInit, PlayInit, SeamInit, PaceInit DEF Init, Inv

LEMMA InvStep == Inv /\ [Next]_vars => Inv'
<1> SUFFICES ASSUME Inv, [Next]_vars PROVE Inv'
  OBVIOUS
<1>1. CASE source = "Uhd"
  <2>1. [Uhd!Next]_(Uhd!vars) /\ source' = source
    BY <1>1 DEF Next, vars, Uhd!vars, Uhd!callVars, Uhd!uhdVars, Uhd!localVars,
                uhdVars
  <2>2. UhdInv'
    BY <1>1, <2>1, UhdCallsStep, UhdInvStep DEF Inv, UhdInv
  <2> QED BY <1>1, <2>1, <2>2 DEF Inv
<1>2. CASE source = "Rtl"
  <2>1. [Rtl!Next]_(Rtl!vars) /\ source' = source
    BY <1>2 DEF Next, vars, Rtl!vars, Rtl!callVars, Rtl!rtlVars, rtlVars
  <2>2. RtlInv'
    BY <1>2, <2>1, RtlStep DEF Inv
  <2> QED BY <1>2, <2>1, <2>2 DEF Inv
<1>3. CASE source = "Playback"
  <2>1. [Playback!Next]_(Playback!vars) /\ source' = source
    BY <1>3 DEF Next, vars, Playback!vars, Playback!callVars, Playback!playVars,
                Playback!paceVars, Playback!fileVars, playVars
  <2>2. PlayCalls' /\ PlaySeam' /\ PlayPace'
    BY <1>3, <2>1, PlayCallsStep, SeamStep, PaceStep DEF Inv
  <2> QED BY <1>3, <2>1, <2>2 DEF Inv
<1> QED BY <1>1, <1>2, <1>3 DEF Inv

LEMMA Invariance == Spec => []Inv
<1>1. Init => Inv
  BY InvInit
<1>2. Inv /\ [Next]_vars => Inv'
  BY InvStep
<1> QED BY <1>1, <1>2, PTL DEF Spec

\* What a source that can lose samples counts is exact: every sample between
\* the first and the last it saw was handed on or counted, once, through any
\* restarts, timeouts, failed allocations and exceptions.
THEOREM LossesAreCounted == Spec => []EveryLossIsCounted
<1>1. Inv => EveryLossIsCounted
  <2>1. RtlInv => Rtl!EveryLossIsCounted
    BY DEF RtlInv, Rtl!EveryLossIsCounted
  <2> QED BY <2>1, UhdLosses DEF Inv, EveryLossIsCounted
<1> QED BY <1>1, Invariance, PTL

\* A file of any length plays round and round without a seam, in chunks of any
\* size, over its end, over stop() and start().
THEOREM FileIsSeamless == Spec => []PlaybackIsSeamless
<1>1. Inv => PlaybackIsSeamless
  BY SourcesAssumption
     DEF Inv, PlayCalls, PlaySeam, PlaybackIsSeamless,
         Playback!PlaybackIsSeamless, Playback!Minimum
<1> QED BY <1>1, Invariance, PTL

\* The playback is never more than a chunk ahead of the clock, and what it
\* sends in one instant is bounded by the lateness that resynchronises it.
THEOREM FileIsPaced == Spec => []PlaybackIsPaced
<1>1. Inv => PlaybackIsPaced
  BY DEF Inv, PlayPace, PlaybackIsPaced
<1> QED BY <1>1, Invariance, PTL

-----------------------------------------------------------------------------
(* The contract. *)

LEMMA UhdImplements ==
  ASSUME UhdCalls, [Uhd!Next]_(Uhd!vars)
  PROVE  [Contract!Next]_(Contract!contractVars)
<1> USE DEF UhdCalls, Uhd!uhdVars, Uhd!localVars
<1>1. ASSUME NEW size \in ChunkSizes, Uhd!Start(size) PROVE Contract!Start(size)
  BY <1>1 DEF Uhd!Start, Contract!Start
<1>2. ASSUME Uhd!AskStop PROVE Contract!AskStop
  BY <1>2 DEF Uhd!AskStop, Contract!AskStop
<1>3. ASSUME Uhd!StopReturns PROVE Contract!StopReturns
  BY <1>3 DEF Uhd!StopReturns, Contract!StopReturns
<1>4. ASSUME \/ Uhd!OpenStream \/ Uhd!CallRecv \/ Uhd!LeaveLoop
             \/ Uhd!RecvTimesOut \/ Uhd!Throw
      PROVE  UNCHANGED Contract!contractVars
  BY <1>4 DEF Uhd!OpenStream, Uhd!CallRecv, Uhd!LeaveLoop, Uhd!RecvTimesOut,
              Uhd!Throw, Contract!contractVars
<1>5. ASSUME NEW samples \in 1..chunk, NEW timed \in Uhd!Times,
             Uhd!Receive(samples, timed)
      PROVE  Contract!LoseSamples
  BY <1>5 DEF Uhd!Receive, Uhd!Gap, Contract!LoseSamples
<1>6. ASSUME Uhd!HandFrame PROVE n \in 1..chunk /\ Contract!HandFrame(n)
  BY <1>6 DEF Uhd!HandFrame, Contract!HandFrame
<1>7. ASSUME Uhd!NoFrame PROVE Contract!LoseSamples
  BY <1>7 DEF Uhd!NoFrame, Contract!LoseSamples
<1>8. ASSUME Uhd!LoseSamples \/ UNCHANGED Uhd!vars
      PROVE  UNCHANGED Contract!contractVars
  BY <1>8 DEF Uhd!LoseSamples, Uhd!vars, Uhd!callVars, Contract!contractVars
<1> QED BY <1>1, <1>2, <1>3, <1>4, <1>5, <1>6, <1>7, <1>8
        DEF Uhd!Next, Contract!Next

LEMMA RtlImplements ==
  ASSUME RtlInv, [Rtl!Next]_(Rtl!vars)
  PROVE  [Contract!Next]_(Contract!contractVars)
<1> USE SourcesAssumption DEF RtlInv, Rtl!rtlVars
<1>1. ASSUME NEW size \in ChunkSizes, Rtl!Start(size) PROVE Contract!Start(size)
  BY <1>1 DEF Rtl!Start, Contract!Start
<1>2. ASSUME Rtl!AskStop PROVE Contract!AskStop
  BY <1>2 DEF Rtl!AskStop, Contract!AskStop
<1>3. ASSUME Rtl!StopReturns PROVE Contract!StopReturns
  BY <1>3 DEF Rtl!StopReturns, Contract!StopReturns
<1>4. ASSUME \/ Rtl!Cancel \/ Rtl!EnterRead \/ Rtl!Transfer
             \/ Rtl!ReadReturns \/ Rtl!ReadFails
      PROVE  UNCHANGED Contract!contractVars
  BY <1>4 DEF Rtl!Cancel, Rtl!EnterRead, Rtl!Transfer, Rtl!ReadReturns,
              Rtl!ReadFails, Contract!contractVars
<1>5. ASSUME Rtl!HandFrame
      PROVE  Rtl!Taken \in 1..chunk /\ Contract!HandFrame(Rtl!Taken)
  BY <1>5 DEF Rtl!HandFrame, Rtl!Taken, Contract!HandFrame
<1>6. ASSUME Rtl!NoFrame PROVE Contract!LoseSamples
  BY <1>6 DEF Rtl!NoFrame, Rtl!Refused, Contract!LoseSamples
<1>7. ASSUME UNCHANGED Rtl!vars PROVE UNCHANGED Contract!contractVars
  BY <1>7 DEF Rtl!vars, Rtl!callVars, Contract!contractVars
<1> QED BY <1>1, <1>2, <1>3, <1>4, <1>5, <1>6, <1>7
        DEF Rtl!Next, Contract!Next

LEMMA PlaybackImplements ==
  ASSUME PlayCalls, [Playback!Next]_(Playback!vars)
  PROVE  [Contract!Next]_(Contract!contractVars)
<1> USE DEF PlayCalls, Playback!fileVars, Playback!paceVars, Playback!playVars
<1>1. ASSUME NEW size \in ChunkSizes, Playback!Start(size)
      PROVE  Contract!Start(size)
  BY <1>1 DEF Playback!Start, Contract!Start
<1>2. ASSUME Playback!AskStop PROVE Contract!AskStop
  BY <1>2 DEF Playback!AskStop, Contract!AskStop
<1>3. ASSUME Playback!StopReturns PROVE Contract!StopReturns
  BY <1>3 DEF Playback!StopReturns, Contract!StopReturns
<1>4. ASSUME \/ Playback!Begin \/ Playback!AcquireFrame \/ Playback!LeaveLoop
             \/ Playback!Wake \/ Playback!Pace \/ Playback!Tick
      PROVE  UNCHANGED Contract!contractVars
  BY <1>4 DEF Playback!Begin, Playback!AcquireFrame, Playback!LeaveLoop,
              Playback!Wake, Playback!Pace, Playback!Tick, Playback!callVars,
              Contract!contractVars
<1>5. ASSUME NEW got, NEW more, Playback!Fill(got, more)
      PROVE  UNCHANGED Contract!contractVars
  BY <1>5 DEF Playback!Fill, Contract!contractVars
<1>6. ASSUME Playback!SendFrame
      PROVE  frame.samples \in 1..chunk /\ Contract!HandFrame(frame.samples)
  BY <1>6 DEF Playback!SendFrame, Contract!HandFrame
<1>7. ASSUME UNCHANGED Playback!vars PROVE UNCHANGED Contract!contractVars
  BY <1>7 DEF Playback!vars, Playback!callVars, Contract!contractVars
<1> QED BY <1>1, <1>2, <1>3, <1>4, <1>5, <1>6, <1>7
        DEF Playback!Next, Contract!Next

\* Each source implements SampleSource: frames come between start() and the
\* return of stop() only, none empty or longer than the chunk, and the count of
\* losses never goes back.
THEOREM SourcesImplementContract == Spec => ImplementsSampleSource
<1>1. Init => Contract!Init
  BY DEF Init, Uhd!Init, Contract!Init
<1>2. Inv /\ [Next]_vars => [Contract!Next]_(Contract!contractVars)
  <2> SUFFICES ASSUME Inv, [Next]_vars
               PROVE  [Contract!Next]_(Contract!contractVars)
    OBVIOUS
  <2>1. CASE source = "Uhd"
    <3>1. [Uhd!Next]_(Uhd!vars)
      BY <2>1 DEF Next, vars, Uhd!vars, Uhd!callVars, Uhd!uhdVars,
                  Uhd!localVars, uhdVars
    <3> QED BY <2>1, <3>1, UhdImplements DEF Inv, UhdInv
  <2>2. CASE source = "Rtl"
    <3>1. [Rtl!Next]_(Rtl!vars)
      BY <2>2 DEF Next, vars, Rtl!vars, Rtl!callVars, Rtl!rtlVars, rtlVars
    <3> QED BY <2>2, <3>1, RtlImplements DEF Inv
  <2>3. CASE source = "Playback"
    <3>1. [Playback!Next]_(Playback!vars)
      BY <2>3 DEF Next, vars, Playback!vars, Playback!callVars,
                  Playback!playVars, Playback!paceVars, Playback!fileVars,
                  playVars
    <3> QED BY <2>3, <3>1, PlaybackImplements DEF Inv
  <2> QED BY <2>1, <2>2, <2>3 DEF Inv
<1>3. QED
  BY <1>1, <1>2, Invariance, PTL DEF Spec, ImplementsSampleSource, Contract!Spec
=============================================================================
