------------------------- MODULE BotServerWebProofs -------------------------
(***************************************************************************)
(* Theorems about the two parts of BotServerWeb that keep something from   *)
(* one callback to the next.  Camera: for any buffers, queue and finite    *)
(* set of connections, no buffer and no picture is lost or freed twice.    *)
(* ScriptStore: for any connections, names, bodies and cap, what was       *)
(* answered as saved is served.                                            *)
(***************************************************************************)
EXTENDS Camera, ScriptStore, FiniteSetTheorems, SequenceTheorems, WellFoundedInduction, TLAPS


PCs == {"idle", "drain", "wait", "convert", "return", "returnjpeg",
        "answer", "answerjpeg", "piece"}

(* TypeOK but for the size of the heap.                                    *)
Typed ==
  /\ unfilled \subseteq Buffers
  /\ captured \in Buffers \cup {None}
  /\ cam_queue \in Seq(Buffers) /\ Len(cam_queue) <= QueueLen
  /\ latest \in Buffers \cup {None}
  /\ registered \in BOOLEAN
  /\ pc \in PCs
  /\ serving \in Streams \cup {None}
  /\ stream \in [Streams -> {"closed", "open", "ended"}]
  /\ left \in [Streams -> 0..Pieces]
  /\ streaming_active_ \in BOOLEAN

(* What the HTTP task has in hand at each of its steps.                    *)
InHand ==
  /\ pc \in {"idle", "wait", "answer", "answerjpeg", "piece"} => latest = None
  /\ pc \in {"convert", "return", "returnjpeg"} => latest # None
  /\ pc \in {"idle", "answer", "answerjpeg", "returnjpeg"} => serving = None
  /\ pc \in {"drain", "wait", "convert"} /\ serving # None => left[serving] = 0
  /\ pc = "return" /\ serving # None => left[serving] > 0
  /\ pc = "piece" => serving # None /\ left[serving] > 0

CameraInv == /\ Typed /\ InHand
             /\ FramesAccounted /\ PicturesAccounted
             /\ BusyOnlyWhileStreaming

Half(f) == {c \in Streams : f[c] > 0}

-----------------------------------------------------------------------------
(* Facts about the queue and about the pictures that are half sent.        *)

LEMMA FrameAppended ==
  ASSUME NEW S, NEW q \in Seq(S), NEW b \in S
  PROVE  {Append(q, b)[i] : i \in DOMAIN Append(q, b)} = {q[i] : i \in DOMAIN q} \cup {b}
<1>1. DOMAIN q = 1..Len(q) /\ DOMAIN Append(q, b) = 1..(Len(q) + 1) /\ Len(q) \in Nat
  OBVIOUS
<1>2. \A i \in 1..Len(q) : Append(q, b)[i] = q[i]
  OBVIOUS
<1>3. Append(q, b)[Len(q) + 1] = b
  OBVIOUS
<1>4. \A i \in 1..(Len(q) + 1) : i \in 1..Len(q) \/ i = Len(q) + 1
  BY <1>1
<1>5. QED
  BY <1>1, <1>2, <1>3, <1>4, Z3

LEMMA TakenOut ==
  ASSUME NEW S, NEW q \in Seq(S), q # <<>>,
         \A i, j \in DOMAIN q : q[i] = q[j] => i = j
  PROVE  /\ Head(q) \in S /\ Tail(q) \in Seq(S) /\ Len(Tail(q)) = Len(q) - 1
         /\ Head(q) \in {q[i] : i \in DOMAIN q}
         /\ {Tail(q)[i] : i \in DOMAIN Tail(q)} = {q[i] : i \in DOMAIN q} \ {Head(q)}
         /\ \A i, j \in DOMAIN Tail(q) : Tail(q)[i] = Tail(q)[j] => i = j
<1>1. /\ Len(q) \in Nat \ {0} /\ DOMAIN q = 1..Len(q)
      /\ Tail(q) \in Seq(S) /\ Len(Tail(q)) = Len(q) - 1
      /\ DOMAIN Tail(q) = 1..(Len(q) - 1)
      /\ Head(q) = q[1]
  OBVIOUS
<1>2. \A i \in 1..(Len(q) - 1) : Tail(q)[i] = q[i + 1] /\ i + 1 \in 1..Len(q)
  BY <1>1
<1>3. \A i \in 1..Len(q) : i = 1 \/ (i - 1 \in 1..(Len(q) - 1) /\ (i - 1) + 1 = i)
  BY <1>1
<1>4. Head(q) \in S /\ Head(q) \in {q[i] : i \in DOMAIN q}
  BY <1>1
<1>5. \A i, j \in DOMAIN Tail(q) : Tail(q)[i] = Tail(q)[j] => i = j
  BY <1>1, <1>2
<1>6. ASSUME NEW x \in {q[i] : i \in DOMAIN q} \ {Head(q)}
      PROVE  x \in {Tail(q)[i] : i \in DOMAIN Tail(q)}
  <2>1. PICK i \in DOMAIN q : x = q[i]
    OBVIOUS
  <2>2. i \in 1..Len(q) /\ i # 1
    BY <1>1, <2>1
  <2>3. i - 1 \in DOMAIN Tail(q) /\ Tail(q)[i - 1] = q[i]
    BY <1>1, <1>2, <1>3, <2>2
  <2>4. QED
    BY <2>1, <2>3
<1>7. ASSUME NEW x \in {Tail(q)[i] : i \in DOMAIN Tail(q)}
      PROVE  x \in {q[i] : i \in DOMAIN q} \ {Head(q)}
  <2>1. PICK i \in DOMAIN Tail(q) : x = Tail(q)[i]
    OBVIOUS
  <2>2. x = q[i + 1] /\ i + 1 \in DOMAIN q /\ i + 1 # 1
    BY <1>1, <1>2, <2>1
  <2>3. QED
    BY <1>1, <2>2
<1>8. QED
  BY <1>1, <1>4, <1>5, <1>6, <1>7

LEMMA HalfFinite ==
  ASSUME NEW f
  PROVE  /\ IsFiniteSet(Half(f)) /\ Cardinality(Half(f)) \in Nat
         /\ Cardinality(Half(f)) <= Cardinality(Streams) /\ Cardinality(Streams) \in Nat
BY StreamsAssumption, FS_Subset, FS_CardinalityType DEF Half

LEMMA HalfAdded ==
  ASSUME NEW f, NEW g, NEW c \in Streams, Half(g) = Half(f) \cup {c}, c \notin Half(f)
  PROVE  Cardinality(Half(g)) = Cardinality(Half(f)) + 1
BY HalfFinite, FS_AddElement

LEMMA HalfRemoved ==
  ASSUME NEW f, NEW g, NEW c \in Streams, Half(g) = Half(f) \ {c}, c \in Half(f)
  PROVE  Cardinality(Half(g)) = Cardinality(Half(f)) - 1
BY HalfFinite, FS_RemoveElement

-----------------------------------------------------------------------------

LEMMA CameraInit == Init => CameraInv
<1> SUFFICES ASSUME Init PROVE CameraInv
  OBVIOUS
<1> USE DEF Init
<1>1. Typed /\ InHand
  <2>1. cam_queue \in Seq(Buffers) /\ Len(cam_queue) <= QueueLen
    BY BoundsAssumption
  <2>2. left \in [Streams -> 0..Pieces] /\ stream \in [Streams -> {"closed", "open", "ended"}]
    BY BoundsAssumption
  <2>3. QED
    BY <2>1, <2>2 DEF Typed, InHand, PCs
<1>2. FramesAccounted
  BY NoneAssumption DEF FramesAccounted, Queued
<1>3. PicturesAccounted
  <2>1. {c \in Streams : left[c] > 0} = {}
    OBVIOUS
  <2>2. QED
    BY <2>1, FS_EmptySet DEF PicturesAccounted
<1>4. BusyOnlyWhileStreaming
  BY DEF BusyOnlyWhileStreaming
<1>5. QED
  BY <1>1, <1>2, <1>3, <1>4 DEF CameraInv

(* The camera's own steps: a buffer moves to its task, then to the queue.  *)
LEMMA CameraTask ==
  ASSUME CameraInv, Capture \/ Enqueue \/ registerCameraRoutes \/ UNCHANGED vars
  PROVE  CameraInv'
<1> USE DEF CameraInv
<1>1. UNCHANGED <<latest, handler, streams, heap>>
  BY DEF Capture, Enqueue, registerCameraRoutes, vars, frames
<1>2. InHand' /\ PicturesAccounted' /\ BusyOnlyWhileStreaming'
  BY <1>1 DEF InHand, PicturesAccounted, BusyOnlyWhileStreaming, handler, streams
<1>3. CASE Capture
  <2>1. Typed'
    BY <1>1, <1>3 DEF Typed, Capture, handler, streams
  <2>2. FramesAccounted'
    BY <1>1, <1>3, NoneAssumption DEF FramesAccounted, Capture, Queued, handler, Typed
  <2>3. QED
    BY <1>2, <2>1, <2>2
<1>4. CASE Enqueue
  <2>1. captured \in Buffers /\ cam_queue \in Seq(Buffers)
    BY <1>4 DEF Typed, Enqueue
  <2>2. Queued' = Queued \cup {captured}
    BY <1>4, <2>1, FrameAppended DEF Enqueue, Queued
  <2>3. Typed'
    BY <1>1, <1>4, <2>1, BoundsAssumption DEF Typed, Enqueue, handler, streams
  <2>4. \A i, j \in DOMAIN cam_queue' : cam_queue'[i] = cam_queue'[j] => i = j
    <3>1. \A i \in DOMAIN cam_queue : cam_queue[i] # captured
      BY <2>1 DEF FramesAccounted, Queued
    <3>2. cam_queue' = Append(cam_queue, captured)
      BY <1>4 DEF Enqueue
    <3>3. \A i, j \in DOMAIN cam_queue : cam_queue[i] = cam_queue[j] => i = j
      BY DEF FramesAccounted
    <3>4. QED
      BY <2>1, <3>1, <3>2, <3>3
  <2>5. FramesAccounted'
    BY <1>1, <1>4, <2>1, <2>2, <2>4, NoneAssumption DEF FramesAccounted, Enqueue, handler
  <2>6. QED
    BY <1>2, <2>3, <2>5
<1>5. CASE registerCameraRoutes \/ UNCHANGED vars
  <2>1. UNCHANGED frames /\ registered' \in BOOLEAN
    BY <1>5 DEF registerCameraRoutes, vars, Typed
  <2>2. Typed' /\ FramesAccounted'
    BY <1>1, <2>1 DEF Typed, FramesAccounted, Queued, frames, handler, streams
  <2>3. QED
    BY <1>2, <2>2
<1>6. QED
  BY <1>3, <1>4, <1>5

(* Requests, and the start and the end of a stream.                        *)
LEMMA Requests ==
  ASSUME CameraInv,
         Snapshot \/ \E c \in Streams : OpenStream(c) \/ Callback(c) \/ Disconnect(c)
  PROVE  CameraInv'
<1> USE DEF CameraInv
<1>1. pc = "idle" /\ serving = None /\ UNCHANGED frames
  BY DEF InHand, Snapshot, OpenStream, Callback, Disconnect
<1>2. FramesAccounted'
  BY <1>1 DEF FramesAccounted, Queued, frames
<1>3. CASE Snapshot
  <2>1. Typed' /\ InHand'
    BY <1>1, <1>3 DEF Typed, InHand, Snapshot, frames, streams, PCs
  <2>2. PicturesAccounted' /\ BusyOnlyWhileStreaming'
    BY <1>1, <1>3 DEF PicturesAccounted, BusyOnlyWhileStreaming, Snapshot, streams
  <2>3. QED
    BY <1>2, <2>1, <2>2
<1>4. ASSUME NEW c \in Streams, OpenStream(c) PROVE CameraInv'
  <2>1. Typed' /\ InHand'
    BY <1>1, <1>4 DEF Typed, InHand, OpenStream, frames, handler
  <2>2. PicturesAccounted'
    BY <1>1, <1>4 DEF PicturesAccounted, OpenStream, handler
  <2>3. BusyOnlyWhileStreaming'
    BY <1>4 DEF BusyOnlyWhileStreaming, OpenStream, Typed
  <2>4. QED
    BY <1>2, <2>1, <2>2, <2>3
<1>5. ASSUME NEW c \in Streams, Callback(c) PROVE CameraInv'
  <2>1. pc' \in {"idle", "drain", "piece"} /\ UNCHANGED <<left, heap, streaming_active_>>
    BY <1>1, <1>5 DEF Callback, handler
  <2>2. Typed'
    BY <1>1, <1>5 DEF Typed, Callback, frames, handler, PCs
  <2>3. InHand'
    BY <1>1, <1>5, NoneAssumption DEF InHand, Callback, frames, handler, Typed
  <2>4. PicturesAccounted'
    BY <1>1, <2>1 DEF PicturesAccounted
  <2>5. BusyOnlyWhileStreaming'
    BY <1>5 DEF BusyOnlyWhileStreaming, Callback, Typed
  <2>6. QED
    BY <1>2, <2>2, <2>3, <2>4, <2>5
<1>6. ASSUME NEW c \in Streams, Disconnect(c) PROVE CameraInv'
  <2>1. Typed' /\ InHand'
    <3>1. stream' \in [Streams -> {"closed", "open", "ended"}] /\ left' \in [Streams -> 0..Pieces]
      BY <1>6, BoundsAssumption DEF Typed, Disconnect
    <3>2. streaming_active_' = FALSE /\ UNCHANGED <<pc, serving, registered>>
      BY <1>6 DEF Disconnect, Cleared, handler
    <3>3. QED
      BY <1>1, <3>1, <3>2 DEF Typed, InHand, frames
  <2>2. Half(left') = Half(left) \ {c}
    BY <1>6 DEF Disconnect, Typed, Half
  <2>3. heap = Cardinality(Half(left))
    BY <1>1, HalfFinite DEF PicturesAccounted, Half
  <2>4. heap' = Cardinality(Half(left'))
    <3>1. CASE left[c] > 0
      <4>1. c \in Half(left)
        BY <3>1 DEF Half
      <4>2. QED
        BY <1>6, <2>2, <2>3, <3>1, <4>1, HalfRemoved DEF Disconnect
    <3>2. CASE ~(left[c] > 0)
      BY <1>6, <2>2, <2>3, <3>2 DEF Disconnect, Half
    <3>3. QED
      BY <3>1, <3>2
  <2>5. PicturesAccounted'
    BY <1>1, <1>6, <2>4, HalfFinite DEF PicturesAccounted, Disconnect, handler, Half
  <2>6. BusyOnlyWhileStreaming'
    BY <1>6 DEF BusyOnlyWhileStreaming, Disconnect, Cleared
  <2>7. QED
    BY <1>2, <2>1, <2>5, <2>6
<1>7. QED
  BY <1>3, <1>4, <1>5, <1>6

(* A buffer leaves the queue for the hand of the task; what it had in hand *)
(* goes back to the driver.                                                *)
LEMMA Received ==
  ASSUME CameraInv, Receive, pc' # "idle"
  PROVE  FramesAccounted' /\ latest' \in Buffers
         /\ cam_queue' \in Seq(Buffers) /\ Len(cam_queue') <= QueueLen
         /\ unfilled' \subseteq Buffers
<1> USE DEF CameraInv
<1>1. /\ cam_queue \in Seq(Buffers) /\ cam_queue # <<>>
      /\ \A i, j \in DOMAIN cam_queue : cam_queue[i] = cam_queue[j] => i = j
  BY DEF Typed, Receive, FramesAccounted
<1>2. /\ latest' = Head(cam_queue)
      /\ cam_queue' = Tail(cam_queue) /\ captured' = captured
      /\ unfilled' = unfilled \cup ({latest} \ {None})
  BY DEF Receive, Chosen, Returned
<1>3. /\ Head(cam_queue) \in Buffers
      /\ Tail(cam_queue) \in Seq(Buffers) /\ Len(Tail(cam_queue)) = Len(cam_queue) - 1
      /\ Head(cam_queue) \in {cam_queue[i] : i \in DOMAIN cam_queue}
      /\ {Tail(cam_queue)[i] : i \in DOMAIN Tail(cam_queue)}
           = {cam_queue[i] : i \in DOMAIN cam_queue} \ {Head(cam_queue)}
      /\ \A i, j \in DOMAIN Tail(cam_queue) :
           Tail(cam_queue)[i] = Tail(cam_queue)[j] => i = j
  BY <1>1, TakenOut
<1>4. Head(cam_queue) \in Queued /\ Queued' = Queued \ {Head(cam_queue)}
  BY <1>2, <1>3 DEF Queued
<1>5. \A i, j \in DOMAIN cam_queue' : cam_queue'[i] = cam_queue'[j] => i = j
  BY <1>2, <1>3
<1>6. FramesAccounted'
  BY <1>2, <1>3, <1>4, <1>5, NoneAssumption DEF FramesAccounted, Typed
<1>7. Len(cam_queue') <= QueueLen
  BY <1>1, <1>2, <1>3, BoundsAssumption DEF Typed
<1>8. QED
  BY <1>2, <1>3, <1>6, <1>7 DEF Typed

(* Emptying the queue, then waiting for a frame.                           *)
LEMMA DrainAndWait ==
  ASSUME CameraInv, Drain \/ Wait
  PROVE  CameraInv'
<1> USE DEF CameraInv
<1>1. UNCHANGED <<captured, streams, heap, registered>>
  BY DEF Drain, Wait, Receive, frames
<1>2. BusyOnlyWhileStreaming'
  BY <1>1 DEF BusyOnlyWhileStreaming, streams
<1>3. PicturesAccounted'
  <2>1. pc \in {"drain", "wait"} /\ pc' \in {"drain", "wait", "convert", "idle"}
    BY DEF Drain, Wait, handler, HandlerEnds
  <2>2. QED
    BY <1>1, <2>1 DEF PicturesAccounted, streams
<1>4. CASE Receive
  <2>1. \/ pc = "drain" /\ pc' = "drain"
        \/ pc = "wait" /\ pc' = "convert"
    BY <1>4 DEF Drain, Wait, Receive, handler, HandlerEnds
  <2>2. UNCHANGED serving
    BY <1>4 DEF Drain, Wait, Receive, handler
  <2>3. FramesAccounted' /\ latest' \in Buffers
    BY <1>4, <2>1, Received
  <2>4. Typed'
    BY <1>1, <1>4, <2>1, <2>2, Received DEF Typed, streams, PCs
  <2>5. InHand'
    BY <1>1, <2>1, <2>2, <2>3, NoneAssumption DEF InHand, streams
  <2>6. QED
    BY <1>2, <1>3, <2>3, <2>4, <2>5
<1>5. CASE ~Receive
  <2>1. UNCHANGED frames
    BY <1>5 DEF Drain, Wait
  <2>2. \/ /\ pc = "drain" /\ UNCHANGED serving
           /\ pc' = IF latest = None THEN "wait" ELSE "convert"
        \/ pc = "wait" /\ pc' = "idle" /\ serving' = None
    BY <1>5 DEF Drain, Wait, HandlerEnds
  <2>3. Typed'
    BY <1>1, <2>1, <2>2 DEF Typed, frames, streams, PCs
  <2>4. InHand'
    BY <1>1, <2>1, <2>2 DEF InHand, frames, streams
  <2>5. FramesAccounted'
    BY <2>1, <2>2 DEF FramesAccounted, Queued, frames, InHand
  <2>6. QED
    BY <1>2, <1>3, <2>3, <2>4, <2>5
<1>6. QED
  BY <1>4, <1>5

(* The buffer in hand goes back to the driver.                             *)
LEMMA GivenBack ==
  ASSUME CameraInv, unfilled' = Returned, latest' = None,
         UNCHANGED <<captured, cam_queue>>
  PROVE  FramesAccounted' /\ unfilled' \subseteq Buffers
<1> USE DEF CameraInv
<1>1. unfilled' = unfilled \cup ({latest} \ {None}) /\ Queued' = Queued
  BY DEF Returned, Queued
<1>2. FramesAccounted'
  BY <1>1, NoneAssumption DEF FramesAccounted, Typed
<1>3. QED
  BY <1>1, <1>2 DEF Typed

LEMMA ConvertAndReturn ==
  ASSUME CameraInv, Convert \/ ReturnFrame
  PROVE  CameraInv'
<1> USE DEF CameraInv
<1>1. CASE ReturnFrame
  <2>1. FramesAccounted' /\ unfilled' \subseteq Buffers
    BY <1>1, GivenBack DEF ReturnFrame
  <2>2. UNCHANGED <<captured, cam_queue, serving, streams, heap, registered>>
    BY <1>1 DEF ReturnFrame
  <2>3. \/ serving # None /\ pc = "return" /\ pc' = "piece"
        \/ serving = None /\ pc = "return" /\ pc' = "answer"
        \/ serving = None /\ pc = "returnjpeg" /\ pc' = "answerjpeg"
    BY <1>1 DEF ReturnFrame, InHand
  <2>4. latest' = None
    BY <1>1 DEF ReturnFrame
  <2>5. Typed' /\ InHand'
    BY <2>1, <2>2, <2>3, <2>4 DEF Typed, InHand, streams, PCs
  <2>6. PicturesAccounted' /\ BusyOnlyWhileStreaming'
    BY <2>2, <2>3 DEF PicturesAccounted, BusyOnlyWhileStreaming, streams
  <2>7. QED
    BY <2>1, <2>5, <2>6
<1>2. CASE pc = "convert" /\ GiveUpFrame
  <2>1. FramesAccounted' /\ unfilled' \subseteq Buffers
    BY <1>2, GivenBack DEF GiveUpFrame
  <2>2. /\ UNCHANGED <<captured, cam_queue, streams, heap, registered>>
        /\ latest' = None /\ pc' = "idle" /\ serving' = None
    BY <1>2 DEF GiveUpFrame, HandlerEnds
  <2>3. Typed' /\ InHand'
    BY <2>1, <2>2 DEF Typed, InHand, streams, PCs
  <2>4. PicturesAccounted' /\ BusyOnlyWhileStreaming'
    BY <1>2, <2>2 DEF PicturesAccounted, BusyOnlyWhileStreaming, streams
  <2>5. QED
    BY <2>1, <2>3, <2>4
<1>3. CASE Convert /\ ~GiveUpFrame
  <2>1. pc = "convert" /\ UNCHANGED <<frames, registered, serving, stream, streaming_active_>>
    BY <1>3 DEF Convert
  <2>2. FramesAccounted' /\ BusyOnlyWhileStreaming'
    <3>1. pc' # "idle"
      BY <1>3 DEF Convert
    <3>2. QED
      BY <2>1, <3>1 DEF FramesAccounted, BusyOnlyWhileStreaming, Queued, frames
  <2>3. CASE serving = None
    <3>1. /\ UNCHANGED left
          /\ \/ pc' = "return" /\ heap' = heap + 1
             \/ pc' = "returnjpeg" /\ heap' = heap
      BY <1>3, <2>3 DEF Convert
    <3>2. Typed' /\ InHand'
      BY <2>1, <2>3, <3>1 DEF Typed, InHand, frames, PCs
    <3>3. heap = Cardinality(Half(left))
      <4>1. /\ heap = Cardinality(Half(left))
                      + (IF serving = None /\ pc \in {"return", "answer"} THEN 1 ELSE 0)
            /\ Cardinality(Half(left)) \in Nat
        BY HalfFinite DEF PicturesAccounted, Half
      <4>2. QED
        BY <2>1, <4>1
    <3>4. PicturesAccounted'
      <4>1. serving' = serving /\ Cardinality(Half(left)) \in Nat
        BY <2>1, HalfFinite
      <4>2. heap' = Cardinality(Half(left')) + (IF pc' = "return" THEN 1 ELSE 0)
        BY <3>1, <3>3, <4>1
      <4>3. QED
        BY <2>3, <3>1, <4>1, <4>2 DEF PicturesAccounted, Half
    <3>5. QED
      BY <2>2, <3>2, <3>4
  <2>4. CASE serving # None
    <3>1. PICK n \in 1..Pieces : left' = [left EXCEPT ![serving] = n]
      BY <1>3, <2>4 DEF Convert
    <3>2. serving \in Streams /\ left[serving] = 0
      BY <2>1, <2>4 DEF InHand, Typed
    <3>3. pc' = "return" /\ heap' = heap + 1
      BY <1>3, <2>4 DEF Convert
    <3>4. left' \in [Streams -> 0..Pieces] /\ left'[serving] > 0
      BY <3>1, <3>2, BoundsAssumption DEF Typed
    <3>5. Typed' /\ InHand'
      BY <2>1, <3>3, <3>4 DEF Typed, InHand, frames, PCs
    <3>6. Half(left') = Half(left) \cup {serving} /\ serving \notin Half(left)
      BY <3>1, <3>2 DEF Half, Typed
    <3>7. heap = Cardinality(Half(left))
      <4>1. /\ heap = Cardinality(Half(left))
                      + (IF serving = None /\ pc \in {"return", "answer"} THEN 1 ELSE 0)
            /\ Cardinality(Half(left)) \in Nat
        BY HalfFinite DEF PicturesAccounted, Half
      <4>2. QED
        BY <2>1, <4>1
    <3>8. heap' = Cardinality(Half(left'))
      BY <3>2, <3>3, <3>6, <3>7, HalfAdded
    <3>9. PicturesAccounted'
      <4>1. serving' = serving /\ Cardinality(Half(left')) \in Nat
        BY <2>1, HalfFinite
      <4>2. QED
        BY <2>4, <3>8, <4>1 DEF PicturesAccounted, Half
    <3>10. QED
      BY <2>2, <3>5, <3>9
  <2>5. QED
    BY <2>3, <2>4
<1>4. QED
  BY <1>1, <1>2, <1>3 DEF Convert

LEMMA AnswerAndSend ==
  ASSUME CameraInv, Answer \/ SendPiece
  PROVE  CameraInv'
<1> USE DEF CameraInv
<1>1. /\ UNCHANGED <<frames, stream, streaming_active_, registered>>
      /\ pc' = "idle" /\ serving' = None /\ latest = None
  BY DEF Answer, SendPiece, HandlerEnds, streams, InHand
<1>2. FramesAccounted' /\ BusyOnlyWhileStreaming'
  BY <1>1 DEF FramesAccounted, BusyOnlyWhileStreaming, Queued, frames
<1>3. InHand'
  BY <1>1 DEF InHand, frames
<1>4. CASE Answer
  <2>1. UNCHANGED left /\ serving = None /\ pc \in {"answer", "answerjpeg"}
    BY <1>4 DEF Answer, InHand, streams
  <2>2. Typed'
    BY <1>1, <2>1 DEF Typed, frames, PCs
  <2>3. Cardinality(Half(left)) \in Nat
    BY HalfFinite
  <2>4. heap = Cardinality(Half(left)) + (IF pc = "answer" THEN 1 ELSE 0)
    BY <2>1 DEF PicturesAccounted, Half
  <2>5. heap' = Cardinality(Half(left))
    BY <1>4, <2>3, <2>4 DEF Answer
  <2>6. PicturesAccounted'
    BY <1>1, <2>1, <2>3, <2>5 DEF PicturesAccounted, Half
  <2>7. QED
    BY <1>2, <1>3, <2>2, <2>6
<1>5. CASE SendPiece
  <2>1. serving \in Streams /\ left[serving] \in 1..Pieces
    BY <1>5, BoundsAssumption DEF SendPiece, InHand, Typed
  <2>2. left' = [left EXCEPT ![serving] = left[serving] - 1]
    BY <1>5 DEF SendPiece
  <2>3. left' \in [Streams -> 0..Pieces]
    BY <2>1, <2>2, BoundsAssumption DEF Typed
  <2>4. Typed'
    BY <1>1, <2>3 DEF Typed, frames, PCs
  <2>5. heap = Cardinality(Half(left))
    <3>1. pc = "piece" /\ Cardinality(Half(left)) \in Nat
      BY <1>5, HalfFinite DEF SendPiece
    <3>2. QED
      BY <3>1 DEF PicturesAccounted, Half
  <2>6. heap' = Cardinality(Half(left'))
    <3>1. CASE left[serving] = 1
      <4>1. Half(left') = Half(left) \ {serving} /\ serving \in Half(left)
        BY <2>1, <2>2, <3>1 DEF Half, Typed
      <4>2. QED
        BY <1>5, <2>1, <2>5, <3>1, <4>1, HalfRemoved DEF SendPiece
    <3>2. CASE left[serving] # 1
      <4>1. Half(left') = Half(left)
        BY <2>1, <2>2, <3>2, BoundsAssumption DEF Half, Typed
      <4>2. QED
        BY <1>5, <2>5, <3>2, <4>1 DEF SendPiece
    <3>3. QED
      BY <3>1, <3>2
  <2>7. PicturesAccounted'
    BY <1>1, <2>6, HalfFinite DEF PicturesAccounted, Half
  <2>8. QED
    BY <1>2, <1>3, <2>4, <2>7
<1>6. QED
  BY <1>4, <1>5

-----------------------------------------------------------------------------

LEMMA CameraInvHolds == Spec => []CameraInv
<1>1. CameraInv /\ [Next]_vars => CameraInv'
  BY CameraTask, Requests, DrainAndWait, ConvertAndReturn, AnswerAndSend
  DEF Next, HandlerStep
<1>2. QED
  BY CameraInit, <1>1, PTL DEF Spec

(* Every variable has its type, and the heap holds at most one picture per *)
(* connection and that of a snapshot.                                      *)
THEOREM TypeCorrect == Spec => []TypeOK
<1>1. CameraInv => TypeOK
  <2>1. CameraInv => heap \in 0..(Cardinality(Streams) + 1)
    BY HalfFinite DEF CameraInv, PicturesAccounted, Half
  <2>2. QED
    BY <2>1 DEF CameraInv, Typed, TypeOK, PCs
<1>2. QED
  BY CameraInvHolds, <1>1, PTL

(* Each esp_camera_fb_return() matches one buffer that was received.       *)
THEOREM FramesAccountedHolds == Spec => []FramesAccounted
BY CameraInvHolds, PTL DEF CameraInv

(* Each free(jpg_buf) matches one allocation, of a connected client.       *)
THEOREM PicturesAccountedHolds == Spec => []PicturesAccounted
BY CameraInvHolds, PTL DEF CameraInv

(* streaming_active_ is down when the last stream has left.                *)
THEOREM BusyOnlyWhileStreamingHolds == Spec => []BusyOnlyWhileStreaming
BY CameraInvHolds, PTL DEF CameraInv

-----------------------------------------------------------------------------
(* The scripts.                                                            *)

Saves == {"open", "print", "close"}

(* No two requests are in a save at once.                                  *)
OneSave == \A c, d \in Clients : step[c] \in Saves /\ step[d] \in Saves => c = d

(* There is no string before its body; a save has a name to save to and    *)
(* content, and while the file is not as any answer said nobody is owed it.*)
SaveReady ==
  \A c \in Clients :
    /\ step[c] \in {"idle", "first"} => tempObject[c] = NoBody
    /\ step[c] \in Saves => name[c] \in ValidNames /\ tempObject[c] # NoBody
    /\ step[c] \in {"print", "close"} => owed[name[c]] = Unknown

(* Without a fault so far, the string and what is still to come make up    *)
(* the body; from the end of the body to print() the string is the body,   *)
(* and from there to the answer the file is.                               *)
AsPosted(c) ==
  /\ step[c] = "first" => rest[c] = posted[c]
  /\ step[c] = "body" =>
       IF tempObject[c] = NoBody THEN rest[c] = <<>> /\ posted[c] = <<>>
       ELSE tempObject[c] \o rest[c] = posted[c]
  /\ step[c] \in {"open", "print"} => tempObject[c] = posted[c]
  /\ step[c] = "close" => files[name[c]] = posted[c] /\ CString(posted[c]) = posted[c]

Gathered == \A c \in Clients : posted[c] # Unknown => AsPosted(c)

(* A file that is owed is as it is owed, and no NUL cuts it.               *)
Kept ==
  \A n \in ValidNames :
    /\ owed[n] \in Bodies => files[n] = owed[n] /\ CString(files[n]) = files[n]
    /\ owed[n] = Absent => files[n] = Absent

ScriptInv == ScriptsTypeOK /\ OneSave /\ SaveReady /\ Gathered /\ Kept

LEMMA LeastExists ==
  ASSUME NEW T \in SUBSET Nat, T # {}
  PROVE  \E i \in T : \A j \in T : i <= j
<1>1. IsWellFoundedOn(OpToRel(<, Nat), Nat)
  BY NatLessThanWellFounded
<1>2. PICK i \in T : \A j \in T : <<j, i>> \notin OpToRel(<, Nat)
  BY <1>1, WFMin
<1>3. \A j \in T : <<j, i>> \in OpToRel(<, Nat) <=> j < i
  BY DEF OpToRel
<1>4. \A j \in T : ~(j < i)
  BY <1>2, <1>3
<1>5. QED
  BY <1>4

(* c_str() gives a prefix, and a prefix of it as long as the content is    *)
(* the content.                                                            *)
LEMMA CStringIsPrefix ==
  ASSUME NEW content \in Seq(Chunks)
  PROVE  /\ CString(content) \in Seq(Chunks)
         /\ \A n \in 0..Len(CString(content)) :
              /\ SubSeq(CString(content), 1, n) \in Seq(Chunks)
              /\ SubSeq(CString(content), 1, n) = content => CString(content) = content
<1> DEFINE nuls == {i \in DOMAIN content : content[i] \in NulChunks}
           least == CHOOSE i \in nuls : \A j \in nuls : i <= j
<1>1. Len(content) \in Nat /\ DOMAIN content = 1..Len(content)
  OBVIOUS
<1>2. CASE nuls = {}
  <2>1. CString(content) = content
    BY <1>2 DEF CString
  <2>2. QED
    BY <2>1
<1>3. CASE nuls # {}
  <2>1. nuls \in SUBSET Nat
    BY <1>1
  <2>2. least \in nuls
    BY <1>3, <2>1, LeastExists
  <2> DEFINE m == least - 1
  <2>3. m \in 0..(Len(content) - 1) /\ m \in Nat /\ m < Len(content)
    BY <1>1, <2>2
  <2>4. CString(content) = SubSeq(content, 1, m)
    BY <1>3 DEF CString
  <2> HIDE DEF m
  <2>5. CString(content) \in Seq(Chunks) /\ Len(CString(content)) = m
    BY <1>1, <2>3, <2>4
  <2>6. ASSUME NEW n \in 0..m
        PROVE  SubSeq(CString(content), 1, n) \in Seq(Chunks)
               /\ Len(SubSeq(CString(content), 1, n)) = n
    BY <2>3, <2>5
  <2>7. ASSUME NEW n \in 0..m
        PROVE  SubSeq(CString(content), 1, n) # content
    <3>1. Len(SubSeq(CString(content), 1, n)) = n
      BY <2>6
    <3>2. n <= m
      BY <2>3
    <3>3. n # Len(content)
      BY <2>3, <3>2
    <3>4. QED
      BY <3>1, <3>3
  <2>8. QED
    BY <2>5, <2>6, <2>7
<1>4. QED
  BY <1>2, <1>3


LEMMA ScriptsInitInv == ScriptsInit => ScriptInv
<1> SUFFICES ASSUME ScriptsInit PROVE ScriptInv
  OBVIOUS
<1> USE DEF ScriptsInit, AllIdle, NoNames, NoneLeft, NoBodies, NoLengths, NothingBefore, NothingPosted
<1>1. Absent # Unknown /\ Absent \notin Bodies /\ Unknown \notin Bodies
  BY MarksAssumption, BodiesAssumption
<1>2. ScriptsTypeOK
  BY NamesAssumption, BodyBoundsAssumption DEF ScriptsTypeOK, AnyName
<1>3. OneSave /\ SaveReady /\ Gathered /\ Kept
  BY <1>1 DEF OneSave, SaveReady, Gathered, AsPosted, Kept, Saves
<1>4. QED
  BY <1>2, <1>3 DEF ScriptInv

(* Taking a chunk over moves it from one part of the body to the other.    *)
LEMMA ChunkMoves ==
  ASSUME NEW S, NEW t \in Seq(S), NEW r \in Seq(S)
  PROVE  /\ t \o <<>> = t /\ <<>> \o r = r
         /\ r # <<>> => /\ Head(r) \in S /\ Tail(r) \in Seq(S)
                        /\ Append(t, Head(r)) \in Seq(S)
                        /\ Append(t, Head(r)) \o Tail(r) = t \o r
<1>1. t \o <<>> = t /\ <<>> \o r = r
  BY ConcatEmptySeq
<1>2. ASSUME r # <<>>
      PROVE  /\ Head(r) \in S /\ Tail(r) \in Seq(S) /\ Append(t, Head(r)) \in Seq(S)
             /\ Append(t, Head(r)) = t \o <<Head(r)>>
             /\ r = <<Head(r)>> \o Tail(r)
  BY <1>2, AppendIsConcat
<1>3. ASSUME r # <<>>
      PROVE  (t \o <<Head(r)>>) \o Tail(r) = t \o (<<Head(r)>> \o Tail(r))
  BY <1>2, <1>3, ConcatAssociative
<1>4. QED
  BY <1>1, <1>2, <1>3
LEMMA EndTyped ==
  ASSUME ScriptsTypeOK, NEW c \in Clients, EndRequest(c)
  PROVE  /\ step' \in [Clients -> {"idle", "first", "body", "open", "print", "close"}]
         /\ name' \in [Clients -> Names] /\ rest' \in [Clients -> Seq(Chunks)]
         /\ tempObject' \in [Clients -> Seq(Chunks) \cup {NoBody}]
         /\ length' \in [Clients -> 0..MaxBody]
         /\ before' \in [Clients -> Seq(Chunks) \cup {Absent}]
         /\ posted' \in [Clients -> Bodies \cup {Unknown}]
BY NamesAssumption, BodyBoundsAssumption DEF ScriptsTypeOK, EndRequest, AnyName

(* Each step keeps the types.                                              *)
LEMMA ScriptTypesStep == ScriptInv /\ [ScriptsNext]_scriptVars => ScriptsTypeOK'
<1> SUFFICES ASSUME ScriptInv, [ScriptsNext]_scriptVars PROVE ScriptsTypeOK'
  OBVIOUS
<1>1. ScriptsTypeOK /\ SaveReady
  BY DEF ScriptInv
<1>2. <<>> \in Seq(Chunks) /\ AnyName \in Names
  BY NamesAssumption DEF AnyName
<1> USE <1>1, <1>2, BodiesAssumption, BodyBoundsAssumption DEF ScriptsTypeOK, AnyName
<1>3. ASSUME NEW c \in Clients, NEW n \in Names, NEW body \in Bodies, Post(c, n, body)
      PROVE  ScriptsTypeOK'
  BY <1>3 DEF Post, Goto
<1>4. ASSUME NEW c \in Clients, NEW ok \in BOOLEAN, Allocate(c, ok)
      PROVE  ScriptsTypeOK'
  BY <1>4 DEF Allocate, Goto
<1>5. ASSUME NEW c \in Clients, NEW ok \in BOOLEAN, OpenFile(c, ok)
      PROVE  ScriptsTypeOK'
  <2>1. name[c] \in ValidNames /\ c \in Clients
    BY <1>5 DEF OpenFile, SaveReady, Saves
  <2>2. CASE ok
    BY <1>5, <2>1, <2>2 DEF OpenFile
  <2>3. CASE ~ok
    <3>1. EndRequest(c) /\ UNCHANGED <<files, owed, cuts>>
      BY <1>5, <2>3 DEF OpenFile
    <3>2. QED
      BY <3>1, EndTyped
  <2>4. QED
    BY <2>2, <2>3
<1>6. ASSUME NEW c \in Clients, Accumulate(c)
      PROVE  ScriptsTypeOK'
  <2> DEFINE chunk == Head(rest[c])
  <2>1. /\ chunk \in Chunks /\ Tail(rest[c]) \in Seq(Chunks) /\ SizeOf[chunk] \in Nat
        /\ tempObject[c] # NoBody => Append(tempObject[c], chunk) \in Seq(Chunks)
    BY <1>6, ChunksAssumption DEF Accumulate
  <2>2. rest' \in [Clients -> Seq(Chunks)] /\ posted' \in [Clients -> Bodies \cup {Unknown}]
    BY <1>6, <2>1 DEF Accumulate
  <2>3. CASE Fits(c, chunk)
    <3>1. tempObject[c] # NoBody /\ length[c] + SizeOf[chunk] \in 0..MaxBody
      BY <2>1, <2>3 DEF Fits
    <3>2. tempObject' = [tempObject EXCEPT ![c] = Append(tempObject[c], chunk)]
          /\ length' = [length EXCEPT ![c] = length[c] + SizeOf[chunk]]
      BY <1>6, <2>3 DEF Accumulate, Appended
    <3>3. tempObject' \in [Clients -> Seq(Chunks) \cup {NoBody}] /\ length' \in [Clients -> 0..MaxBody]
      BY <2>1, <3>1, <3>2
    <3>4. QED
      BY <1>6, <2>2, <3>3 DEF Accumulate
  <2>4. CASE ~Fits(c, chunk)
    BY <1>6, <2>2, <2>4 DEF Accumulate
  <2>5. QED
    BY <2>3, <2>4
<1>7. ASSUME NEW c \in Clients, GiveUp(c)
      PROVE  ScriptsTypeOK'
  BY <1>7, EndTyped DEF GiveUp
<1>8. ASSUME NEW c \in Clients, Save(c)
      PROVE  ScriptsTypeOK'
  <2>1. CASE name[c] \in ValidNames
    BY <1>8, <2>1 DEF Save
  <2>2. CASE name[c] \notin ValidNames
    <3>1. EndRequest(c) /\ UNCHANGED <<files, owed, cuts>>
      BY <1>8, <2>2 DEF Save
    <3>2. QED
      BY <3>1, EndTyped
  <2>3. QED
    BY <2>1, <2>2
<1>9. ASSUME NEW c \in Clients, Close(c)
      PROVE  ScriptsTypeOK'
  <2>1. name[c] \in ValidNames
    BY <1>9 DEF Close, SaveReady, Saves
  <2>2. owed' \in [ValidNames -> Bodies \cup {Absent, Unknown}]
    BY <1>9, <2>1 DEF Close
  <2>3. QED
    BY <1>9, <2>2, EndTyped DEF Close
<1>10. ASSUME NEW c \in Clients, WriteContent(c)
      PROVE  ScriptsTypeOK'
  <2>1. name[c] \in ValidNames /\ tempObject[c] \in Seq(Chunks)
    BY <1>10 DEF WriteContent, Goto, SaveReady, Saves
  <2>2. PICK n \in 0..Len(CString(tempObject[c])) :
          /\ files' = [files EXCEPT ![name[c]] = SubSeq(CString(tempObject[c]), 1, n)]
          /\ posted' = posted \/ posted' = [posted EXCEPT ![c] = Unknown]
    BY <1>10 DEF WriteContent
  <2>3. files' \in [ValidNames -> Seq(Chunks) \cup {Absent}]
    BY <2>1, <2>2, CStringIsPrefix
  <2>4. QED
    BY <1>10, <2>2, <2>3 DEF WriteContent, Goto
<1>11. ASSUME NEW n \in ValidNames, NEW ok \in BOOLEAN, Delete(n, ok)
       PROVE  ScriptsTypeOK'
  BY <1>11 DEF Delete
<1>12. CASE PowerCut
  <2>1. \A c \in Saving : c \in Clients /\ name[c] \in ValidNames
    BY DEF Saving, SaveReady, Saves
  <2>2. files' \in [ValidNames -> Seq(Chunks) \cup {Absent}]
    BY <1>12, <2>1 DEF PowerCut
  <2>3. QED
    BY <1>12, <2>2 DEF PowerCut, AllIdle, NoNames, NoneLeft, NoBodies, NoLengths,
                       NothingBefore, NothingPosted
<1>13. CASE UNCHANGED scriptVars
  BY <1>13 DEF scriptVars
<1>14. QED
  BY <1>3, <1>4, <1>5, <1>6, <1>7, <1>8, <1>9, <1>10, <1>11, <1>12, <1>13 DEF ScriptsNext
(* A request that ends leaves the others as they are.                      *)
LEMMA EndKeeps ==
  ASSUME ScriptInv, NEW c \in Clients, EndRequest(c), UNCHANGED <<files, owed>>
  PROVE  OneSave' /\ SaveReady' /\ Gathered' /\ Kept'
<1>1. /\ step'[c] = "idle" /\ posted'[c] = Unknown /\ tempObject'[c] = NoBody
      /\ \A d \in Clients \ {c} : /\ step'[d] = step[d] /\ name'[d] = name[d]
                                 /\ rest'[d] = rest[d] /\ posted'[d] = posted[d]
                                 /\ tempObject'[d] = tempObject[d]
  BY DEF ScriptInv, ScriptsTypeOK, EndRequest
<1>2. OneSave' /\ SaveReady'
  BY <1>1 DEF ScriptInv, OneSave, SaveReady, Saves
<1>3. Gathered'
  BY <1>1 DEF ScriptInv, Gathered, AsPosted
<1>4. Kept'
  BY DEF ScriptInv, Kept
<1>5. QED
  BY <1>2, <1>3, <1>4

(* Each step keeps the rest of the invariant.                              *)
LEMMA ScriptStepKeeps ==
  ScriptInv /\ [ScriptsNext]_scriptVars => OneSave' /\ SaveReady' /\ Gathered' /\ Kept'
<1> SUFFICES ASSUME ScriptInv, [ScriptsNext]_scriptVars
             PROVE  OneSave' /\ SaveReady' /\ Gathered' /\ Kept'
  OBVIOUS
<1>1. ScriptsTypeOK /\ OneSave /\ SaveReady /\ Gathered /\ Kept
  BY DEF ScriptInv
<1>2. Absent # Unknown /\ Absent \notin Bodies /\ Unknown \notin Bodies /\ NoBody \notin Bodies
      /\ <<>> \in Seq(Chunks) /\ NoBody # <<>>
  <2>1. <<>> \in Seq(Chunks)
    OBVIOUS
  <2>2. QED
    BY <2>1, MarksAssumption, BodiesAssumption
<1> USE <1>1, <1>2 DEF ScriptsTypeOK
<1>3. ASSUME NEW c \in Clients, NEW n \in Names, NEW body \in Bodies, Post(c, n, body)
      PROVE  OneSave' /\ SaveReady' /\ Gathered' /\ Kept'
  <2>1. /\ step'[c] = (IF body = <<>> THEN "body" ELSE "first") /\ step[c] = "idle"
        /\ rest'[c] = body /\ posted'[c] = body
        /\ \A d \in Clients \ {c} : /\ step'[d] = step[d] /\ name'[d] = name[d]
                                   /\ rest'[d] = rest[d] /\ posted'[d] = posted[d]
        /\ UNCHANGED <<files, tempObject, owed>>
    BY <1>3 DEF Post, Goto
  <2>2. tempObject[c] = NoBody /\ step'[c] \notin Saves
    BY <2>1 DEF SaveReady, Saves
  <2>3. OneSave' /\ SaveReady' /\ Kept'
    BY <2>1, <2>2 DEF OneSave, SaveReady, Kept, Saves
  <2>4. Gathered'
    <3>1. /\ step'[c] = "first" => rest'[c] = posted'[c]
          /\ step'[c] = "body" => rest'[c] = <<>> /\ posted'[c] = <<>>
          /\ step'[c] \notin Saves /\ tempObject'[c] = NoBody
      BY <2>1, <2>2
    <3>2. \A d \in Clients \ {c} : UNCHANGED <<step[d], name[d], rest[d], posted[d], tempObject[d], files[name[d]]>>
      BY <2>1
    <3>3. SUFFICES ASSUME NEW d \in Clients, (posted[d] # Unknown)'
                   PROVE  AsPosted(d)'
      BY DEF Gathered
    <3>4. CASE d = c
      BY <3>1, <3>4 DEF AsPosted, Saves
    <3>5. CASE d # c
      BY <3>2, <3>3, <3>5 DEF Gathered, AsPosted
    <3>6. QED
      BY <3>4, <3>5
  <2>5. QED
    BY <2>3, <2>4
<1>4. ASSUME NEW c \in Clients, NEW ok \in BOOLEAN, Allocate(c, ok)
      PROVE  OneSave' /\ SaveReady' /\ Gathered' /\ Kept'
  <2>1. /\ step[c] = "first" /\ step'[c] = "body"
        /\ tempObject'[c] = IF ok THEN <<>> ELSE NoBody
        /\ posted'[c] = IF ok THEN posted[c] ELSE Unknown
        /\ \A d \in Clients \ {c} : /\ step'[d] = step[d] /\ posted'[d] = posted[d]
                                   /\ tempObject'[d] = tempObject[d]
        /\ UNCHANGED <<files, name, rest, owed>>
    BY <1>4 DEF Allocate, Goto
  <2>2. <<>> \o rest[c] = rest[c]
    BY ChunkMoves
  <2>3. Gathered'
    BY <2>1, <2>2 DEF Gathered, AsPosted
  <2>4. QED
    BY <2>1, <2>3 DEF OneSave, SaveReady, Kept, Saves
<1>5. ASSUME NEW c \in Clients, Accumulate(c)
      PROVE  OneSave' /\ SaveReady' /\ Gathered' /\ Kept'
  <2> DEFINE chunk == Head(rest[c])
  <2>1. /\ step[c] = "body" /\ rest[c] # <<>>
        /\ rest'[c] = Tail(rest[c])
        /\ tempObject'[c] = IF Fits(c, chunk) THEN Append(tempObject[c], chunk) ELSE tempObject[c]
        /\ posted'[c] = IF Fits(c, chunk) THEN posted[c] ELSE Unknown
        /\ Fits(c, chunk) => tempObject[c] # NoBody
        /\ \A d \in Clients \ {c} : /\ rest'[d] = rest[d] /\ posted'[d] = posted[d]
                                   /\ tempObject'[d] = tempObject[d]
        /\ UNCHANGED <<files, step, name, owed>>
    BY <1>5 DEF Accumulate, Appended, Fits
  <2>2. Fits(c, chunk) => /\ Append(tempObject[c], chunk) \in Seq(Chunks)
                          /\ Append(tempObject[c], chunk) \o Tail(rest[c]) = tempObject[c] \o rest[c]
    BY <2>1, ChunkMoves
  <2>3. Gathered'
    <3>1. Fits(c, chunk) => Append(tempObject[c], chunk) # NoBody
      BY <2>2, MarksAssumption
    <3>2. posted'[c] # Unknown =>
            tempObject'[c] # NoBody /\ tempObject'[c] \o rest'[c] = posted'[c]
      BY <2>1, <2>2, <3>1 DEF Gathered, AsPosted
    <3>3. QED
      BY <2>1, <3>2 DEF Gathered, AsPosted
  <2>4. OneSave' /\ SaveReady' /\ Kept'
    BY <2>1 DEF OneSave, SaveReady, Kept, Saves
  <2>5. QED
    BY <2>3, <2>4
<1>6. ASSUME NEW c \in Clients, GiveUp(c)
      PROVE  OneSave' /\ SaveReady' /\ Gathered' /\ Kept'
  BY <1>6, EndKeeps DEF GiveUp
<1>7. ASSUME NEW c \in Clients, Save(c)
      PROVE  OneSave' /\ SaveReady' /\ Gathered' /\ Kept'
  <2>1. CASE name[c] \in ValidNames
    <3>1. /\ step[c] = "body" /\ step'[c] = "open" /\ rest[c] = <<>>
          /\ tempObject'[c] = IF tempObject[c] = NoBody THEN <<>> ELSE tempObject[c]
          /\ \A d \in Clients \ {c} : /\ step'[d] = step[d] /\ step[d] \notin Saves
                                     /\ tempObject'[d] = tempObject[d]
          /\ UNCHANGED <<files, name, rest, posted, owed>>
      BY <1>7, <2>1 DEF Save, HttpTaskFree, Saves
    <3>2. tempObject[c] # NoBody => tempObject[c] \o <<>> = tempObject[c]
      BY ChunkMoves
    <3>3. Gathered'
      BY <3>1, <3>2 DEF Gathered, AsPosted
    <3>4. OneSave' /\ SaveReady' /\ Kept'
      BY <2>1, <3>1 DEF OneSave, SaveReady, Kept, Saves
    <3>5. QED
      BY <3>3, <3>4
  <2>2. CASE name[c] \notin ValidNames
    BY <1>7, <2>2, EndKeeps DEF Save
  <2>3. QED
    BY <2>1, <2>2
<1>8. ASSUME NEW c \in Clients, NEW ok \in BOOLEAN, OpenFile(c, ok)
      PROVE  OneSave' /\ SaveReady' /\ Gathered' /\ Kept'
  <2>1. step[c] = "open" /\ name[c] \in ValidNames
        /\ \A d \in Clients \ {c} : step[d] \notin Saves
    BY <1>8 DEF OpenFile, OneSave, SaveReady, Saves
  <2>2. CASE ok
    <3>1. /\ step' = [step EXCEPT ![c] = "print"]
          /\ files' = [files EXCEPT ![name[c]] = <<>>]
          /\ owed' = [owed EXCEPT ![name[c]] = Unknown]
          /\ UNCHANGED <<name, rest, tempObject, posted>>
      BY <1>8, <2>2 DEF OpenFile
    <3>2. OneSave' /\ SaveReady' /\ Gathered'
      BY <2>1, <3>1 DEF OneSave, SaveReady, Gathered, AsPosted, Saves
    <3>3. Kept'
      BY <2>1, <3>1 DEF Kept
    <3>4. QED
      BY <3>2, <3>3
  <2>3. CASE ~ok
    BY <1>8, <2>3, EndKeeps DEF OpenFile
  <2>4. QED
    BY <2>2, <2>3
<1>9. ASSUME NEW c \in Clients, WriteContent(c)
      PROVE  OneSave' /\ SaveReady' /\ Gathered' /\ Kept'
  <2>1. /\ step[c] = "print" /\ step' = [step EXCEPT ![c] = "close"]
        /\ name[c] \in ValidNames /\ tempObject[c] \in Seq(Chunks) /\ owed[name[c]] = Unknown
        /\ \A d \in Clients \ {c} : step[d] \notin Saves
        /\ UNCHANGED <<name, rest, tempObject, owed>>
    BY <1>9 DEF WriteContent, Goto, OneSave, SaveReady, Saves
  <2>2. PICK n \in 0..Len(CString(tempObject[c])) :
          LET printed == SubSeq(CString(tempObject[c]), 1, n)
          IN  /\ files' = [files EXCEPT ![name[c]] = printed]
              /\ posted' = IF printed = tempObject[c] THEN posted
                           ELSE [posted EXCEPT ![c] = Unknown]
    BY <1>9 DEF WriteContent
  <2> DEFINE printed == SubSeq(CString(tempObject[c]), 1, n)
  <2>3. printed = tempObject[c] => CString(tempObject[c]) = tempObject[c]
    BY <2>1, CStringIsPrefix
  <2>4. /\ files' = [files EXCEPT ![name[c]] = printed]
        /\ posted' = IF printed = tempObject[c] THEN posted ELSE [posted EXCEPT ![c] = Unknown]
    BY <2>2
  <2> HIDE DEF printed
  <2>5. Gathered'
    <3>1. posted'[c] # Unknown => /\ tempObject[c] = posted[c] /\ posted'[c] = posted[c]
                                  /\ files'[name[c]] = posted[c] /\ CString(posted[c]) = posted[c]
      BY <2>1, <2>3, <2>4 DEF Gathered, AsPosted
    <3>2. \A d \in Clients \ {c} : posted'[d] = posted[d] /\ step'[d] = step[d]
      BY <2>1, <2>4
    <3>3. QED
      BY <2>1, <3>1, <3>2 DEF Gathered, AsPosted, Saves
  <2>6. Kept'
    BY <2>1, <2>4 DEF Kept
  <2>7. QED
    BY <2>1, <2>5, <2>6 DEF OneSave, SaveReady, Saves
<1>10. ASSUME NEW c \in Clients, Close(c)
       PROVE  OneSave' /\ SaveReady' /\ Gathered' /\ Kept'
  <2>1. /\ step[c] = "close" /\ name[c] \in ValidNames
        /\ \A d \in Clients \ {c} : step[d] \notin Saves
        /\ owed' = [owed EXCEPT ![name[c]] = posted[c]]
        /\ UNCHANGED files
    BY <1>10 DEF Close, OneSave, SaveReady, Saves
  <2>2. /\ step'[c] = "idle" /\ posted'[c] = Unknown /\ tempObject'[c] = NoBody
        /\ \A d \in Clients \ {c} : /\ step'[d] = step[d] /\ name'[d] = name[d]
                                   /\ rest'[d] = rest[d] /\ posted'[d] = posted[d]
                                   /\ tempObject'[d] = tempObject[d]
    BY <1>10 DEF Close, EndRequest
  <2>3. OneSave' /\ SaveReady' /\ Gathered'
    <3>1. \A d \in Clients : step'[d] \notin Saves
      BY <2>1, <2>2 DEF Saves
    <3>2. OneSave' /\ SaveReady'
      BY <2>2, <3>1 DEF OneSave, SaveReady, Saves
    <3>3. Gathered'
      BY <2>2, <3>1 DEF Gathered, AsPosted, Saves
    <3>4. QED
      BY <3>2, <3>3
  <2>4. posted[c] # Unknown => posted[c] \in Bodies /\ files[name[c]] = posted[c] /\ CString(posted[c]) = posted[c]
    BY <2>1 DEF Gathered, AsPosted
  <2>5. Kept'
    BY <2>1, <2>4 DEF Kept
  <2>6. QED
    BY <2>3, <2>5
<1>11. ASSUME NEW n \in ValidNames, NEW ok \in BOOLEAN, Delete(n, ok)
       PROVE  OneSave' /\ SaveReady' /\ Gathered' /\ Kept'
  <2>1. /\ files' = [files EXCEPT ![n] = Absent]
        /\ owed' = [owed EXCEPT ![n] = Absent]
        /\ UNCHANGED <<step, name, rest, tempObject, posted>>
        /\ \A c \in Clients : step[c] \notin Saves
    BY <1>11 DEF Delete, HttpTaskFree, Saves
  <2>2. OneSave' /\ SaveReady' /\ Gathered'
    BY <2>1 DEF OneSave, SaveReady, Gathered, AsPosted, Saves
  <2>3. Kept'
    BY <2>1 DEF Kept
  <2>4. QED
    BY <2>2, <2>3
<1>12. CASE PowerCut
  <2>1. \A c \in Clients : step'[c] = "idle" /\ tempObject'[c] = NoBody
    BY <1>12 DEF PowerCut, AllIdle, NoBodies
  <2>2. OneSave' /\ SaveReady' /\ Gathered'
    BY <2>1 DEF OneSave, SaveReady, Gathered, AsPosted, Saves
  <2>3. Kept'
    <3>1. CASE UNCHANGED files
      BY <1>12, <3>1 DEF PowerCut, Kept
    <3>2. CASE \E c \in Saving : \E content \in {files[name[c]], before[c], <<>>} :
                 files' = [files EXCEPT ![name[c]] = content]
      <4>1. PICK c \in Saving : \A n \in ValidNames : n # name[c] => files'[n] = files[n]
        BY <3>2
      <4>2. owed[name[c]] = Unknown /\ UNCHANGED owed
        BY <1>12 DEF PowerCut, Saving, SaveReady
      <4>3. QED
        BY <4>1, <4>2 DEF Kept
    <3>3. QED
      BY <1>12, <3>1, <3>2 DEF PowerCut
  <2>4. QED
    BY <2>2, <2>3
<1>13. CASE UNCHANGED scriptVars
  BY <1>13 DEF scriptVars, OneSave, SaveReady, Gathered, AsPosted, Kept
<1>14. QED
  BY <1>3, <1>4, <1>5, <1>6, <1>7, <1>8, <1>9, <1>10, <1>11, <1>12, <1>13 DEF ScriptsNext

(* ScriptInv holds of every reachable state of the scripts.                *)
LEMMA ScriptInvariant == ScriptsSpec => []ScriptInv
<1>1. ScriptInv /\ [ScriptsNext]_scriptVars => ScriptInv'
  BY ScriptTypesStep, ScriptStepKeeps DEF ScriptInv
<1>2. QED
  BY <1>1, ScriptsInitInv, PTL DEF ScriptsSpec

(* The scripts' variables have their types; no body exceeds its cap.       *)
THEOREM ScriptsTypeCorrect == ScriptsSpec => []ScriptsTypeOK
<1>1. ScriptInv => ScriptsTypeOK
  BY DEF ScriptInv
<1>2. QED
  BY <1>1, ScriptInvariant, PTL

(* What was answered as saved is served as posted, and a deleted script is *)
(* gone, through other posts, clients that give up and power cuts.         *)
THEOREM ServedAsPostedHolds == ScriptsSpec => []ServedAsPosted
<1>1. ScriptInv => ServedAsPosted
  <2>1. Absent \notin Bodies
    BY MarksAssumption, BodiesAssumption
  <2>2. QED
    BY <2>1 DEF ScriptInv, Kept, ServedAsPosted, scriptExists, getScript, listScripts
<1>2. QED
  BY <1>1, ScriptInvariant, PTL
=============================================================================
