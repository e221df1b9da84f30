------------------------------- MODULE Camera -------------------------------
(***************************************************************************)
(* Camera frames on their way to HTTP clients.  The driver fills one of a  *)
(* few buffers, its task puts the buffer in a queue; the HTTP task takes   *)
(* it out for a snapshot or for one of the streams, converts it, gives the *)
(* buffer back and sends the copy.  The two tasks interleave between any   *)
(* two of these steps; the handlers of the HTTP task do not interrupt one  *)
(* another.  A picture is its buffer; what it shows is left out.           *)
(***************************************************************************)
EXTENDS Naturals, Sequences, FiniteSets

CONSTANTS
  Buffers,   \* the frame buffers of the driver
  Streams,   \* connections that ask for /cam/stream
  QueueLen,  \* length of the queue
  Pieces,    \* bound: callbacks that the sending of a picture takes
  None       \* no buffer, no connection

ASSUME NoneAssumption == None \notin Buffers \cup Streams
ASSUME StreamsAssumption == IsFiniteSet(Streams)
ASSUME BoundsAssumption == QueueLen \in Nat \ {0} /\ Pieces \in Nat \ {0}

VARIABLES
  unfilled,  \* buffers the driver may fill
  captured,  \* the buffer the camera task is about to queue
  cam_queue, \* the queue
  latest,    \* the buffer that the HTTP task works on
  registered, \* the two routes exist
  pc,        \* where the HTTP task is
  serving,   \* the stream it serves; None: a snapshot
  stream,    \* per stream: closed, open, or ended by the callback's 0
  left,      \* per stream: pieces of jpg_buf not yet sent; 0: no jpg_buf
  heap,      \* pictures allocated and not freed
  streaming_active_

frames == <<unfilled, captured, cam_queue, latest>>
handler == <<pc, serving>>
streams == <<stream, left, streaming_active_>>
vars == <<frames, handler, streams, heap, registered>>

Init ==
  /\ unfilled = Buffers /\ captured = None /\ cam_queue = <<>>
  /\ latest = None
  /\ registered = FALSE
  /\ pc = "idle" /\ serving = None
  /\ stream = [c \in Streams |-> "closed"] /\ left = [c \in Streams |-> 0]
  /\ heap = 0
  /\ streaming_active_ = FALSE

-----------------------------------------------------------------------------
(* The driver and its task.                                                *)

Capture ==
  /\ captured = None
  /\ \E b \in unfilled : captured' = b /\ unfilled' = unfilled \ {b}
  /\ UNCHANGED <<cam_queue, latest, handler, streams, heap, registered>>

Enqueue ==
  /\ captured # None /\ Len(cam_queue) < QueueLen
  /\ cam_queue' = Append(cam_queue, captured) /\ captured' = None
  /\ UNCHANGED <<unfilled, latest, handler, streams, heap, registered>>

(* xtask_web_server() starts the camera first, then registers the routes.  *)
registerCameraRoutes ==
  /\ ~registered /\ registered' = TRUE
  /\ UNCHANGED <<frames, handler, streams, heap>>

-----------------------------------------------------------------------------
(* Requests: refused with 404 before the routes exist.                     *)

(* /cam/snapshot: 503 while a stream is active.                            *)
Snapshot ==
  /\ pc = "idle" /\ registered /\ ~streaming_active_
  /\ pc' = "drain" /\ serving' = None
  /\ UNCHANGED <<frames, streams, heap, registered>>

(* /cam/stream: there may be several.                                      *)
OpenStream(c) ==
  /\ pc = "idle" /\ registered /\ stream[c] = "closed"
  /\ stream' = [stream EXCEPT ![c] = "open"]
  /\ streaming_active_' = TRUE
  /\ UNCHANGED <<frames, handler, left, heap, registered>>

(* The chunked-response callback: the end, the next piece, or a new frame. *)
Callback(c) ==
  /\ pc = "idle" /\ stream[c] = "open"
  /\ \/ /\ ~streaming_active_
        /\ stream' = [stream EXCEPT ![c] = "ended"] /\ UNCHANGED handler
     \/ /\ streaming_active_ /\ serving' = c
        /\ pc' = IF left[c] = 0 THEN "drain" ELSE "piece"
        /\ UNCHANGED stream
  /\ UNCHANGED <<frames, left, heap, registered, streaming_active_>>

(* Mutant of Cleared: the flag stays up when a picture is half sent.       *)
ClearedUnlessSending(c) == IF left[c] > 0 THEN streaming_active_ ELSE FALSE

(* Not that of this stream alone: the flag ends the others too.            *)
Cleared(c) == FALSE

(* Mutant of Disconnect: jpg_buf is not freed.                             *)
DisconnectLeaking(c) ==
  /\ pc = "idle" /\ stream[c] # "closed"
  /\ streaming_active_' = Cleared(c)
  /\ stream' = [stream EXCEPT ![c] = "closed"] /\ left' = [left EXCEPT ![c] = 0]
  /\ UNCHANGED <<frames, handler, heap, registered>>

(* onDisconnect(), then ~StreamState().                                    *)
Disconnect(c) ==
  /\ pc = "idle" /\ stream[c] # "closed"
  /\ streaming_active_' = Cleared(c)
  /\ stream' = [stream EXCEPT ![c] = "closed"] /\ left' = [left EXCEPT ![c] = 0]
  /\ heap' = IF left[c] > 0 THEN heap - 1 ELSE heap
  /\ UNCHANGED <<frames, handler, registered>>

-----------------------------------------------------------------------------
(* The steps that snapshots and streams share.                             *)

(* esp_camera_fb_return(latest).                                           *)
Returned == IF latest = None THEN unfilled ELSE unfilled \cup {latest}

HandlerEnds == pc' = "idle" /\ serving' = None

(* Of two frames the later is kept.                                        *)
Chosen(fb) == latest' = fb /\ unfilled' = Returned

Receive ==
  /\ cam_queue # <<>>
  /\ Chosen(Head(cam_queue))
  /\ cam_queue' = Tail(cam_queue)
  /\ UNCHANGED <<captured, streams, heap, registered>>

(* Mutant of Drain: if instead of while, one frame is taken.               *)
DrainOnce ==
  /\ pc = "drain"
  /\ \/ Receive /\ pc' = "convert" /\ UNCHANGED serving
     \/ /\ cam_queue = <<>>
        /\ pc' = "wait"
        /\ UNCHANGED <<frames, streams, heap, registered, serving>>

Drain ==
  /\ pc = "drain"
  /\ \/ Receive /\ UNCHANGED handler
     \/ /\ cam_queue = <<>>
        /\ pc' = IF latest = None THEN "wait" ELSE "convert"
        /\ UNCHANGED <<frames, streams, heap, registered, serving>>

(* Up to 100 or 150 ms; then 503 or RESPONSE_TRY_AGAIN.                    *)
Wait ==
  /\ pc = "wait"
  /\ \/ Receive /\ pc' = "convert" /\ UNCHANGED serving
     \/ /\ cam_queue = <<>> /\ HandlerEnds
        /\ UNCHANGED <<frames, streams, heap, registered>>

(* Mutant of GiveUpFrame: it is forgotten instead.                         *)
ForgetFrame ==
  /\ latest' = None /\ HandlerEnds
  /\ UNCHANGED <<unfilled, captured, cam_queue, streams, heap, registered>>

(* An empty frame, no memory, or a failed conversion: the buffer goes back *)
(* and the client gets 503, or another try.                                *)
GiveUpFrame ==
  /\ unfilled' = Returned /\ latest' = None /\ HandlerEnds
  /\ UNCHANGED <<captured, cam_queue, streams, heap, registered>>

(* A picture of its own is allocated; but a snapshot of a frame that looks *)
(* like a JPEG sends the buffer of the driver.                             *)
Convert ==
  /\ pc = "convert"
  /\ \/ GiveUpFrame
     \/ /\ UNCHANGED <<frames, registered, serving, stream, streaming_active_>>
        /\ \/ /\ serving # None
              /\ pc' = "return"
              /\ heap' = heap + 1
              /\ \E n \in 1..Pieces : left' = [left EXCEPT ![serving] = n]
           \/ /\ serving = None
              /\ \/ pc' = "return" /\ heap' = heap + 1
                 \/ pc' = "returnjpeg" /\ UNCHANGED heap
              /\ UNCHANGED left

(* The buffer goes back before the picture is sent.                        *)
ReturnFrame ==
  /\ pc \in {"return", "returnjpeg"}
  /\ unfilled' = Returned /\ latest' = None
  /\ pc' = CASE serving # None -> "piece"
             [] serving = None /\ pc = "return" -> "answer"
             [] OTHER -> "answerjpeg"
  /\ UNCHANGED <<captured, cam_queue, serving, streams, heap, registered>>

(* 200, and free(jpg_buf) if it was allocated.                             *)
Answer ==
  /\ pc \in {"answer", "answerjpeg"}
  /\ heap' = IF pc = "answer" THEN heap - 1 ELSE heap
  /\ HandlerEnds
  /\ UNCHANGED <<frames, streams, registered>>

(* As much of the picture as there is room for; after the last, free().    *)
SendPiece ==
  /\ pc = "piece"
  /\ left' = [left EXCEPT ![serving] = @ - 1]
  /\ heap' = IF left[serving] = 1 THEN heap - 1 ELSE heap
  /\ HandlerEnds
  /\ UNCHANGED <<frames, stream, streaming_active_, registered>>

-----------------------------------------------------------------------------

HandlerStep == Drain \/ Wait \/ Convert \/ ReturnFrame \/ Answer \/ SendPiece

Next ==
  \/ Capture \/ Enqueue \/ registerCameraRoutes
  \/ Snapshot
  \/ \E c \in Streams : OpenStream(c) \/ Callback(c) \/ Disconnect(c)
  \/ HandlerStep

Spec == Init /\ [][Next]_vars

(* The HTTP task finishes the handler it is in.  That AsyncTCP calls a     *)
(* stream back is not assumed: after RESPONSE_TRY_AGAIN it may never.      *)
FairSpec == Spec /\ WF_vars(HandlerStep)

-----------------------------------------------------------------------------
(* Properties.                                                             *)

(* Every variable has its type.                                            *)
TypeOK ==
  /\ unfilled \subseteq Buffers
  /\ captured \in Buffers \cup {None}
  /\ cam_queue \in Seq(Buffers) /\ Len(cam_queue) <= QueueLen
  /\ latest \in Buffers \cup {None}
  /\ registered \in BOOLEAN
  /\ pc \in {"idle", "drain", "wait", "convert", "return", "returnjpeg",
             "answer", "answerjpeg", "piece"}
  /\ serving \in Streams \cup {None}
  /\ stream \in [Streams -> {"closed", "open", "ended"}]
  /\ left \in [Streams -> 0..Pieces]
  /\ heap \in 0..(Cardinality(Streams) + 1)
  /\ streaming_active_ \in BOOLEAN

Queued == {cam_queue[i] : i \in DOMAIN cam_queue}

(* No buffer is lost, and none is given back twice: each is in exactly one *)
(* place, and none stays with the HTTP task when it is idle.               *)
FramesAccounted ==
  /\ Buffers = unfilled \cup Queued \cup ({captured, latest} \ {None})
  /\ \A b \in Buffers :
       /\ b \in unfilled => b \notin Queued /\ b # captured /\ b # latest
       /\ b \in Queued => b # captured /\ b # latest
       /\ b = captured => b # latest
  /\ \A i, j \in DOMAIN cam_queue : cam_queue[i] = cam_queue[j] => i = j
  /\ pc = "idle" => latest = None

(* No picture leaks and none is freed twice: the heap holds those of the   *)
(* connected streams, and that of a snapshot being answered.               *)
PicturesAccounted ==
  heap = Cardinality({c \in Streams : left[c] > 0})
           + (IF serving = None /\ pc \in {"return", "answer"} THEN 1 ELSE 0)

(* Snapshots are refused as busy only while a stream is connected: however *)
(* streams overlap and whoever leaves first, the flag is down after the    *)
(* last.                                                                   *)
BusyOnlyWhileStreaming ==
  streaming_active_ => \E c \in Streams : stream[c] = "open"

(* Once a request or a callback looks at the queue, every buffer in it and *)
(* every frame it takes goes back to the driver, whatever fails and even   *)
(* if no client is ever called back again: frames that piled up while      *)
(* nobody asked do not stop the camera for good.                           *)
FramesComeBack ==
  \A b \in Buffers :
    (b = latest \/ (pc = "drain" /\ b \in Queued)) ~> (b \in unfilled)
=============================================================================
