------------------------- MODULE VideoThreadProofs -------------------------
(***************************************************************************)
(* Proofs about VideoThread, whatever a core draws and however long main   *)
(* and the video thread run.                                               *)
(***************************************************************************)
EXTENDS VideoThread, TLAPS

Packet == [type : Commands \cup {"NONE"}, call : {0, 1}, ok : BOOLEAN]

TypeOK ==
  /\ {send_cmd, reply_cmd} \subseteq Commands \cup {"NONE"}
  /\ cmd_data \in Packet /\ mpkt \in Packet /\ tpkt \in Packet
  /\ updated \in BOOLEAN /\ tupdated \in BOOLEAN /\ dropped \in BOOLEAN
  /\ mdupe \in BOOLEAN /\ texture_enable \in BOOLEAN
  /\ within_thread \in BOOLEAN /\ ran \in Nat
  /\ mpc \in {"none", "send", "wait", "idle", "failed", "join", "timed", "menuwait"}
  /\ tpc \in {"none", "top", "handle", "read", "reply", "lock", "alpha", "draw",
              "done", "exited"}

(***************************************************************************)
(* A command: main has asked, the thread runs it, the thread has answered. *)
(***************************************************************************)
HandlesNothing == /\ tpc \notin {"read", "reply"}
                  /\ tpc = "handle" => tpkt.type = "NONE"

MyPacket(pkt) == pkt.type = mpkt.type /\ pkt.call = mpkt.call

Asked == /\ send_cmd = mpkt.type /\ reply_cmd = "NONE" /\ ran = 0
         /\ MyPacket(cmd_data) /\ HandlesNothing

Running == /\ reply_cmd = "NONE"
           /\ MyPacket(tpkt) /\ tupdated = updated
           /\ \/ tpc = "handle" /\ ran = 0
              \/ tpc \in {"read", "reply"} /\ ran = 1

(* The packet lies there until main clears its type, but the thread has no *)
(* reason to read it: it comes back to the top only once the frame is done.*)
Answered == /\ send_cmd = "NONE" /\ reply_cmd = mpkt.type /\ ran = 1
            /\ MyPacket(cmd_data)
            /\ tpc \notin {"handle", "read", "reply"}
            /\ tpc = "top" => ~updated

Calls ==
  /\ mpc \in {"send", "wait"} => mpkt.type # "NONE"
  /\ mpc = "wait" => Asked \/ Running \/ Answered
  /\ mpc \notin {"none", "wait"} =>
       send_cmd = "NONE" /\ cmd_data.type = "NONE" /\ HandlesNothing
  /\ mpc = "none" => tpc = "none"

(***************************************************************************)
(* A picture: frame.updated stays set from its hand-over until it is drawn.*)
(***************************************************************************)
Pictures ==
  /\ tupdated => updated /\ tpc \in {"handle", "read", "reply"}
  /\ tpc \in {"lock", "alpha", "draw", "done"} => updated
  /\ tpc = "done" => shown = buffer
  /\ within_thread => tpc = "read"
  /\ ~dropped /\ (mpc = "timed" => mdupe) =>
       buffer = cached /\ (~updated => shown = cached)

IInv == TypeOK /\ Calls /\ Pictures

LEMMA NoPacketTyped == NoPacket \in Packet /\ NoPacket.type = "NONE"
BY DEF NoPacket, Packet

LEMMA InitIInv == Init => IInv
<1> SUFFICES ASSUME Init PROVE IInv
  OBVIOUS
<1>1. TypeOK
  BY NoPacketTyped DEF Init, TypeOK
<1>2. Calls /\ Pictures
  BY DEF Init, Calls, Pictures
<1> QED BY <1>1, <1>2 DEF IInv

(* While a frame is handed over or a command is begun there is no call.    *)
LEMMA NotInCall ==
  ASSUME IInv, mpc \notin {"none", "wait"}
  PROVE  /\ ~within_thread /\ HandlesNothing
         /\ send_cmd = "NONE" /\ cmd_data.type = "NONE"
BY DEF IInv, Calls, Pictures, HandlesNothing

LEMMA CommandSteps ==
  ASSUME IInv, NEW type \in Commands,
         \/ video_init_thread \/ (Call(type) /\ type # "INIT")
         \/ video_thread_send_packet \/ video_thread_wait_reply \/ Join
  PROVE  IInv'
<1> USE DEF IInv, cmd, frame, poke, drv, loop
<1>1. CASE video_init_thread
  <2>1. NewPacket("INIT") \in Packet /\ NewPacket("INIT").type = "INIT"
    BY DEF NewPacket, Packet, TypeOK, Commands
  <2>2. TypeOK'
    BY <1>1, <2>1, NoPacketTyped DEF video_init_thread, TypeOK
  <2>3. Calls' /\ Pictures'
    BY <1>1, <2>1, NoPacketTyped
       DEF video_init_thread, Calls, Pictures, HandlesNothing
  <2> QED BY <2>2, <2>3
<1>2. CASE Call(type)
  BY <1>2 DEF Call, NewPacket, TypeOK, Calls, Pictures, Packet, Commands,
     HandlesNothing
<1>3. CASE video_thread_send_packet
  BY <1>3 DEF video_thread_send_packet, TypeOK, Calls, Pictures, Packet, Commands,
     HandlesNothing, Asked, MyPacket
<1>4. CASE video_thread_wait_reply
  <2>1. CASE UNCHANGED <<cmd_data, mpc, mpkt>>
    BY <1>4, <2>1 DEF video_thread_wait_reply, TypeOK, Calls, Pictures,
       HandlesNothing, Asked, Running, Answered, MyPacket
  <2>2. CASE reply_cmd = mpkt.type /\ cmd_data' = [cmd_data EXCEPT !.type = "NONE"]
             /\ mpkt' = [mpkt EXCEPT !.type = "NONE"] /\ mpc' = AfterCall(cmd_data)
    <3>1. Answered /\ mpc' \in {"join", "failed", "idle"}
      BY <1>4, <2>2 DEF video_thread_wait_reply, Calls, Asked, Running, AfterCall
    <3> QED BY <1>4, <2>2, <3>1 DEF video_thread_wait_reply, TypeOK, Calls, Pictures,
               Packet, Answered, HandlesNothing
  <2> QED BY <1>4, <2>1, <2>2 DEF video_thread_wait_reply
<1>5. CASE Join
  BY <1>5 DEF Join, TypeOK, Calls, Pictures
<1> QED BY <1>1, <1>2, <1>3, <1>4, <1>5

LEMMA FrameSteps ==
  ASSUME IInv, NEW f \in Frames, NEW dupe \in BOOLEAN,
         video_thread_frame(f, dupe) \/ FrameTimed \/ FrameMenuWait
  PROVE  IInv'
<1> USE DEF IInv, cmd, frame, poke, drv, loop
<1>1. mpc \in {"idle", "timed", "menuwait"} /\ ~within_thread
  BY NotInCall DEF video_thread_frame, FrameTimed, FrameMenuWait
<1>2. mpc' \in {"idle", "timed", "menuwait"}
  BY <1>1 DEF video_thread_frame, FrameTimed, FrameMenuWait, Hand, Accept, Drop,
     WaitTimed
<1>3. Calls' /\ UNCHANGED <<send_cmd, reply_cmd, cmd_data, ran, mpkt, tpc, tpkt,
                             tupdated, within_thread, texture_enable>>
  BY <1>1, <1>2 DEF video_thread_frame, FrameTimed, FrameMenuWait, Calls,
     HandlesNothing
<1>4. TypeOK'
  <2>1. CASE video_thread_frame(f, dupe)
    BY <1>1, <1>2, <1>3, <2>1 DEF TypeOK, video_thread_frame, Hand, Accept, Drop, WaitTimed
  <2>2. CASE FrameTimed
    <3>1. Accept(mdupe) \/ Drop(mdupe) \/ WaitTimed
      BY <2>2 DEF FrameTimed, Hand
    <3>2. updated' \in BOOLEAN
      BY <3>1 DEF TypeOK, Accept, Drop, WaitTimed
    <3>3. dropped' \in BOOLEAN
      BY <3>1 DEF TypeOK, Accept, Drop, WaitTimed
    <3>4. mdupe' \in BOOLEAN
      BY <2>2 DEF TypeOK, FrameTimed
    <3> QED BY <1>2, <1>3, <2>2, <3>2, <3>3, <3>4 DEF TypeOK, FrameTimed
  <2>3. CASE FrameMenuWait
    BY <1>1, <1>2, <1>3, <2>3 DEF TypeOK, FrameMenuWait
  <2> QED BY <2>1, <2>2, <2>3
<1>5. CASE video_thread_frame(f, dupe)
  <2>1. Pictures'
    BY <1>1, <1>3, <1>5 DEF TypeOK, Pictures, video_thread_frame, Hand, Accept, Drop,
       WaitTimed
  <2> QED BY <1>3, <1>4, <2>1
<1>6. CASE FrameTimed
  <2>1. Pictures'
    BY <1>1, <1>3, <1>6 DEF TypeOK, Pictures, FrameTimed, Hand, Accept, Drop,
       WaitTimed
  <2> QED BY <1>3, <1>4, <2>1
<1>7. CASE FrameMenuWait
  BY <1>3, <1>4, <1>7 DEF Pictures, FrameMenuWait
<1> QED BY <1>5, <1>6, <1>7

(* Updates and wakeups change nothing a call or a picture depends on.      *)
LEMMA OtherSteps ==
  ASSUME IInv, NEW k \in Kinds, NEW state \in BOOLEAN,
         \/ Poke(k) \/ thread_set_texture_enable(state) \/ SpuriousWakeup
         \/ UNCHANGED vars
  PROVE  IInv'
BY DEF IInv, Poke, thread_set_texture_enable, SpuriousWakeup, vars, cmd, frame,
   poke, drv, main, loop, TypeOK, Calls, Pictures, HandlesNothing, Asked, Running,
   Answered, MyPacket

LEMMA LoopTopStep == ASSUME IInv, LoopTop PROVE IInv'
<1> USE DEF IInv, LoopTop, cmd, frame, poke, drv, main, loop
<1>1. TypeOK'
  BY DEF TypeOK
<1>2. Calls'
  BY DEF TypeOK, Calls, Pictures, HandlesNothing, Asked, Running, Answered, MyPacket
<1>3. Pictures'
  BY DEF TypeOK, Pictures
<1> QED BY <1>1, <1>2, <1>3

(* The thread is in a call that main waits for. *)
LEMMA ThreadInCall ==
  ASSUME IInv, tpc \in {"handle", "read", "reply"},
         tpc = "handle" => tpkt.type # "NONE"
  PROVE  mpc = "wait" /\ Running
BY DEF IInv, Calls, HandlesNothing, Asked, Answered

LEMMA HandleSteps ==
  ASSUME IInv, HandleNone \/ HandlePacket \/ HandleReadViewport \/ ReadViewport
  PROVE  IInv'
<1> USE DEF IInv, cmd, frame, poke, drv, main, loop
<1>1. CASE HandleNone
  <2>1. TypeOK' /\ Pictures'
    BY <1>1, NoPacketTyped DEF HandleNone, PacketDone, TypeOK, Pictures
  <2>2. mpc = "wait" => Asked
    BY <1>1 DEF HandleNone, Calls, Running, Answered, MyPacket
  <2>3. Calls'
    BY <1>1, <2>2 DEF HandleNone, PacketDone, Calls, HandlesNothing, Asked, MyPacket
  <2> QED BY <2>1, <2>3
<1>2. CASE HandlePacket \/ HandleReadViewport \/ ReadViewport
  <2>1. mpc = "wait" /\ Running
    BY <1>2, ThreadInCall DEF HandlePacket, HandleReadViewport, ReadViewport
  <2>2. Running' /\ tpkt' \in Packet
    <3>1. tpkt' \in Packet /\ tpkt'.type = tpkt.type /\ tpkt'.call = tpkt.call
      BY <1>2 DEF HandlePacket, HandleReadViewport, ReadViewport, TypeOK, Packet
    <3>2. /\ UNCHANGED <<reply_cmd, mpkt, tupdated, updated>>
          /\ tpc' \in {"read", "reply"}
          /\ ran' = IF tpc = "handle" THEN ran + 1 ELSE ran
      BY <1>2 DEF HandlePacket, HandleReadViewport, ReadViewport
    <3> QED BY <2>1, <3>1, <3>2 DEF Running, MyPacket
  <2>3. UNCHANGED <<mpc, mpkt, send_cmd, reply_cmd, cmd_data, updated, tupdated,
                    dropped, mdupe, texture_enable, buffer, cached>>
    BY <1>2 DEF HandlePacket, HandleReadViewport, ReadViewport
  <2>4. Calls'
    BY <2>1, <2>2, <2>3 DEF Calls
  <2>5. TypeOK'
    <3>1. ran' \in Nat /\ within_thread' \in BOOLEAN /\ tpc' \in {"read", "reply"}
      <4>1. ran \in Nat /\ within_thread \in BOOLEAN
        BY DEF TypeOK
      <4>2. CASE HandlePacket
        BY <4>1, <4>2 DEF HandlePacket
      <4>3. CASE HandleReadViewport
        <5>1. ran' = ran + 1 /\ tpc' \in {"read", "reply"}
          BY <4>3 DEF HandleReadViewport
        <5>2. within_thread' = TRUE \/ within_thread' = within_thread
          BY <4>3, Zenon DEF HandleReadViewport
        <5>3. within_thread' \in BOOLEAN
          BY <4>1, <5>2, Zenon
        <5>4. ran' \in Nat
          BY <4>1, <5>1
        <5> QED BY <5>1, <5>3, <5>4
      <4>4. CASE ReadViewport
        BY <4>1, <4>4 DEF ReadViewport
      <4> QED BY <1>2, <4>2, <4>3, <4>4
    <3> QED BY <2>2, <2>3, <3>1 DEF TypeOK
  <2>6. Pictures'
    BY <1>2, <2>1, <2>3 DEF HandlePacket, HandleReadViewport, ReadViewport,
       Pictures, TypeOK, Running
  <2> QED BY <2>4, <2>5, <2>6
<1> QED BY <1>1, <1>2

LEMMA ReplyStep == ASSUME IInv, video_thread_reply PROVE IInv'
<1> USE DEF IInv, video_thread_reply, PacketDone, cmd, frame, poke, drv, main
<1>1. mpc = "wait" /\ Running
  BY ThreadInCall
<1>2. Answered'
  <2>1. tpc' # "top" \/ ~tupdated
    OBVIOUS
  <2>2. tpc' \in {"top", "lock", "exited"}
    OBVIOUS
  <2> QED BY <1>1, <2>1, <2>2 DEF Answered, Running, MyPacket
<1>3. Calls'
  BY <1>1, <1>2 DEF Calls
<1>4. TypeOK'
  <2>1. tpkt'= NoPacket /\ tpkt.type \in Commands \cup {"NONE"}
    BY DEF TypeOK, Packet
  <2>2. tpc' \in {"top", "lock", "exited"}
    OBVIOUS
  <2> QED BY <2>1, <2>2, NoPacketTyped DEF TypeOK
<1>5. Pictures'
  BY <1>1 DEF Pictures, Running
<1> QED BY <1>3, <1>4, <1>5

LEMMA DrawSteps ==
  ASSUME IInv, UpdateTexture \/ UpdateAlpha \/ Draw \/ FrameDone
  PROVE  IInv'
<1> USE DEF IInv, UpdateTexture, UpdateAlpha, Draw, FrameDone, cmd, frame, poke,
            drv, main
<1>1. TypeOK'
  <2>1. CASE UpdateTexture
    BY <2>1 DEF TypeOK
  <2>2. CASE UpdateAlpha
    BY <2>2 DEF TypeOK
  <2>3. CASE Draw
    BY <2>3 DEF TypeOK
  <2>4. CASE FrameDone
    BY <2>4 DEF TypeOK
  <2> QED BY <2>1, <2>2, <2>3, <2>4
<1>2. Calls'
  BY DEF Calls, HandlesNothing, Asked, Running, Answered, MyPacket
<1>3. Pictures'
  BY DEF Pictures, TypeOK
<1> QED BY <1>1, <1>2, <1>3

LEMMA NextIInv == IInv /\ [Next]_vars => IInv'
<1> SUFFICES ASSUME IInv, [Next]_vars PROVE IInv'
  OBVIOUS
<1>0. "FREE" \in Commands /\ 0 \in Frames /\ "alpha" \in Kinds /\ TRUE \in BOOLEAN
  BY FramesAssumption DEF Commands, Kinds
<1>1. CASE \/ video_init_thread \/ \E type \in Commands \ {"INIT"} : Call(type)
           \/ video_thread_send_packet \/ video_thread_wait_reply \/ Join
  BY <1>0, <1>1, CommandSteps
<1>2. CASE \/ \E f \in Frames \ {0}, dupe \in BOOLEAN : video_thread_frame(f, dupe)
           \/ FrameTimed \/ FrameMenuWait
  BY <1>0, <1>2, FrameSteps
<1>3. CASE \/ \E k \in Kinds : Poke(k)
           \/ \E state \in BOOLEAN : thread_set_texture_enable(state)
           \/ SpuriousWakeup \/ UNCHANGED vars
  BY <1>0, <1>3, OtherSteps
<1>4. CASE Loop
  BY <1>4, LoopTopStep, HandleSteps, ReplyStep, DrawSteps DEF Loop
<1> QED BY <1>1, <1>2, <1>3, <1>4 DEF Next, MainCalls, MainGoesOn

LEMMA Inductive == Spec => []IInv
BY InitIInv, NextIInv, PTL DEF Spec

(* When a command's call returns the driver has run it once, and the       *)
(* packet is its answer (video_thread_send_and_wait).                      *)
THEOREM CallsAreSynchronous == Spec => CallIsAnswered
<1>1. IInv /\ [Next]_vars =>
        [mpc = "wait" /\ mpc' # "wait" =>
           ran = 1 /\ cmd_data.type = mpkt.type /\ cmd_data.call = mpkt.call]_vars
  <2> SUFFICES ASSUME IInv, Next, mpc = "wait", mpc' # "wait"
               PROVE  ran = 1 /\ cmd_data.type = mpkt.type /\ cmd_data.call = mpkt.call
    OBVIOUS
  <2>1. ~Loop /\ ~SpuriousWakeup /\ ~MainCalls
    BY DEF Loop, LoopTop, HandleNone, HandlePacket, HandleReadViewport, ReadViewport,
       video_thread_reply, UpdateTexture, UpdateAlpha, Draw, FrameDone,
       SpuriousWakeup, main, MainCalls, video_init_thread, Call,
       video_thread_frame, Poke, thread_set_texture_enable
  <2>2. video_thread_wait_reply
    BY <2>1 DEF Next, MainGoesOn, video_thread_send_packet, Join, FrameTimed,
       FrameMenuWait
  <2>3. Answered
    BY <2>2 DEF video_thread_wait_reply, IInv, Calls, Asked, Running
  <2> QED BY <2>3 DEF Answered, MyPacket
<1> QED BY <1>1, Inductive, PTL DEF Spec, CallIsAnswered

(* Between its hand-over and the end of drawing the picture stays as it is *)
(* (thr->frame.updated, the copy in video_thread_frame).                   *)
THEOREM PicturesStayIntact == Spec => PictureIntact
<1>1. IInv /\ [Next]_vars =>
        [buffer' # buffer =>
           tpc \notin {"lock", "alpha", "draw"} /\ ~tupdated]_vars
  <2> SUFFICES ASSUME IInv, Next, buffer' # buffer
               PROVE  tpc \notin {"lock", "alpha", "draw"} /\ ~tupdated
    OBVIOUS
  <2>1. ~Loop /\ ~SpuriousWakeup
    BY DEF Loop, LoopTop, HandleNone, HandlePacket, HandleReadViewport, ReadViewport,
       video_thread_reply, UpdateTexture, UpdateAlpha, Draw, FrameDone,
       SpuriousWakeup, frame
  <2>2. mpc = "none" \/ ~updated
    BY <2>1 DEF Next, MainGoesOn, MainCalls, video_init_thread, Call,
       video_thread_send_packet, video_thread_wait_reply, Join, FrameTimed,
       FrameMenuWait, video_thread_frame, Hand, Drop, WaitTimed, Poke,
       thread_set_texture_enable, frame
  <2> QED BY <2>2 DEF IInv, Calls, Pictures
<1> QED BY <1>1, Inductive, PTL DEF Spec, PictureIntact

(* The screen shows the core's last picture once the thread is done,       *)
(* unless that one was dropped (video_thread_frame).                       *)
THEOREM LastPictureIsShown == Spec => []ShowsLatest
<1>1. IInv => ShowsLatest
  BY DEF IInv, Pictures, ShowsLatest
<1> QED BY <1>1, Inductive, PTL

=============================================================================
