---------------------------- MODULE VideoThread ----------------------------
(***************************************************************************)
(* gfx/video_thread_wrapper.c: the video driver on a thread of its own.    *)
(* Main hands it commands, each a synchronous call, and frames, which it   *)
(* does not wait for; menu texture, overlay alpha and "apply state" travel *)
(* with the next frame.  thr->lock guards commands and frame.updated, with *)
(* one condition variable for each direction; frame.lock is held while the *)
(* driver draws; alpha_lock guards the overlay's alpha.                    *)
(*                                                                         *)
(* A section under a lock, up to a wait, is one action.  frame.lock is     *)
(* held exactly while tpc is in Drawing.  Viewports are left out: whether  *)
(* the one main was told is still the driver's is a free choice.           *)
(***************************************************************************)
EXTENDS Integers

CONSTANT Frames     \* pictures a core can draw; 0 is the one before the first

ASSUME FramesAssumption == 0 \in Frames

VARIABLES send_cmd, reply_cmd,
          cmd_data,      \* the packet: type, the call it belongs to, answer
          updated, buffer, within_thread,     \* thr->frame
          texture_enable,
          pending,       \* kinds of updates that wait for the next frame
          mwait, twait,  \* main waits on cond_cmd, the thread on cond_thread
          mpc, mpkt, mdupe,     \* main: where it is, its packet, its frame
          tpc, tpkt, tupdated,  \* the thread: where it is, its locals
          driver, shown,        \* the wrapped driver
          cached,        \* frame_cache_data: the core's last picture
          (* history, read by the properties only *)
          ran,           \* how often the call in progress was run
          dropped        \* the core's last picture was dropped

cmd == <<send_cmd, reply_cmd, cmd_data, ran>>
frame == <<updated, buffer, cached, dropped>>
poke == <<texture_enable, pending>>
drv == <<driver, shown, within_thread>>
main == <<mpc, mpkt, mdupe>>
loop == <<tpc, tpkt, tupdated>>
vars == <<cmd, frame, poke, drv, main, loop, mwait, twait>>

(* "texture" stands for the two updates made under frame.lock: the menu's  *)
(* texture and apply_state_changes.                                        *)
Kinds == {"texture", "alpha"}

(* OTHER stands for the commands that only call the driver: alive, shader, *)
(* rotation, overlay geometry, video mode, filtering, aspect ratio, font,  *)
(* texture load.                                                           *)
Commands == {"INIT", "FREE", "READ_VIEWPORT", "OVERLAY_LOAD", "OTHER"}
Drawing == {"alpha", "draw"}

NoPacket == [type |-> "NONE", call |-> 0, ok |-> FALSE]

Init ==
  /\ send_cmd = "NONE" /\ reply_cmd = "NONE" /\ cmd_data = NoPacket
  /\ updated = FALSE /\ buffer = 0 /\ within_thread = FALSE
  /\ texture_enable = FALSE /\ pending = {}
  /\ mwait = FALSE /\ twait = FALSE
  /\ mpc = "none" /\ mpkt = NoPacket /\ mdupe = FALSE
  /\ tpc = "none" /\ tpkt = NoPacket /\ tupdated = FALSE
  /\ driver = "none" /\ shown = 0 /\ cached = 0
  /\ ran = 0 /\ dropped = FALSE

-----------------------------------------------------------------------------
(* Main: commands *)

NewPacket(type) == [type |-> type, call |-> 1 - mpkt.call, ok |-> FALSE]

(* calloc, the locks, the thread; the first command is INIT *)
video_init_thread ==
  /\ mpc = "none"
  /\ send_cmd' = "NONE" /\ reply_cmd' = "NONE" /\ cmd_data' = NoPacket /\ ran' = 0
  /\ updated' = FALSE /\ buffer' = 0 /\ cached' = 0 /\ dropped' = FALSE
  /\ texture_enable' = FALSE /\ pending' = {}
  /\ shown' = 0 /\ within_thread' = FALSE
  /\ mpc' = "send" /\ mpkt' = NewPacket("INIT") /\ tpc' = "top"
  /\ UNCHANGED <<driver, mdupe, tpkt, tupdated, mwait, twait>>

(* any command; FREE also after a failed initialisation *)
Call(type) ==
  /\ mpc = "idle" \/ (mpc = "failed" /\ type = "FREE")
  /\ mpc' = "send" /\ mpkt' = NewPacket(type)
  /\ UNCHANGED <<cmd, frame, poke, drv, mdupe, loop, mwait, twait>>

(* mutant: an earlier reply is left standing *)
video_thread_send_packet_OldReply ==
  /\ mpc = "send"
  /\ cmd_data' = mpkt /\ send_cmd' = mpkt.type /\ ran' = 0
  /\ twait' = FALSE /\ mpc' = "wait"
  /\ UNCHANGED <<reply_cmd, frame, poke, drv, mpkt, mdupe, loop, mwait>>

video_thread_send_packet ==
  /\ mpc = "send"
  /\ cmd_data' = mpkt /\ send_cmd' = mpkt.type /\ reply_cmd' = "NONE"
  /\ ran' = 0
  /\ twait' = FALSE
  /\ mpc' = "wait"
  /\ UNCHANGED <<frame, poke, drv, mpkt, mdupe, loop, mwait>>

AfterCall(pkt) == CASE pkt.type = "FREE" -> "join"
                    [] pkt.type = "INIT" /\ ~pkt.ok -> "failed"
                    [] OTHER -> "idle"

(* of the answer main keeps nothing but what it does next *)
video_thread_wait_reply ==
  /\ mpc = "wait" /\ ~mwait
  /\ \/ /\ reply_cmd # mpkt.type
        /\ mwait' = TRUE
        /\ UNCHANGED <<cmd_data, mpc, mpkt>>
     \/ /\ reply_cmd = mpkt.type
        /\ cmd_data' = [cmd_data EXCEPT !.type = "NONE"]
        /\ mpkt' = [mpkt EXCEPT !.type = "NONE"]
        /\ mpc' = AfterCall(cmd_data)
        /\ UNCHANGED mwait
  /\ UNCHANGED <<send_cmd, reply_cmd, ran, frame, poke, drv, mdupe, loop, twait>>

(* sthread_join, then the wrapper is freed *)
Join ==
  /\ mpc = "join" /\ tpc = "exited"
  /\ mpc' = "none" /\ tpc' = "none"
  /\ UNCHANGED <<cmd, frame, poke, drv, mpkt, mdupe, tpkt, tupdated, mwait, twait>>

-----------------------------------------------------------------------------
(* Main: frames *)

(* the picture goes to the thread; with the menu's texture on main waits   *)
(* until it is drawn                                                       *)
Accept(dupe) ==
  /\ updated' = TRUE
  /\ IF dupe THEN UNCHANGED <<buffer, dropped>>
             ELSE buffer' = cached' /\ dropped' = FALSE
  /\ twait' = FALSE
  /\ mpc' = IF texture_enable THEN "menuwait" ELSE "idle"
  /\ mwait' = texture_enable

(* "Drop frame if updated flag is still set, as thread is still working on *)
(* last frame."                                                            *)
Drop(dupe) ==
  /\ dropped' = (dropped \/ ~dupe)
  /\ mpc' = "idle" /\ mwait' = FALSE
  /\ UNCHANGED <<updated, buffer, twait>>

(* mutant: the copy does not look at the flag *)
Hand_Always(dupe) == Accept(dupe)

Hand(dupe) == IF updated THEN Drop(dupe) ELSE Accept(dupe)

WaitTimed == /\ mpc' = "timed" /\ mwait' = TRUE
             /\ UNCHANGED <<updated, buffer, dropped, twait>>

(* A picture f of the core, or with dupe a repetition of its last one: no  *)
(* data, so nothing is copied and the thread draws what the buffer holds.  *)
(* Whether main waits for the thread depends on nonblock and on the time.  *)
video_thread_frame(f, dupe) ==
  /\ mpc = "idle"
  /\ cached' = IF dupe THEN cached ELSE f
  /\ \/ /\ within_thread
        /\ shown' = cached' /\ pending' = {}
        /\ UNCHANGED <<updated, buffer, dropped, mpc, mwait, twait>>
     \/ /\ ~within_thread
        /\ Hand(dupe) \/ (updated /\ WaitTimed)
        /\ UNCHANGED <<shown, pending>>
  /\ mdupe' = (dupe /\ mpc' = "timed")
  /\ UNCHANGED <<cmd, driver, within_thread, texture_enable, mpkt, loop>>

(* scond_wait_timeout ended: woken, or the frame's time is over *)
FrameTimed ==
  /\ mpc = "timed"
  /\ UNCHANGED cached
  /\ Hand(mdupe) \/ (~mwait /\ updated /\ WaitTimed)
  /\ mdupe' = (mdupe /\ mpc' = "timed")
  /\ UNCHANGED <<cmd, poke, drv, mpkt, loop>>

FrameMenuWait ==
  /\ mpc = "menuwait" /\ ~mwait
  /\ mwait' = updated
  /\ mpc' = IF updated THEN "menuwait" ELSE "idle"
  /\ UNCHANGED <<cmd, frame, poke, drv, mpkt, mdupe, loop, twait>>

-----------------------------------------------------------------------------
(* Main: state that travels with a frame *)

(* thread_set_texture_frame and thread_apply_state_changes take frame.lock,*)
(* thread_overlay_set_alpha takes alpha_lock.                              *)
Poke(k) ==
  /\ mpc = "idle"
  /\ k # "alpha" => tpc \notin Drawing
  /\ pending' = pending \cup {k}
  /\ UNCHANGED <<cmd, frame, texture_enable, drv, main, loop, mwait, twait>>

thread_set_texture_enable(state) ==
  /\ mpc = "idle" /\ tpc \notin Drawing
  /\ texture_enable' = state
  /\ UNCHANGED <<cmd, frame, pending, drv, main, loop, mwait, twait>>

-----------------------------------------------------------------------------
(* The thread: video_thread_loop *)

(* mutant: the flag is taken with the frame, not cleared after drawing *)
LoopTop_TakesFlag ==
  /\ tpc = "top" /\ ~twait
  /\ \/ /\ send_cmd = "NONE" /\ ~updated
        /\ twait' = TRUE /\ UNCHANGED <<loop, updated>>
     \/ /\ send_cmd # "NONE" \/ updated
        /\ tupdated' = updated /\ updated' = FALSE
        /\ tpkt' = cmd_data /\ tpc' = "handle" /\ UNCHANGED twait
  /\ UNCHANGED <<cmd, buffer, cached, dropped, poke, drv, main, mwait>>

LoopTop ==
  /\ tpc = "top" /\ ~twait
  /\ \/ /\ send_cmd = "NONE" /\ ~updated
        /\ twait' = TRUE /\ UNCHANGED loop
     \/ /\ send_cmd # "NONE" \/ updated
        /\ tupdated' = updated
        /\ tpkt' = cmd_data /\ tpc' = "handle" /\ UNCHANGED twait
  /\ UNCHANGED <<cmd, frame, poke, drv, main, mwait>>

(* the packet is dealt with: on to the frame, or round again *)
PacketDone == /\ tpc' = IF tupdated THEN "lock" ELSE "top"
              /\ tpkt' = NoPacket /\ tupdated' = FALSE

(* mutant: replies to no command, too *)
HandleNone_Replies ==
  /\ tpc = "handle" /\ tpkt.type = "NONE"
  /\ tpc' = "reply"
  /\ UNCHANGED <<cmd, frame, poke, drv, main, tpkt, tupdated, mwait, twait>>

(* "Never reply on no command. Possible deadlock if thread sends command   *)
(* right after frame update."                                              *)
HandleNone ==
  /\ tpc = "handle" /\ tpkt.type = "NONE"
  /\ PacketDone
  /\ UNCHANGED <<cmd, frame, poke, drv, main, mwait, twait>>

(* the driver runs the command *)
HandlePacket ==
  /\ tpc = "handle" /\ tpkt.type \notin {"NONE", "READ_VIEWPORT"}
  /\ IF tpkt.type = "INIT"
       THEN \E ok \in BOOLEAN : /\ tpkt' = [tpkt EXCEPT !.ok = ok]
                                /\ driver' = IF ok THEN "up" ELSE "none"
       ELSE /\ UNCHANGED tpkt
            /\ driver' = IF tpkt.type = "FREE" THEN "none" ELSE driver
  /\ ran' = ran + 1
  /\ tpc' = "reply"
  /\ UNCHANGED <<send_cmd, reply_cmd, cmd_data, frame, poke, shown,
                 within_thread, main, tupdated, mwait, twait>>

(* "Viewport dimensions changed right after main thread read the async     *)
(* value. Cannot read safely.", or the driver reads                        *)
HandleReadViewport ==
  /\ tpc = "handle" /\ tpkt.type = "READ_VIEWPORT"
  /\ \/ tpc' = "read" /\ within_thread' = TRUE
     \/ tpc' = "reply" /\ UNCHANGED within_thread
  /\ ran' = ran + 1
  /\ UNCHANGED <<send_cmd, reply_cmd, cmd_data, frame, poke, driver, shown,
                 main, tpkt, tupdated, mwait, twait>>

(* Unless the core is idle the driver first redraws the core's last        *)
(* picture, through video_thread_frame on this thread.                     *)
ReadViewport ==
  /\ tpc = "read"
  /\ \/ UNCHANGED <<shown, pending>>
     \/ shown' = cached /\ pending' = {}
  /\ within_thread' = FALSE
  /\ tpc' = "reply"
  /\ UNCHANGED <<cmd, updated, buffer, cached, dropped, texture_enable, driver,
                 main, tpkt, tupdated, mwait, twait>>

video_thread_reply ==
  /\ tpc = "reply"
  /\ cmd_data' = tpkt /\ reply_cmd' = tpkt.type /\ send_cmd' = "NONE"
  /\ mwait' = FALSE
  /\ IF tpkt.type # "FREE" THEN PacketDone
     ELSE tpc' = "exited" /\ tpkt' = NoPacket /\ tupdated' = FALSE
  /\ UNCHANGED <<ran, frame, poke, drv, main, twait>>

(* frame.lock taken; thread_update_driver_state but for the alpha *)
UpdateTexture ==
  /\ tpc = "lock"
  /\ pending' = pending \ {"texture"}
  /\ tpc' = "alpha"
  /\ UNCHANGED <<cmd, updated, buffer, cached, dropped, texture_enable, drv, main,
                 tpkt, tupdated, mwait, twait>>

(* its part under alpha_lock *)
UpdateAlpha ==
  /\ tpc = "alpha"
  /\ pending' = pending \ {"alpha"}
  /\ tpc' = "draw"
  /\ UNCHANGED <<cmd, updated, buffer, cached, dropped, texture_enable, drv, main,
                 tpkt, tupdated, mwait, twait>>

(* driver->frame; frame.lock is released *)
Draw ==
  /\ tpc = "draw"
  /\ shown' = buffer
  /\ tpc' = "done"
  /\ UNCHANGED <<cmd, frame, poke, driver, within_thread, main, tpkt,
                 tupdated, mwait, twait>>

FrameDone ==
  /\ tpc = "done"
  /\ updated' = FALSE
  /\ mwait' = FALSE
  /\ tpc' = "top"
  /\ UNCHANGED <<cmd, buffer, cached, dropped, poke, drv, main, tpkt,
                 tupdated, twait>>

SpuriousWakeup ==
  /\ \/ mwait /\ mwait' = FALSE /\ UNCHANGED twait
     \/ twait /\ twait' = FALSE /\ UNCHANGED mwait
  /\ UNCHANGED <<cmd, frame, poke, drv, main, loop>>

-----------------------------------------------------------------------------
MainCalls ==
  \/ video_init_thread
  \/ \E type \in Commands \ {"INIT"} : Call(type)
  \/ \E f \in Frames \ {0}, dupe \in BOOLEAN : video_thread_frame(f, dupe)
  \/ \E k \in Kinds : Poke(k)
  \/ \E state \in BOOLEAN : thread_set_texture_enable(state)

MainGoesOn == \/ video_thread_send_packet \/ video_thread_wait_reply \/ Join
              \/ FrameTimed \/ FrameMenuWait

Loop == \/ LoopTop \/ HandleNone \/ HandlePacket \/ HandleReadViewport
        \/ ReadViewport \/ video_thread_reply
        \/ UpdateTexture \/ UpdateAlpha \/ Draw \/ FrameDone

Next == MainCalls \/ MainGoesOn \/ Loop \/ SpuriousWakeup

Spec == Init /\ [][Next]_vars

(* Both threads are scheduled, the timer of the paced wait runs; nothing   *)
(* is assumed about main's calls and spurious wakeups.                     *)
FairSpec == Spec /\ WF_vars(Loop) /\ WF_vars(MainGoesOn)

-----------------------------------------------------------------------------
(* Properties *)

(* A command is a synchronous call: when send_and_wait returns, the driver *)
(* has run this very command exactly once and the packet main gets back is *)
(* its answer - though the thread reads cmd_data on every turn, for frames *)
(* too, and the reply leaves the packet there until main clears its type.  *)
CallIsAnswered ==
  [][mpc = "wait" /\ mpc' # "wait" =>
       ran = 1 /\ cmd_data.type = mpkt.type /\ cmd_data.call = mpkt.call]_vars

(* The picture is not overwritten between its hand-over and the end of     *)
(* drawing, although main holds no lock the drawing thread holds.          *)
PictureIntact ==
  [][buffer' # buffer =>
       tpc \notin {"lock", "alpha", "draw"} /\ ~tupdated]_vars

(* Once the thread is done the screen shows the core's last picture,       *)
(* unless that one was dropped: then repetitions show an older one, until  *)
(* the core draws again.                                                   *)
ShowsLatest ==
  mpc \in {"idle", "menuwait"} /\ ~updated /\ ~dropped => shown = cached

(* Commands, waits for the menu's frame and free return, whatever the      *)
(* thread was doing: a command sent right after a frame is not swallowed.  *)
CallReturns ==
  mpc \in {"send", "wait", "menuwait", "join"} ~> mpc \in {"idle", "failed", "none"}

=============================================================================
