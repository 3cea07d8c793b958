---------------------------- MODULE AudioThread ----------------------------
(***************************************************************************)
(* audio/audio_thread_wrapper.c: the audio driver on a thread of its own,  *)
(* used with cores that produce sound in a callback.  Main starts, stops   *)
(* and frees it; the audio thread runs the callback, which writes to the   *)
(* driver.  One lock and one condition variable serve both directions.     *)
(*                                                                         *)
(* A section between slock_lock and slock_unlock, or up to scond_wait, is  *)
(* one action.  scond_signal wakes one of the threads that wait.           *)
(***************************************************************************)
EXTENDS Integers

VARIABLES alive, stopped, stopped_ack, is_paused, inited,
          waiters,    \* threads inside scond_wait
          driver,     \* the wrapped driver: "none", "running", "stopped", "freed"
          mpc, mnext, \* main: where it is, where audio_thread_block returns to
          tpc         \* audio thread: where it is

flags == <<alive, stopped, stopped_ack, is_paused, inited>>
main == <<mpc, mnext>>
vars == <<flags, waiters, driver, main, tpc>>

Init == /\ alive = FALSE /\ stopped = FALSE /\ stopped_ack = FALSE
        /\ is_paused = FALSE /\ inited = 0
        /\ waiters = {} /\ driver = "none"
        /\ mpc = "none" /\ mnext = "idle" /\ tpc = "none"

(* mutant: the signal wakes no one *)
Signalled_Lost(W) == {W}

(* the possible waiters after scond_signal *)
Signalled(W) == IF W = {} THEN {W} ELSE {W \ {w} : w \in W}

Signal == waiters' \in Signalled(waiters)
SignalAndWait(th) == \E W \in Signalled(waiters) : waiters' = W \cup {th}
Wait(th) == waiters' = waiters \cup {th}

SpuriousWakeup == /\ \E th \in waiters : waiters' = waiters \ {th}
                  /\ UNCHANGED <<flags, driver, main, tpc>>

-----------------------------------------------------------------------------
(* Main *)

(* the thread is created; calloc cleared the flags *)
audio_init_thread ==
  /\ mpc = "none"
  /\ alive' = TRUE /\ stopped' = TRUE /\ stopped_ack' = FALSE
  /\ is_paused' = FALSE /\ inited' = 0
  /\ mpc' = "init" /\ tpc' = "init" /\ driver' = "none"
  /\ UNCHANGED <<waiters, mnext>>

(* "Wait until thread has initialized (or failed) the driver." *)
InitWait ==
  /\ mpc = "init" /\ "main" \notin waiters
  /\ IF inited = 0 THEN Wait("main") /\ UNCHANGED mpc
     ELSE /\ mpc' = IF inited = 1 THEN "idle" ELSE "free"
          /\ UNCHANGED waiters
  /\ UNCHANGED <<flags, driver, mnext, tpc>>

audio_thread_start ==
  /\ mpc = "idle"
  /\ is_paused' = FALSE /\ stopped' = FALSE
  /\ Signal
  /\ UNCHANGED <<alive, stopped_ack, inited, driver, main, tpc>>

(* mutant: an old acknowledgement is not cleared *)
audio_thread_block_StaleAck(next) ==
  \/ /\ stopped
     /\ mpc' = next /\ UNCHANGED <<stopped, stopped_ack, waiters, mnext>>
  \/ /\ ~stopped
     /\ stopped' = TRUE /\ mpc' = "ack" /\ mnext' = next
     /\ Signal
     /\ UNCHANGED stopped_ack

(* Asks the thread to sleep and waits for its acknowledgement. *)
audio_thread_block(next) ==
  \/ /\ stopped
     /\ mpc' = next /\ UNCHANGED <<stopped, stopped_ack, waiters, mnext>>
  \/ /\ ~stopped
     /\ stopped_ack' = FALSE /\ stopped' = TRUE
     /\ mpc' = "ack" /\ mnext' = next
     /\ SignalAndWait("main")

BlockWait ==
  /\ mpc = "ack" /\ "main" \notin waiters
  /\ IF stopped_ack THEN mpc' = mnext /\ UNCHANGED waiters
                    ELSE Wait("main") /\ UNCHANGED mpc
  /\ UNCHANGED <<flags, driver, mnext, tpc>>

(* audio_driver_stop of retroarch.c: alive first, then stop if it was *)
audio_driver_stop ==
  /\ mpc = "idle"
  /\ audio_thread_block("alive")
  /\ UNCHANGED <<alive, is_paused, inited, driver, tpc>>

(* the rest of audio_thread_alive: its audio_thread_unblock *)
audio_thread_alive ==
  /\ mpc = "alive"
  /\ stopped' = FALSE
  /\ Signal
  /\ mpc' = IF is_paused THEN "idle" ELSE "stop"
  /\ UNCHANGED <<alive, stopped_ack, is_paused, inited, driver, mnext, tpc>>

audio_thread_stop ==
  /\ mpc = "stop"
  /\ audio_thread_block("paused")
  /\ UNCHANGED <<alive, is_paused, inited, driver, tpc>>

Paused ==
  /\ mpc = "paused"
  /\ is_paused' = TRUE
  /\ mpc' = "idle"
  /\ UNCHANGED <<alive, stopped, stopped_ack, inited, waiters, driver, mnext, tpc>>

(* mutant: the thread is left asleep *)
audio_thread_free_Asleep ==
  /\ mpc \in {"idle", "free"}
  /\ alive' = FALSE
  /\ Signal
  /\ mpc' = "join"
  /\ UNCHANGED <<stopped, stopped_ack, is_paused, inited, driver, mnext, tpc>>

(* also the error path of audio_init_thread *)
audio_thread_free ==
  /\ mpc \in {"idle", "free"}
  /\ stopped' = FALSE /\ alive' = FALSE
  /\ Signal
  /\ mpc' = "join"
  /\ UNCHANGED <<stopped_ack, is_paused, inited, driver, mnext, tpc>>

Join ==
  /\ mpc = "join" /\ tpc = "exited"
  /\ mpc' = "none" /\ tpc' = "none"
  /\ UNCHANGED <<flags, waiters, driver, mnext>>

-----------------------------------------------------------------------------
(* The audio thread: audio_thread_loop *)

LoopInit ==
  /\ tpc = "init"
  /\ \/ inited' = 1  /\ driver' = "running" /\ tpc' = "startwait"
     \/ inited' = -1 /\ driver' = "none"    /\ tpc' = "exited"
  /\ Signal
  /\ UNCHANGED <<alive, stopped, stopped_ack, is_paused, main>>

(* "Wait until we start": this loop acknowledges nothing *)
LoopStartWait ==
  /\ tpc = "startwait" /\ "audio" \notin waiters
  /\ IF stopped THEN Wait("audio") /\ UNCHANGED tpc
                ELSE tpc' = "loop" /\ UNCHANGED waiters
  /\ UNCHANGED <<flags, driver, main>>

LoopTest ==
  /\ tpc = "loop"
  /\ \/ /\ ~alive
        /\ Signal
        /\ stopped_ack' = TRUE /\ tpc' = "teardown" /\ UNCHANGED driver
     \/ /\ alive /\ stopped
        /\ driver' = "stopped" /\ stopped_ack' = TRUE
        /\ SignalAndWait("audio")
        /\ tpc' = "sleep"
     \/ /\ alive /\ ~stopped
        /\ tpc' = "callback" /\ UNCHANGED <<waiters, driver, stopped_ack>>
  /\ UNCHANGED <<alive, stopped, is_paused, inited, main>>

(* mutant: a thread woken while it is to stop goes back to sleep silently *)
LoopSleep_NoAck ==
  /\ tpc = "sleep" /\ "audio" \notin waiters
  /\ IF stopped
       THEN Wait("audio") /\ UNCHANGED <<stopped_ack, driver, tpc>>
       ELSE driver' = "running" /\ tpc' = "callback"
            /\ UNCHANGED <<stopped_ack, waiters>>
  /\ UNCHANGED <<alive, stopped, is_paused, inited, main>>

(* "If we stop right after start, we might not be able to properly ack.    *)
(* Signal in the loop instead."                                            *)
LoopSleep ==
  /\ tpc = "sleep" /\ "audio" \notin waiters
  /\ IF stopped
       THEN stopped_ack' = TRUE /\ SignalAndWait("audio")
            /\ UNCHANGED <<driver, tpc>>
       ELSE driver' = "running" /\ tpc' = "callback"
            /\ UNCHANGED <<stopped_ack, waiters>>
  /\ UNCHANGED <<alive, stopped, is_paused, inited, main>>

audio_driver_callback ==
  /\ tpc = "callback"
  /\ tpc' = "loop"
  /\ UNCHANGED <<flags, waiters, driver, main>>

(* audio_thread_write: the driver lost its device *)
WriteFails ==
  /\ tpc = "callback"
  /\ alive' = FALSE
  /\ Signal
  /\ tpc' = "loop"
  /\ UNCHANGED <<stopped, stopped_ack, is_paused, inited, driver, main>>

Teardown ==
  /\ tpc = "teardown"
  /\ driver' = "freed" /\ tpc' = "exited"
  /\ UNCHANGED <<flags, waiters, main>>

-----------------------------------------------------------------------------
MainGoesOn == \/ InitWait \/ BlockWait \/ audio_thread_alive \/ audio_thread_stop
              \/ Paused \/ Join \/ (mpc = "free" /\ audio_thread_free)

AudioLoop == \/ LoopInit \/ LoopStartWait \/ LoopTest \/ LoopSleep
             \/ audio_driver_callback \/ Teardown

Next == \/ audio_init_thread \/ audio_thread_start \/ audio_driver_stop
        \/ (mpc = "idle" /\ audio_thread_free)
        \/ MainGoesOn \/ AudioLoop \/ WriteFails \/ SpuriousWakeup

Spec == Init /\ [][Next]_vars

(* Both threads are scheduled; nothing is assumed about spurious wakeups,  *)
(* failing writes or the calls main makes.                                 *)
FairSpec == Spec /\ WF_vars(MainGoesOn) /\ WF_vars(AudioLoop)

-----------------------------------------------------------------------------
(* Properties *)

(* When audio_thread_block has returned the thread does not run the        *)
(* callback and will not until it is unblocked, so main may change what    *)
(* the callback uses; the driver itself is stopped, unless it never was    *)
(* started or the thread died.                                             *)
BlockedIsQuiet ==
  mpc \in {"alive", "paused"} =>
    /\ stopped
    /\ \/ tpc = "startwait"
       \/ ~alive /\ tpc \in {"teardown", "exited"}
       \/ tpc = "sleep" /\ driver = "stopped"

(* Freeing returns whatever state the thread is in: asleep, before its     *)
(* first start, in the callback or dead.                                   *)
FreeReturns == mpc = "join" ~> mpc = "none"

(* A stop returns once the thread runs and its writes succeed, even when   *)
(* the thread is only just waking up from an earlier stop.                 *)
StopOfPlayingReturns ==
  mpc = "ack" /\ alive /\ tpc \in {"loop", "sleep", "callback"}
    ~> mpc # "ack" \/ ~alive

(* A start, and the unblocking at the end of alive, is not lost on a       *)
(* thread that sleeps or is about to: unless main calls again or the       *)
(* device fails, the callback runs.                                        *)
StartedPlays ==
  mpc = "idle" /\ alive /\ ~stopped
    ~> tpc = "callback" \/ mpc # "idle" \/ ~alive

=============================================================================
