------------------------------ MODULE Autosave ------------------------------
(***************************************************************************)
(* tasks/task_save.c and retroarch.c: the thread that saves a content's    *)
(* SRAM every few seconds, and the main thread, which runs the core, loads *)
(* savestates, starts and stops netplay, and closes the content.           *)
(*                                                                         *)
(* The SRAM and the file are one value each: a member of Values when they  *)
(* hold the SRAM of one moment, Torn when they mix two, Partial when the   *)
(* file was opened for writing and not closed, Gone when it is memory of a *)
(* core that was unloaded.  A content has one save file.  What a thread    *)
(* does under a mutex is one step where nobody can see its middle.         *)
(***************************************************************************)
EXTENDS Integers, FiniteSets

CONSTANTS Values,       \* contents of the SRAM
          Handles,      \* autosave objects that can exist at once
          MaxSessions   \* bound: contents loaded in a behaviour

Torn == -1
Partial == -2
Gone == -3
NoHandle == "no handle"

ASSUME ValuesAssumption == Values # {} /\ Values \subseteq Nat
ASSUME HandlesAssumption == IsFiniteSet(Handles) /\ NoHandle \notin Handles
ASSUME SessionsAssumption == MaxSessions \in Nat \ {0}

VARIABLES
  session,      \* the content that is loaded, 0 for none
  sessions,     \* how many were loaded
  use_sram,     \* rarch_use_sram
  interval,     \* settings->uints.autosave_interval # 0
  netplay,      \* "off", "enabled" (netplay_enabled), "on" (netplay_data)
  runloop_autosave,
  sram,
  file,
  saved,        \* what the last content left in the file, Gone while one is loaded
  main,         \* where the main thread is
  cont,         \* what it does after autosave_deinit
  list,         \* autosave_state.list
  locked,       \* handles whose lock the main thread holds
  handle        \* the autosave objects and their threads

mvars == <<session, sessions, use_sram, interval, netplay, runloop_autosave, saved, cont>>
vars == <<mvars, sram, file, main, list, locked, handle>>

(* started: rarch_use_sram when the object was made (history) *)
NoThread == [pc |-> "none", quit |-> FALSE, buffer |-> Gone, session |-> 0, started |-> FALSE]

Init ==
  /\ session = 0 /\ sessions = 0
  /\ use_sram = FALSE /\ interval \in BOOLEAN /\ netplay = "off"
  /\ runloop_autosave = FALSE
  /\ sram = Gone /\ file \in Values /\ saved = file
  /\ main = "idle" /\ cont = "none"
  /\ list = NoHandle /\ locked = {}
  /\ handle = [h \in Handles |-> NoThread]

Go(h, pc) == handle' = [handle EXCEPT ![h].pc = pc]

-----------------------------------------------------------------------------
(* autosave_thread *)

CheckQuit(h) ==
  /\ handle[h].pc = "check"
  /\ Go(h, IF handle[h].quit THEN "done" ELSE "copy")
  /\ UNCHANGED <<mvars, sram, file, main, list, locked>>

(* the core's memory the handle points to *)
retro_buffer(h) == IF handle[h].session = session THEN sram ELSE Gone

(* mutant: the SRAM is read without the lock *)
Copy_NoLock(h) ==
  /\ handle[h].pc = "copy"
  /\ IF retro_buffer(h) # handle[h].buffer \/ retro_buffer(h) = Torn
     THEN handle' = [handle EXCEPT ![h].buffer = retro_buffer(h), ![h].pc = "open"]
     ELSE Go(h, "cond")
  /\ UNCHANGED <<mvars, sram, file, main, list, locked>>

(* under save->lock *)
Copy(h) ==
  /\ handle[h].pc = "copy"
  /\ h \notin locked
  /\ IF retro_buffer(h) # handle[h].buffer \/ retro_buffer(h) = Torn
     THEN handle' = [handle EXCEPT ![h].buffer = retro_buffer(h), ![h].pc = "open"]
     ELSE Go(h, "cond")
  /\ UNCHANGED <<mvars, sram, file, main, list, locked>>

(* the file is truncated, or cannot be opened *)
OpenFile(h) ==
  /\ handle[h].pc = "open"
  /\ \/ file' = Partial /\ Go(h, "write")
     \/ UNCHANGED file /\ Go(h, "cond")
  /\ UNCHANGED <<mvars, sram, main, list, locked>>

(* "Failed to autosave SRAM. Disk might be full." leaves what was written  *)
WriteFile(h) ==
  /\ handle[h].pc = "write"
  /\ file' \in {handle[h].buffer, Partial}
  /\ Go(h, "cond")
  /\ UNCHANGED <<mvars, sram, main, list, locked>>

(* takes cond_lock, and keeps it unless it is to quit *)
CondLock(h) ==
  /\ handle[h].pc = "cond"
  /\ Go(h, IF handle[h].quit THEN "check" ELSE "sleep")
  /\ UNCHANGED <<mvars, sram, file, main, list, locked>>

(* scond_wait_timeout releases cond_lock *)
CondWait(h) ==
  /\ handle[h].pc = "sleep"
  /\ Go(h, "wait")
  /\ UNCHANGED <<mvars, sram, file, main, list, locked>>

(* the interval is over *)
Timeout(h) ==
  /\ handle[h].pc = "wait"
  /\ Go(h, "check")
  /\ UNCHANGED <<mvars, sram, file, main, list, locked>>

Thread(h) == \/ CheckQuit(h) \/ Copy(h) \/ OpenFile(h) \/ WriteFile(h)
             \/ CondLock(h) \/ CondWait(h) \/ Timeout(h)

-----------------------------------------------------------------------------
(* autosave_free, on the main thread *)

(* mutant: cond_lock is not taken *)
SetQuit_NoLock ==
  /\ main = "quit"
  /\ handle' = [handle EXCEPT ![list].quit = TRUE]
  /\ main' = "signal"
  /\ UNCHANGED <<mvars, sram, file, list, locked>>

(* quit is set under cond_lock *)
SetQuit ==
  /\ main = "quit"
  /\ handle[list].pc # "sleep"
  /\ handle' = [handle EXCEPT ![list].quit = TRUE]
  /\ main' = "signal"
  /\ UNCHANGED <<mvars, sram, file, list, locked>>

Signal ==
  /\ main = "signal"
  /\ main' = "join"
  /\ handle' = [handle EXCEPT ![list].pc = IF @ = "wait" THEN "check" ELSE @]
  /\ UNCHANGED <<mvars, sram, file, list, locked>>

(* sthread_join, and the objects are freed *)
Join ==
  /\ main = "join"
  /\ handle[list].pc = "done"
  /\ handle' = [handle EXCEPT ![list] = NoThread]
  /\ list' = NoHandle
  /\ main' = cont /\ cont' = "none"
  /\ UNCHANGED <<session, sessions, use_sram, interval, netplay, runloop_autosave,
                 saved, sram, file, locked>>

(* autosave_deinit, before the main thread goes on at k *)
autosave_deinit(k) ==
  IF list = NoHandle THEN main' = k /\ UNCHANGED cont
  ELSE main' = "quit" /\ cont' = k

(* retroarch_autosave_deinit *)
retroarch_autosave_deinit(k) ==
  IF use_sram THEN autosave_deinit(k) ELSE main' = k /\ UNCHANGED cont

-----------------------------------------------------------------------------
(* commands of the main thread, between two frames *)

(* bound: there is a handle for autosave_init to make *)
RoomForHandle ==
  \E h \in Handles : handle[h].pc = "none" \/ (use_sram /\ h = list)

(* The rest of CMD_EVENT_AUTOSAVE_INIT.  The new thread starts from a copy *)
(* of the SRAM.                                                            *)
AutosaveInit ==
  /\ main = "init"
  /\ main' = "idle"
  /\ IF interval /\ netplay = "off" /\ session # 0
     THEN \E h \in Handles :
            /\ handle[h].pc = "none"
            /\ handle' = [handle EXCEPT ![h] =
                 [pc |-> "check", quit |-> FALSE, buffer |-> sram,
                  session |-> session, started |-> use_sram]]
            /\ list' = h
            /\ runloop_autosave' = TRUE
     ELSE /\ runloop_autosave' = (runloop_autosave /\ (~interval \/ netplay # "off"))
          /\ UNCHANGED <<handle, list>>
  /\ UNCHANGED <<session, sessions, use_sram, interval, netplay, saved, cont,
                 sram, file, locked>>

(* CMD_EVENT_AUTOSAVE_INIT, from the menu (which has changed the interval) *)
(* or after a disk image was appended.                                     *)
AutosaveCommand(i) ==
  /\ main = "idle"
  /\ RoomForHandle
  /\ interval' = i
  /\ retroarch_autosave_deinit("init")
  /\ UNCHANGED <<session, sessions, use_sram, netplay, runloop_autosave, saved,
                 sram, file, list, locked, handle>>

(* Netplay is switched on before a content is loaded.                      *)
NetplayEnable ==
  /\ main = "idle" /\ session = 0 /\ netplay = "off"
  /\ netplay' = "enabled"
  /\ UNCHANGED <<session, sessions, use_sram, interval, runloop_autosave, saved,
                 cont, sram, file, main, list, locked, handle>>

(* mutant: starting netplay leaves autosave running *)
NetplayInit_KeepsAutosave(ok) ==
  /\ main = "idle" /\ session # 0
  /\ netplay' = IF ok THEN "on" ELSE "enabled"
  /\ UNCHANGED <<session, sessions, use_sram, interval, runloop_autosave, saved,
                 cont, main, sram, file, list, locked, handle>>

(* Netplay is enabled and CMD_EVENT_NETPLAY_INIT starts it: "Disable rewind *)
(* & SRAM autosave if it was enabled".  If it cannot connect it stays      *)
(* enabled.                                                                *)
NetplayInit(ok) ==
  /\ main = "idle" /\ session # 0
  /\ netplay' = IF ok THEN "on" ELSE "enabled"
  /\ IF ok THEN autosave_deinit("idle") ELSE UNCHANGED <<cont, main>>
  /\ UNCHANGED <<session, sessions, use_sram, interval, runloop_autosave, saved,
                 sram, file, list, locked, handle>>

(* CMD_EVENT_NETPLAY_DISCONNECT *)
NetplayDisconnect ==
  /\ main = "idle" /\ session # 0 /\ netplay # "off"
  /\ RoomForHandle
  /\ netplay' = "off"
  /\ IF interval THEN retroarch_autosave_deinit("init") ELSE UNCHANGED <<cont, main>>
  /\ UNCHANGED <<session, sessions, use_sram, interval, runloop_autosave, saved,
                 sram, file, list, locked, handle>>

(* event_load_save_files, CMD_EVENT_NETPLAY_INIT, path_init_savefile.      *)
LoadContent(used, ok) ==
  /\ main = "idle" /\ session = 0 /\ sessions < MaxSessions
  /\ RoomForHandle
  /\ sessions' = sessions + 1 /\ session' = sessions + 1
  /\ use_sram' = used
  /\ sram' = file
  /\ netplay' = IF netplay = "off" THEN "off" ELSE IF ok THEN "on" ELSE "enabled"
  /\ LET k == IF used THEN "init" ELSE "idle"
     IN IF used \/ netplay' = "on" THEN autosave_deinit(k) ELSE main' = k /\ UNCHANGED cont
  /\ saved' = Gone
  /\ UNCHANGED <<interval, runloop_autosave, file, list, locked, handle>>

(* RARCH_CTL_MAIN_DEINIT: netplay, then autosave.                          *)
CloseContent ==
  /\ main = "idle" /\ session # 0
  /\ netplay' = IF netplay = "on" THEN "off" ELSE netplay
  /\ retroarch_autosave_deinit("save")
  /\ UNCHANGED <<session, sessions, use_sram, interval, runloop_autosave, saved,
                 sram, file, list, locked, handle>>

(* mutant: where autosave is on, the final save is left to it *)
SaveFiles_Skip(ok) ==
  /\ main = "save"
  /\ saved' = IF use_sram THEN IF ok THEN sram ELSE Partial ELSE file
  /\ file' = IF interval THEN file ELSE saved'
  /\ main' = "idle" /\ session' = 0 /\ sram' = Gone
  /\ UNCHANGED <<sessions, use_sram, interval, netplay, runloop_autosave, cont,
                 list, locked, handle>>

(* event_save_files, then the core is unloaded, its memory with it.        *)
SaveFiles(ok) ==
  /\ main = "save"
  /\ saved' = IF use_sram THEN IF ok THEN sram ELSE Partial ELSE file
  /\ file' = saved'
  /\ main' = "idle" /\ session' = 0 /\ sram' = Gone
  /\ UNCHANGED <<sessions, use_sram, interval, netplay, runloop_autosave, cont,
                 list, locked, handle>>

-----------------------------------------------------------------------------
(* frames *)

(* runloop_iterate up to core_run, in which the core writes to its SRAM.   *)
BeginFrame ==
  /\ main = "idle" /\ session # 0
  /\ locked' = IF runloop_autosave THEN {list} \ {NoHandle} ELSE {}
  /\ main' = "run"
  /\ sram' = Torn
  /\ UNCHANGED <<mvars, file, list, handle>>

(* mutant: the frame ends without autosave_unlock *)
EndFrame_KeepsLock(v) ==
  /\ main = "run"
  /\ sram' = v
  /\ main' = "idle"
  /\ UNCHANGED <<mvars, file, list, locked, handle>>

EndFrame(v) ==
  /\ main = "run"
  /\ sram' = v
  /\ locked' = {}
  /\ main' = "idle"
  /\ UNCHANGED <<mvars, file, list, handle>>

(* netplay_sync_post_frame replays: autosave_lock inside of core_run.      *)
ReplayLock ==
  /\ main = "run" /\ netplay = "on"
  /\ main' = "replay"
  /\ UNCHANGED <<mvars, sram, file, list, locked, handle>>

Replay ==
  /\ main = "replay"
  /\ list \notin locked
  /\ main' = "run"
  /\ UNCHANGED <<mvars, sram, file, list, locked, handle>>

(* netplay_disconnect by netplay_pre_frame or netplay_post_frame.          *)
HangUp ==
  /\ main = "run" /\ netplay = "on"
  /\ netplay' = "off"
  /\ UNCHANGED <<session, sessions, use_sram, interval, runloop_autosave, saved,
                 cont, sram, file, main, list, locked, handle>>

(* core_unserialize, for rewind or to load a state: no lock is taken.      *)
BeginUnserialize ==
  /\ main = "idle" /\ session # 0
  /\ main' = "unserialize"
  /\ sram' = Torn
  /\ UNCHANGED <<mvars, file, list, locked, handle>>

EndUnserialize(v) ==
  /\ main = "unserialize"
  /\ main' = "idle"
  /\ sram' = v
  /\ UNCHANGED <<mvars, file, list, locked, handle>>

Deinit == SetQuit \/ Signal \/ Join

Main ==
  \/ Deinit \/ AutosaveInit \/ NetplayEnable \/ NetplayDisconnect \/ CloseContent
  \/ BeginFrame \/ ReplayLock \/ Replay \/ HangUp \/ BeginUnserialize
  \/ \E i \in BOOLEAN : AutosaveCommand(i) \/ NetplayInit(i) \/ SaveFiles(i)
  \/ \E used, ok \in BOOLEAN : LoadContent(used, ok)
  \/ \E v \in Values : EndFrame(v) \/ EndUnserialize(v)

Next == Main \/ \E h \in Handles : Thread(h)

Spec == Init /\ [][Next]_vars

(* Both threads run.  cond_lock is free for the whole interval the thread  *)
(* sleeps, seconds, so the main thread gets it: strong fairness.           *)
FairSpec == /\ Spec
            /\ SF_vars(SetQuit) /\ WF_vars(Signal) /\ WF_vars(Join)
            /\ \A h \in Handles : WF_vars(Thread(h))

-----------------------------------------------------------------------------
(* The final save of a closed content is the last one: the file holds the  *)
(* SRAM as the content left it, whatever a thread was writing, unless a    *)
(* thread was started for a content whose SRAM is not to be saved.         *)
FinalSaveStands ==
  /\ session = 0
  /\ \A h \in Handles : handle[h].pc # "none" => handle[h].started
  => file = saved

(* The thread never copies SRAM the core is writing to, so runloop_autosave*)
(* is set whenever there is a handle to lock.                              *)
NoCopyInFrame ==
  [][\A h \in Handles : main = "run" /\ handle[h].started =>
       handle'[h].buffer = handle[h].buffer]_vars

(* Netplay locks autosave from within core_run, which runs with autosave   *)
(* locked: that is no deadlock only because no handle exists by then.      *)
NoSelfDeadlock == main = "replay" => list \notin locked

(* autosave_free's signal is not lost: once it was sent, the thread does   *)
(* not sleep through another interval.                                     *)
SignalArrives == main = "join" => handle[list].pc # "wait"

(* autosave_deinit returns. *)
DeinitReturns == main = "quit" ~> main \notin {"quit", "signal", "join"}

=============================================================================
