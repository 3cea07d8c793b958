--------------------------- MODULE AutosaveProofs ---------------------------
(***************************************************************************)
(* Proofs about Autosave for any number of handles, contents and values.   *)
(***************************************************************************)
EXTENDS Autosave, TLAPS

USE ValuesAssumption, HandlesAssumption, SessionsAssumption

Data == Values \cup {Torn, Partial, Gone}
ThreadPlace == {"none", "check", "copy", "open", "write", "cond", "sleep",
                "wait", "done"}
MainPlace == {"idle", "init", "quit", "signal", "join", "save", "run",
              "replay", "unserialize"}
Freeing == {"quit", "signal", "join"}

TypeOK ==
  /\ session \in Nat /\ sessions \in Nat
  /\ use_sram \in BOOLEAN /\ interval \in BOOLEAN
  /\ runloop_autosave \in BOOLEAN
  /\ netplay \in {"off", "enabled", "on"}
  /\ sram \in Data /\ file \in Data /\ saved \in Data
  /\ main \in MainPlace /\ cont \in {"none", "idle", "init", "save"}
  /\ list \in Handles \cup {NoHandle} /\ locked \in SUBSET Handles
  /\ handle \in [Handles -> [pc : ThreadPlace, quit : BOOLEAN, buffer : Data,
                             session : Nat, started : BOOLEAN]]

Started(h) == handle[h].started

(* A handle made for a content whose SRAM is saved is the one in           *)
(* autosave_state, and is gone before the content's final save.            *)
OneStarted ==
  /\ \A h \in Handles : handle[h].pc = "none" => ~Started(h)
  /\ \A h \in Handles : Started(h) =>
       /\ h = list /\ use_sram /\ runloop_autosave /\ session # 0
       /\ main \in {"run", "replay"} => h \in locked
  /\ use_sram /\ (session = 0 \/ main \in {"init", "save"}) => list = NoHandle
  /\ session = 0 => main \in {"idle", "init"}

(* autosave_deinit frees the handle, and its thread, once told to quit,    *)
(* goes to sleep no more.                                                  *)
FreesHandle ==
  main \in Freeing =>
    /\ list # NoHandle /\ cont # "none"
    /\ main # "quit" => handle[list].quit
    /\ main = "signal" => handle[list].pc # "sleep"
    /\ main = "join" => handle[list].pc \notin {"sleep", "wait"}

(* Netplay runs without autosave. *)
NoneInNetplay ==
  /\ netplay = "on" /\ main \notin Freeing => list = NoHandle
  /\ main = "replay" => netplay = "on"

IInv == TypeOK /\ OneStarted /\ FreesHandle /\ NoneInNetplay /\ FinalSaveStands

LEMMA InitIInv == Init => IInv
<1> SUFFICES ASSUME Init PROVE IInv
  OBVIOUS
<1> USE DEF Init
<1>1. TypeOK
  BY DEF TypeOK, Data, ThreadPlace, MainPlace, NoThread
<1>2. \A h \in Handles : ~Started(h)
  BY DEF Started, NoThread
<1>3. OneStarted
  BY <1>2 DEF OneStarted
<1>4. FreesHandle /\ NoneInNetplay /\ FinalSaveStands
  BY DEF FreesHandle, Freeing, NoneInNetplay, FinalSaveStands
<1> QED BY <1>1, <1>3, <1>4 DEF IInv

(* What a thread does to its own handle.                                   *)
LEMMA ThreadMoves ==
  ASSUME TypeOK, NEW h \in Handles, Thread(h)
  PROVE  /\ handle[h].pc # "none" /\ handle'[h].pc # "none"
         /\ handle' \in [Handles -> [pc : ThreadPlace, quit : BOOLEAN,
                          buffer : Data, session : Nat, started : BOOLEAN]]
         /\ \A g \in Handles \ {h} : handle'[g] = handle[g]
         /\ handle'[h].quit = handle[h].quit
         /\ handle'[h].started = handle[h].started
         /\ handle'[h].pc = "sleep" => ~handle[h].quit
         /\ handle'[h].pc = "wait" => handle[h].pc = "sleep"
         /\ file' \in Data
         /\ UNCHANGED <<mvars, sram, main, list, locked>>
         /\ handle'[h].buffer # handle[h].buffer => h \notin locked
<1> USE DEF TypeOK, Go, ThreadPlace, Data
<1>1. CASE CheckQuit(h) \/ CondLock(h) \/ CondWait(h) \/ Timeout(h)
  BY <1>1 DEF CheckQuit, CondLock, CondWait, Timeout
<1>2. CASE Copy(h)
  BY <1>2 DEF Copy, retro_buffer
<1>3. CASE OpenFile(h)
  BY <1>3 DEF OpenFile
<1>4. CASE WriteFile(h)
  BY <1>4 DEF WriteFile
<1> QED BY <1>1, <1>2, <1>3, <1>4 DEF Thread

LEMMA ThreadStep ==
  ASSUME IInv, NEW h \in Handles, Thread(h)
  PROVE  IInv'
<1> USE DEF IInv
<1>1. TypeOK'
  BY ThreadMoves DEF TypeOK, mvars
<1>2. \A g \in Handles : /\ handle'[g].started = handle[g].started
                         /\ handle'[g].pc = "none" <=> handle[g].pc = "none"
                         /\ handle'[g].quit = handle[g].quit
                         /\ handle'[g].pc = "sleep" =>
                              ~handle[g].quit \/ handle[g].pc = "sleep"
                         /\ handle'[g].pc = "wait" =>
                              handle[g].pc \in {"sleep", "wait"}
  BY ThreadMoves
<1>3. UNCHANGED <<mvars, main, list, locked>>
  BY ThreadMoves
<1>4. OneStarted'
  BY <1>2, <1>3 DEF OneStarted, Started, mvars
<1>5. FreesHandle'
  <2>1. list # NoHandle => list \in Handles
    BY DEF TypeOK
  <2> QED BY <2>1, <1>2, <1>3 DEF FreesHandle, Freeing, mvars
<1>6. NoneInNetplay'
  BY <1>3 DEF NoneInNetplay, mvars
<1>7. FinalSaveStands'
  BY <1>2, <1>3, ThreadMoves DEF FinalSaveStands, OneStarted, Started, mvars
<1> QED BY <1>1, <1>4, <1>5, <1>6, <1>7

(* autosave_free *)
LEMMA DeinitStep == ASSUME IInv, Deinit PROVE IInv'
<1> USE DEF IInv
<1>1. list \in Handles /\ session # 0
  BY DEF Deinit, SetQuit, Signal, Join, FreesHandle, Freeing, TypeOK, OneStarted
<1>2. CASE SetQuit \/ Signal
  <2>1. TypeOK'
    <3>1. CASE SetQuit
      BY <1>1, <3>1 DEF SetQuit, TypeOK, MainPlace, mvars
    <3>2. CASE Signal
      BY <1>1, <3>2 DEF Signal, TypeOK, MainPlace, ThreadPlace, mvars
    <3> QED BY <1>2, <3>1, <3>2
  <2>2. \A g \in Handles : /\ handle'[g].started = handle[g].started
                           /\ handle'[g].pc = "none" <=> handle[g].pc = "none"
    BY <1>1, <1>2 DEF SetQuit, Signal, TypeOK
  <2>3. OneStarted'
    BY <1>2, <2>2 DEF SetQuit, Signal, OneStarted, Started, mvars
  <2>4. FreesHandle'
    BY <1>1, <1>2 DEF SetQuit, Signal, FreesHandle, Freeing, TypeOK, mvars
  <2>5. NoneInNetplay' /\ FinalSaveStands'
    BY <1>1, <1>2 DEF SetQuit, Signal, NoneInNetplay, Freeing, FinalSaveStands, mvars
  <2> QED BY <2>1, <2>3, <2>4, <2>5
<1>3. CASE Join
  <2>1. TypeOK'
    BY <1>1, <1>3 DEF Join, TypeOK, MainPlace, ThreadPlace, NoThread, Data, Freeing,
                      FreesHandle
  <2>2. \A g \in Handles : handle'[g] = IF g = list THEN NoThread ELSE handle[g]
    BY <1>1, <1>3 DEF Join, TypeOK
  <2>3. \A g \in Handles : ~handle'[g].started
    BY <2>2 DEF OneStarted, Started, NoThread
  <2>4. OneStarted' /\ FinalSaveStands'
    BY <1>1, <1>3, <2>3 DEF Join, OneStarted, Started, FinalSaveStands
  <2>5. FreesHandle' /\ NoneInNetplay'
    BY <1>3 DEF Join, FreesHandle, Freeing, NoneInNetplay, TypeOK
  <2> QED BY <2>1, <2>4, <2>5
<1> QED BY <1>2, <1>3 DEF Deinit

LEMMA AutosaveInitStep == ASSUME IInv, AutosaveInit PROVE IInv'
<1> USE DEF IInv
<1>1. main = "init" /\ main' = "idle" /\ (use_sram => list = NoHandle)
  BY DEF AutosaveInit, OneStarted
<1>2. \A g \in Handles : ~Started(g)
  BY <1>1 DEF OneStarted
<1>3. CASE UNCHANGED <<handle, list>>
  BY <1>1, <1>2, <1>3
     DEF AutosaveInit, TypeOK, MainPlace, OneStarted, Started, FreesHandle,
         Freeing, NoneInNetplay, FinalSaveStands
<1>4. ASSUME NEW h \in Handles, session # 0, netplay = "off",
             handle' = [handle EXCEPT ![h] =
                 [pc |-> "check", quit |-> FALSE, buffer |-> sram,
                  session |-> session, started |-> use_sram]],
             list' = h, runloop_autosave' = TRUE
      PROVE  IInv'
  <2>1. \A g \in Handles : handle'[g].started => g = h /\ use_sram
    BY <1>2, <1>4 DEF TypeOK, Started
  <2>2. \A g \in Handles : handle'[g].pc = "none" => ~handle'[g].started
    BY <1>2, <1>4 DEF TypeOK, Started
  <2>3. TypeOK'
    BY <1>1, <1>4 DEF AutosaveInit, TypeOK, MainPlace, ThreadPlace
  <2>4. OneStarted' /\ FinalSaveStands'
    BY <1>1, <1>4, <2>1, <2>2
       DEF AutosaveInit, OneStarted, Started, FinalSaveStands
  <2>5. FreesHandle' /\ NoneInNetplay'
    BY <1>1, <1>4 DEF AutosaveInit, FreesHandle, Freeing, NoneInNetplay
  <2> QED BY <2>3, <2>4, <2>5
<1> QED BY <1>3, <1>4 DEF AutosaveInit

(* The commands, and autosave_deinit where they begin with it. *)
LEMMA CommandStep ==
  ASSUME IInv, NEW i \in BOOLEAN, NEW ok \in BOOLEAN,
         \/ AutosaveCommand(i) \/ NetplayEnable \/ NetplayInit(ok)
         \/ NetplayDisconnect \/ LoadContent(i, ok) \/ CloseContent
  PROVE  IInv'
<1> USE DEF IInv
<1>1. main = "idle" /\ UNCHANGED <<list, locked, handle, runloop_autosave, file>>
  BY DEF AutosaveCommand, NetplayEnable, NetplayInit, NetplayDisconnect,
         LoadContent, CloseContent
<1> USE DEF autosave_deinit, retroarch_autosave_deinit
<1>2. TypeOK'
  BY <1>1 DEF TypeOK, MainPlace, Data, AutosaveCommand, NetplayEnable, NetplayInit,
     NetplayDisconnect, LoadContent, CloseContent
<1>3. OneStarted'
  BY <1>1 DEF TypeOK, OneStarted, Started, AutosaveCommand, NetplayEnable,
     NetplayInit, NetplayDisconnect, LoadContent, CloseContent
<1>4. FreesHandle'
  BY <1>1 DEF TypeOK, FreesHandle, Freeing, AutosaveCommand, NetplayEnable,
     NetplayInit, NetplayDisconnect, LoadContent, CloseContent
<1>5. NoneInNetplay'
  BY <1>1 DEF NoneInNetplay, Freeing, AutosaveCommand, NetplayEnable,
     NetplayInit, NetplayDisconnect, LoadContent, CloseContent
<1>6. FinalSaveStands'
  BY <1>1 DEF TypeOK, FinalSaveStands, AutosaveCommand, NetplayEnable,
     NetplayInit, NetplayDisconnect, LoadContent, CloseContent
<1> QED BY <1>2, <1>3, <1>4, <1>5, <1>6

(* The final save: no thread of the content is left. *)
LEMMA SaveFilesStep ==
  ASSUME IInv, NEW ok \in BOOLEAN, SaveFiles(ok) PROVE IInv'
<1> USE DEF IInv
<1>1. \A h \in Handles : ~Started(h)
  BY DEF SaveFiles, OneStarted
<1> QED BY <1>1 DEF SaveFiles, TypeOK, MainPlace, Data, OneStarted, Started,
           FreesHandle, Freeing, NoneInNetplay, FinalSaveStands

LEMMA FrameStep ==
  ASSUME IInv, NEW v \in Values,
         \/ BeginFrame \/ EndFrame(v) \/ ReplayLock \/ Replay \/ HangUp
         \/ BeginUnserialize \/ EndUnserialize(v)
  PROVE  IInv'
<1> USE DEF IInv, mvars, BeginFrame, EndFrame, ReplayLock, Replay, HangUp,
            BeginUnserialize, EndUnserialize
<1>1. TypeOK'
  BY DEF TypeOK, MainPlace, Data
<1>2. session # 0 /\ UNCHANGED <<session, handle, list, use_sram, runloop_autosave>>
  BY DEF OneStarted
<1>3. OneStarted'
  BY <1>2 DEF OneStarted, Started, TypeOK
<1>4. FreesHandle' /\ NoneInNetplay'
  BY <1>2 DEF FreesHandle, Freeing, NoneInNetplay
<1>5. FinalSaveStands'
  BY <1>2 DEF FinalSaveStands
<1> QED BY <1>1, <1>3, <1>4, <1>5

LEMMA NextIInv == IInv /\ [Next]_vars => IInv'
<1> SUFFICES ASSUME IInv, [Next]_vars PROVE IInv'
  OBVIOUS
<1>0. PICK w : w \in Values
  OBVIOUS
<1>1. ASSUME NEW h \in Handles, Thread(h) PROVE IInv'
  BY <1>1, ThreadStep
<1>2. CASE Deinit
  BY <1>2, DeinitStep
<1>3. CASE AutosaveInit
  BY <1>3, AutosaveInitStep
<1>4. CASE \/ NetplayEnable \/ NetplayDisconnect \/ CloseContent
           \/ \E i \in BOOLEAN : AutosaveCommand(i) \/ NetplayInit(i)
           \/ \E used, ok \in BOOLEAN : LoadContent(used, ok)
  BY <1>4, CommandStep
<1>5. CASE \E i \in BOOLEAN : SaveFiles(i)
  BY <1>5, SaveFilesStep
<1>6. CASE \/ BeginFrame \/ ReplayLock \/ Replay \/ HangUp \/ BeginUnserialize
           \/ \E v \in Values : EndFrame(v) \/ EndUnserialize(v)
  BY <1>0, <1>6, FrameStep
<1>7. CASE UNCHANGED vars
  BY <1>7 DEF vars, mvars, IInv, TypeOK, OneStarted, Started, FreesHandle,
     NoneInNetplay, FinalSaveStands
<1> QED BY <1>1, <1>2, <1>3, <1>4, <1>5, <1>6, <1>7 DEF Next, Main

LEMMA Inductive == Spec => []IInv
BY InitIInv, NextIInv, PTL DEF Spec

(* The file holds the SRAM as the content left it: no thread of autosave   *)
(* outlives the content it was started for (event_save_files).             *)
THEOREM NothingAfterFinalSave == Spec => []FinalSaveStands
<1>1. IInv => FinalSaveStands
  BY DEF IInv
<1> QED BY <1>1, Inductive, PTL

(* A replay takes no lock that its own frame holds (autosave_lock).        *)
THEOREM ReplayLocksOnce == Spec => []NoSelfDeadlock
<1>1. IInv => NoSelfDeadlock
  BY DEF IInv, TypeOK, NoneInNetplay, Freeing, NoSelfDeadlock
<1> QED BY <1>1, Inductive, PTL

(* autosave_free's signal finds the thread waiting or on its way to see    *)
(* that it is to quit.                                                     *)
THEOREM SignalIsNotLost == Spec => []SignalArrives
<1>1. IInv => SignalArrives
  BY DEF IInv, FreesHandle, Freeing, SignalArrives
<1> QED BY <1>1, Inductive, PTL

(* While the core runs a frame no thread copies its SRAM (autosave_lock).  *)
THEOREM FrameExcludesCopy == Spec => NoCopyInFrame
<1>1. IInv /\ [Next]_vars =>
        [\A h \in Handles : main = "run" /\ handle[h].started =>
           handle'[h].buffer = handle[h].buffer]_vars
  <2> SUFFICES ASSUME IInv, Next, NEW h \in Handles, main = "run",
                      handle[h].started
               PROVE  handle'[h].buffer = handle[h].buffer
    OBVIOUS
  <2>1. h \in locked
    BY DEF IInv, OneStarted, Started
  <2>2. ASSUME NEW g \in Handles, Thread(g)
        PROVE  handle'[h].buffer = handle[h].buffer
    BY <2>1, <2>2, ThreadMoves DEF IInv
  <2>3. CASE Main
    BY <2>3 DEF Main, Deinit, SetQuit, Signal, Join, AutosaveInit, NetplayEnable,
       NetplayDisconnect, CloseContent, BeginFrame, ReplayLock, Replay, HangUp,
       BeginUnserialize, AutosaveCommand, NetplayInit, SaveFiles, LoadContent,
       EndFrame, EndUnserialize
  <2> QED BY <2>2, <2>3 DEF Next
<1> QED BY <1>1, Inductive, PTL DEF Spec, NoCopyInFrame

=============================================================================
