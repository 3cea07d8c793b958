---------------------------- MODULE NetplaySync ----------------------------
(***************************************************************************)
(* network/netplay: the synchronisation of peers that all play.            *)
(*                                                                         *)
(* Every peer runs the core on its own.  It sends its input of each frame, *)
(* guesses the input it has not read yet, and when a guess was wrong loads *)
(* the state of that frame and replays.  Clients talk to the server only,  *)
(* which forwards.                                                         *)
(*                                                                         *)
(* A frame of a peer is three steps: netplay_sync_pre_frame saves the      *)
(* state, reads the local input and sends it; netplay_get_cmd handles one  *)
(* command, as long as there is input; the rest of netplay_poll decides    *)
(* whether to stall, the core runs, netplay_sync_post_frame rewinds and    *)
(* replays.  The connections deliver in order and lose nothing             *)
(* (SocketBuffer).                                                         *)
(*                                                                         *)
(* The state of the core is the sequence of the inputs it was run with,    *)
(* which is what a deterministic core depends on, and its CRC is that      *)
(* state: equal CRCs mean equal states.  Each player has a joypad of its   *)
(* own.  The pointers into the ring of frames move with their counts, so   *)
(* frame f is in slot f % Size; a slot that is not used has frame -1.      *)
(***************************************************************************)
EXTENDS Integers, SequencesExt

CONSTANTS Client,            \* client numbers, from 1
          Input,             \* [player -> the <<arrows, buttons>> it may press]
          MaxStall,          \* NETPLAY_MAX_STALL_FRAMES
          LatencyMin,        \* [peer -> netplay_input_latency_frames_min]
          LatencyMax,        \* [peer -> that and ..._frames_range]
          CheckFrames,       \* netplay->check_frames
          StallAhead,        \* 3: how far ahead a client is told to stall
          MaxReqStallTime,   \* NETPLAY_MAX_REQ_STALL_TIME
          MaxReqStallFrequency, \* NETPLAY_MAX_REQ_STALL_FREQUENCY
          MaxFrame           \* bound: frames the core runs

Server == 0
Player == {Server} \cup Client
Zero   == <<0, 0>>
NoInput == <<>>
NoCrc  == <<>>
None   == -1

ASSUME ClientAssumption ==
  Client \subseteq Nat \ {0} /\ Client # {} /\ IsFiniteSet(Client)
ASSUME InputAssumption ==
  \A p \in Player : Input[p] # {} /\ \A i \in Input[p] : Len(i) = 2
ASSUME BoundAssumption ==
  /\ MaxStall \in Nat \ {0, 1}
  /\ LatencyMin \in [Player -> Nat] /\ LatencyMax \in [Player -> Nat]
  /\ \A p \in Player : LatencyMin[p] <= LatencyMax[p]
  /\ CheckFrames \in Nat \ {0} /\ StallAhead \in Nat
  /\ MaxReqStallTime \in Nat /\ MaxReqStallFrequency \in Nat
  /\ MaxFrame \in Nat \ {0}

VARIABLES
  pc,          \* [peer -> "pre": between frames, or "poll"]
  self,        \* self_frame_count: the frame local input is read for
  run,         \* run_frame_count: the frame the core runs next
  other,       \* other_frame_count: all before it is final
  read,        \* [peer -> [player -> read_frame_count]]
  latency,     \* input_latency_frames
  stall,       \* netplay->stall
  stall_frame, \* [client -> frames it was told to stall for, left]
  told,        \* [client -> the server's stall_frame: when it was told]
  buffer,      \* [peer -> the ring of delta frames]
  core,        \* [peer -> state of the core]
  crcs_valid, crc_validity_checked, savestate_request_outstanding,
  chan,        \* [sender -> [receiver -> commands on the way]]
  input        \* history: [player -> its inputs, frame by frame]

counts == <<self, run, other>>
stalls == <<latency, stall, stall_frame, told>>
crcs == <<crcs_valid, crc_validity_checked, savestate_request_outstanding>>
vars == <<pc, counts, read, stalls, buffer, core, crcs, chan, input>>

Peers(p) == IF p = Server THEN Client ELSE {Server}

(* The members of a set of numbers, the least first: the loops count up.   *)
InOrder(S) ==
  CHOOSE s \in [1..Cardinality(S) -> S] :
    \A i, j \in 1..Cardinality(S) : i < j => s[i] < s[j]

-----------------------------------------------------------------------------
(* The ring of delta frames *)

(* netplay_init_buffers: the server may get ahead and behind *)
Size(p) == IF p = Server THEN 2 * (MaxStall + 2) ELSE MaxStall + 2

(* the slot of the ring where frame f is, or is to go *)
Slot(p, f) == buffer[p][f % Size(p)]

(* a slot as netplay_delta_frame_ready prepares it for a frame; its state  *)
(* is not cleared                                                          *)
Cleared(s, f) ==
  [s EXCEPT !.frame = f, !.crc = NoCrc,
            !.real = [c \in Player |-> NoInput],
            !.sim = [c \in Player |-> Zero],
            !.resolved = [c \in Player |-> Zero]]

(* netplay_delta_frame_ready: is the slot free for, or already at, f?  It  *)
(* must not be overwritten before it has been replayed.                    *)
Ready(s, f, first) == s.frame = f \/ first > s.frame

Prepared(s, f) == IF s.frame = f THEN s ELSE Cleared(s, f)

NewSlot == [frame |-> None, crc |-> NoCrc, state |-> <<>>,
            real |-> [c \in Player |-> NoInput],
            sim |-> [c \in Player |-> Zero],
            resolved |-> [c \in Player |-> Zero]]

(* Everyone has joined, has run frame 0 with the input zero and waits to   *)
(* start frame 1; no command is on its way.  (Frames are counted from the  *)
(* last one before that.)                                                  *)
Init ==
  /\ pc = [p \in Player |-> "pre"]
  /\ self = [p \in Player |-> 1] /\ run = self /\ other = self
  /\ read = [p \in Player |-> [c \in Player |-> 1]]
  /\ latency = [p \in Player |-> 0]
  /\ stall = [p \in Player |-> "none"]
  /\ stall_frame = [c \in Client |-> 0] /\ told = [c \in Client |-> 0]
  /\ buffer = [p \in Player |-> [i \in 0..(Size(p) - 1) |->
       IF i = 0 THEN [Cleared(NewSlot, 0) EXCEPT
                        !.real = [c \in Player |-> Zero]]
                ELSE NewSlot]]
  /\ core = [p \in Player |-> <<[c \in Player |-> Zero]>>]
  /\ crcs_valid = [c \in Client |-> TRUE]
  /\ crc_validity_checked = [c \in Client |-> FALSE]
  /\ savestate_request_outstanding = [c \in Client |-> FALSE]
  /\ chan = [p \in Player |-> [q \in Peers(p) |-> <<>>]]
  /\ input = [p \in Player |-> <<Zero>>]

-----------------------------------------------------------------------------
(* Before the frame *)

InputCmd(f, c, i) == [cmd |-> "INPUT", frame |-> f, client |-> c, data |-> i]

(* netplay_send_cur_input: the server adds what it already has of the      *)
(* other players for this frame                                            *)
netplay_send_cur_input(p, s, q) ==
  LET others == {c \in Client \ {q} : p = Server /\ s.real[c] # NoInput}
      cmd(c) == InputCmd(s.frame, c, s.real[c])
      from == InOrder(others)
  IN [k \in 1..Len(from) |-> cmd(from[k])] \o <<cmd(p)>>

(* the ring with the state of the core in the slot of the frame to run *)
Saved(p) ==
  [buffer[p] EXCEPT ![run[p] % Size(p)] =
     IF Ready(@, run[p], other[p])
       THEN [Prepared(@, run[p]) EXCEPT !.state = core[p]]
       ELSE @]

(* The state is saved, and the local input of the frame self is read once  *)
(* and sent; netplay_poll gives up when there is no slot for it: the   *)
(* model then has no step.  Input of frames the bound leaves out is zero.  *)
netplay_sync_pre_frame(p) ==
  LET saved == Saved(p)
      at == self[p] % Size(p)
      s == Prepared(saved[at], self[p])
  IN
  /\ pc[p] = "pre" /\ Ready(saved[at], self[p], other[p])
  /\ pc' = [pc EXCEPT ![p] = "poll"]
  /\ IF s.real[p] # NoInput
       THEN /\ buffer' = [buffer EXCEPT ![p] = [saved EXCEPT ![at] = s]]
            /\ UNCHANGED <<read, chan, input>>
       ELSE \E i \in IF self[p] < MaxFrame THEN Input[p] ELSE {Zero} :
              LET t == [s EXCEPT !.real[p] = i] IN
              /\ buffer' = [buffer EXCEPT ![p] = [saved EXCEPT ![at] = t]]
              /\ read' = [read EXCEPT ![p][p] = self[p] + 1]
              /\ chan' = [chan EXCEPT ![p] = [q \in Peers(p) |->
                            @[q] \o netplay_send_cur_input(p, t, q)]]
              /\ input' = [input EXCEPT ![p] = Append(@, i)]
  /\ UNCHANGED <<counts, stalls, core, crcs>>

-----------------------------------------------------------------------------
(* netplay_get_cmd: one command of a connection *)

Received(p, q, name) ==
  pc[p] = "poll" /\ chan[q][p] # <<>> /\ Head(chan[q][p]).cmd = name

Taken(p, q) == [chan EXCEPT ![q][p] = Tail(@)]

(* mutant: the frame the server is at is forwarded with the next one *)
ForwardNow_Past(f) == f < self[Server]

(* "Forward it on if it's past data"; else netplay_send_cur_input does *)
ForwardNow(f) == f <= self[Server]

(* An INPUT that was read before is ignored; one that comes early ends the *)
(* connection (InputsInOrder); one without a slot waits.                   *)
cmd_input(p, q) ==
  LET m == Head(chan[q][p])
      c == IF p = Server THEN q ELSE m.client
      f == read[p][c]
  IN
  /\ Received(p, q, "INPUT")
  /\ IF m.frame < f
       THEN chan' = Taken(p, q) /\ UNCHANGED <<buffer, read>>
       ELSE /\ m.frame = f /\ Ready(Slot(p, f), f, other[p])
            /\ buffer' = [buffer EXCEPT ![p][f % Size(p)] =
                            [Prepared(@, f) EXCEPT !.real[c] = m.data]]
            /\ read' = [read EXCEPT ![p][c] = f + 1]
            /\ chan' = IF p = Server /\ ForwardNow(f)
                 THEN [Taken(p, q) EXCEPT ![p] = [d \in Peers(p) |->
                         IF d = q THEN @[d]
                                  ELSE Append(@[d], InputCmd(f, c, m.data))]]
                 ELSE Taken(p, q)
  /\ UNCHANGED <<pc, counts, stalls, core, crcs, input>>

(* mutant: what was run is taken for final *)
CanCheck_Run(p, f) == f <= run[p]

(* "We've already replayed up to this frame, so we can check it directly" *)
CanCheck(p, f) == f <= other[p]

(* the CRC of a frame no longer, or not yet, in the ring is dropped *)
cmd_crc(p, q) ==
  LET m == Head(chan[q][p])
      s == Slot(p, m.frame)
  IN
  /\ Received(p, q, "CRC")
  /\ chan' = Taken(p, q)
  /\ savestate_request_outstanding' =
       [savestate_request_outstanding EXCEPT ![p] =
          @ \/ (s.frame = m.frame /\ CanCheck(p, m.frame) /\ m.crc # s.state)]
  /\ buffer' = IF s.frame = m.frame /\ ~CanCheck(p, m.frame)
                 THEN [buffer EXCEPT ![p][m.frame % Size(p)].crc = m.crc]
                 ELSE buffer
  /\ UNCHANGED <<pc, counts, read, stalls, core, crcs_valid,
                 crc_validity_checked, input>>

StallTime(frames) == Min({frames, MaxReqStallTime})

(* "We can only stall for one reason at a time" *)
cmd_stall(p, q) ==
  /\ Received(p, q, "STALL")
  /\ IF stall[p] = "none"
       THEN /\ stall' = [stall EXCEPT ![p] = "requested"]
            /\ stall_frame' = [stall_frame EXCEPT ![p] =
                 StallTime(Head(chan[q][p]).frames)]
       ELSE UNCHANGED <<stall, stall_frame>>
  /\ chan' = Taken(p, q)
  /\ UNCHANGED <<pc, counts, read, latency, told, buffer, core, crcs, input>>

-----------------------------------------------------------------------------
(* netplay_resolve_input: the input a frame is run with *)

(* the last input read of player c, by which the next ones are guessed *)
LastRead(p, c) == Slot(p, read[p][c] - 1).real[c]

(* mutant: what was guessed is not given up for what was read *)
Resolved_Guess(p, s, c) ==
  IF s.sim[c] # Zero THEN s.sim[c]
  ELSE IF s.real[c] # NoInput THEN s.real[c] ELSE Zero

(* the frame is not read yet, and there is something to guess by *)
MustGuess(p, s, c) == /\ s.real[c] = NoInput /\ read[p][c] <= s.frame
                      /\ LastRead(p, c) # NoInput

Resolved(p, s, c) ==
  IF s.real[c] # NoInput THEN s.real[c]
  ELSE IF MustGuess(p, s, c) THEN s.sim[c] ELSE Zero

(* "In resimulation mode, we only copy the buttons" *)
Guessed(p, s, c, resim) ==
  IF ~MustGuess(p, s, c) THEN s.sim[c]
  ELSE IF resim THEN <<s.sim[c][1], LastRead(p, c)[2]>>
  ELSE LastRead(p, c)

netplay_resolve_input(p, s, resim) ==
  LET g == [s EXCEPT !.sim = [c \in Player |-> Guessed(p, s, c, resim)]]
  IN [g EXCEPT !.resolved = [c \in Player |-> Resolved(p, g, c)]]

-----------------------------------------------------------------------------
(* The end of netplay_poll *)

(* netplay_update_unread_ptr, for players: the server plays, so            *)
(* server_frame_count is read[p][Server]                                   *)
unread(p) == Min({read[p][c] : c \in Player})

(* The latency follows the measured time of a frame, of which nothing is   *)
(* known but that it is 0 until something was replayed: it may stay, and   *)
(* otherwise goes to what is configured.                                   *)
NewLatency(p) ==
  LET l == latency[p]
      more == l < LatencyMin[p] \/ (run[p] > unread(p) /\ l < LatencyMax[p])
  IN {l} \cup {m \in {l + 1} : more} \cup {m \in {l - 1} : l > LatencyMin[p]}

(* mutant: a peer that ran too fast is not let go on *)
Unstalled_Never(p) == IF stall[p] = "latency" THEN "none" ELSE stall[p]

(* "If we're stalled, consider unstalling" *)
Unstalled(p) ==
  IF \/ stall[p] = "fast" /\ unread(p) + MaxStall - 2 > self[p]
     \/ stall[p] = "latency"
     \/ stall[p] = "requested" /\ stall_frame[p] = 0
    THEN "none" ELSE stall[p]

(* "If we're not stalled, consider stalling" *)
NewStall(p, l) ==
  IF Unstalled(p) # "none" THEN Unstalled(p)
  ELSE IF unread(p) + MaxStall <= self[p] THEN "fast"
  ELSE IF run[p] + l > self[p] THEN "latency"
  ELSE "none"

-----------------------------------------------------------------------------
(* netplay_sync_post_frame *)

(* other_frame_count after the loops that skip right guesses and replay *)
OtherAfter(p, run1) == Max({other[p], Min({unread(p), run1})})

(* netplay_handle_frame_hash on the server, for frames that became final *)
CrcCmds(frames, ring) ==
  LET due == InOrder({f \in frames : f % CheckFrames = 0})
  IN [k \in 1..Len(due) |->
        [cmd |-> "CRC", frame |-> due[k],
         crc |-> ring[due[k] % Size(Server)].state]]

(* netplay_handle_frame_hash on a client: "If the very first check frame   *)
(* is wrong, they probably just don't work", else it asks for a state      *)
CheckCrcs(p, ring, frames) ==
  LET at(f) == ring[f % Size(p)]
      known == {f \in frames : at(f).crc # NoCrc /\ crcs_valid[p]}
      bad == {f \in known : at(f).crc # at(f).state}
      good == {f \in known : \A g \in bad : f < g}
      checked == crc_validity_checked[p] \/ good # {}
  IN
  /\ crc_validity_checked' = [crc_validity_checked EXCEPT ![p] = checked]
  /\ crcs_valid' = [crcs_valid EXCEPT ![p] = @ /\ (bad = {} \/ checked)]
  /\ savestate_request_outstanding' =
       [savestate_request_outstanding EXCEPT ![p] =
          @ \/ (bad # {} /\ checked)]

(* Clients that are too far ahead of the server are told to stall, not too *)
(* often.  A server that plays has read its own input, so it is never      *)
(* behind all of them and does not catch up instead.                       *)
TellToStall(self1, stalled) ==
  {c \in Client : /\ ~stalled /\ self1 + StallAhead < read[Server][c]
                  /\ told[c] + MaxReqStallFrequency < self1}

StallCmd(c, self1) ==
  [cmd |-> "STALL", frames |-> read[Server][c] - self1 + 1]

(* What a server does, or a client, once its frame is final.  ring is the  *)
(* buffer after the replay.                                                *)
ServerPost(ring, frames, self1, stalled) ==
  LET tell == TellToStall(self1, stalled) IN
  /\ chan' = [chan EXCEPT ![Server] = [c \in Client |->
       @[c] \o CrcCmds(frames, ring)
            \o (IF c \in tell THEN <<StallCmd(c, self1)>> ELSE <<>>)]]
  /\ told' = [c \in Client |-> IF c \in tell THEN self1 ELSE told[c]]
  /\ UNCHANGED <<crcs, stall_frame>>

ClientPost(p, ring, frames) ==
  /\ CheckCrcs(p, ring, frames)
  /\ stall_frame' = [stall_frame EXCEPT ![p] =
       IF stall[p] = "requested" /\ @ > 0 THEN @ - 1 ELSE @]
  /\ UNCHANGED <<chan, told>>

(* netplay_pre_frame: does the core not run?  At the bound it does not. *)
Stalled(p, st) == st # "none" \/ run[p] = MaxFrame

(* netplay_resolve_input for each frame that is not final *)
ResolvedAgain(p, b, open) ==
  [f \in open |-> netplay_resolve_input(p, b[f % Size(p)], TRUE)]

(* the first frame that was run with bad input, or the last *)
ReplayFrom(p, b, again, last) ==
  Min({f \in DOMAIN again : again[f].resolved # b[f % Size(p)].resolved}
        \cup {last})

(* The replay: it loads the state of the frame first, and saves those of   *)
(* the frames that follow.                                                 *)
Replayed(p, b, again, first, last) ==
  LET loaded == b[first % Size(p)].state IN
  [f \in first..last |->
     loaded \o [k \in 1..(f - first) |-> again[first + k - 1].resolved]]

(* The poll ends; unless the peer stalls the core runs.  All frames that   *)
(* are not final are resolved again, and replayed from the first whose     *)
(* input changed.                                                          *)
netplay_sync_post_frame(p) == \E l \in NewLatency(p) :
  LET st == NewStall(p, l)
      stalled == Stalled(p, st)
      run1 == IF stalled THEN run[p] ELSE run[p] + 1
      self1 == IF (~stalled \/ st = "latency") /\ self[p] < run1 + l
                 THEN self[p] + 1 ELSE self[p]
      other1 == OtherAfter(p, run1)
      b == [buffer[p] EXCEPT ![run[p] % Size(p)] =
              netplay_resolve_input(p, @, FALSE)]
      again == ResolvedAgain(p, b, other[p]..(run1 - 1))
      first == ReplayFrom(p, b, again, run1)
      state == Replayed(p, b, again, first, run1)
      ring == [i \in DOMAIN b |->
                 LET f == b[i].frame IN
                 IF f \notin DOMAIN again THEN b[i]
                 ELSE IF f < first THEN again[f]
                 ELSE [again[f] EXCEPT !.state = state[f]]]
      final == other[p]..(other1 - 1)
  IN
  /\ pc[p] = "poll"
  /\ pc' = [pc EXCEPT ![p] = "pre"]
  /\ latency' = [latency EXCEPT ![p] = l]
  /\ stall' = [stall EXCEPT ![p] = st]
  /\ run' = [run EXCEPT ![p] = run1]
  /\ self' = [self EXCEPT ![p] = self1]
  /\ other' = [other EXCEPT ![p] = other1]
  /\ core' = [core EXCEPT ![p] =
       IF first < run1 THEN state[run1]
       ELSE IF stalled THEN @ ELSE Append(@, b[run[p] % Size(p)].resolved)]
  /\ buffer' = [buffer EXCEPT ![p] = ring]
  /\ IF p = Server THEN ServerPost(ring, final, self1, stalled)
                   ELSE ClientPost(p, ring, final)
  /\ UNCHANGED <<read, input>>

-----------------------------------------------------------------------------
GetCmd(p, q) == cmd_input(p, q) \/ cmd_crc(p, q) \/ cmd_stall(p, q)

Frame(p) == netplay_sync_pre_frame(p) \/ netplay_sync_post_frame(p)

Next == \E p \in Player : Frame(p) \/ \E q \in Peers(p) : GetCmd(p, q)

Spec == Init /\ [][Next]_vars

(* The frontend goes on running frames, and what is sent arrives while     *)
(* some poll is still reading.                                             *)
FairSpec == /\ Spec
            /\ \A p \in Player : /\ WF_vars(Frame(p))
                                 /\ \A q \in Peers(p) : SF_vars(GetCmd(p, q))

-----------------------------------------------------------------------------
(* Properties *)

Pressed == (UNION {Input[p] : p \in Player}) \cup {Zero}

(* what a peer will not take back: the state of the core at frame other *)
History(p) == IF other[p] = run[p] THEN core[p] ELSE Slot(p, other[p]).state

Lockstep == INSTANCE NetplayLockstep
              WITH Input <- Pressed,
                   history <- [p \in Player |-> History(p)]

(* Whatever is guessed, replayed and delayed: the frames a peer has made   *)
(* final are those of the one game in which each input happens at its      *)
(* frame, and it makes them final in order.                                *)
ImplementsLockstep == Lockstep!Spec

(* The checks the server sends never fail, although they come before the   *)
(* client has run the frame, while it is still guessing, or late: no state *)
(* is asked for, and checking is not given up.                             *)
CrcsAgree == \A c \in Client : /\ crcs_valid[c]
                               /\ ~savestate_request_outstanding[c]

(* where the inputs of player c are among the commands on the way *)
InputsOf(s, c) == {k \in 1..Len(s) : s[k].cmd = "INPUT" /\ s[k].client = c}

(* The input of each player is on its way to each peer once per frame and  *)
(* in order, whether it was forwarded at once or when the server came to   *)
(* its frame, and the server never sends a frame it has not come to.       *)
InputsInOrder ==
  \A p \in Player : \A q \in Peers(p) : \A c \in Player :
    LET on == chan[q][p]
        at == InputsOf(on, c)
    IN \A k \in at :
         /\ on[k].frame = read[p][c] + Cardinality({j \in at : j < k})
         /\ q = Server => on[k].frame <= self[q]

(* No stall lasts: all peers run all frames, and in the end they are in    *)
(* the same state, that of the inputs really given.                        *)
PeersConverge ==
  <>[](/\ \A p \in Player : run[p] = MaxFrame
       /\ \A p \in Player :
            core[p] = [k \in 1..MaxFrame |-> [c \in Player |-> input[c][k]]])

=============================================================================
