--------------------------- MODULE NetplaySession ---------------------------
(***************************************************************************)
(* network/netplay: who plays.  Clients join and leave, ask to play and to *)
(* watch; the server hands out the input devices and tells everyone.       *)
(*                                                                         *)
(* NetplaySync models what peers do with the input of a fixed set of       *)
(* players.  Here an input is only the number of its frame, and the        *)
(* commands that change the set of players are all there: the order of     *)
(* MODE, INPUT and LOAD_SAVESTATE in a connection decides whether a client *)
(* can follow the server or hangs up on it.                                *)
(*                                                                         *)
(* A frame of the server is three steps.  PreFrame (netplay_sync_pre_frame *)
(* and get_self_input_state) sends the savestate, the input of the frame   *)
(* and the departures due.  RecvCmd handles one command of one client.     *)
(* EndPoll decides whether to stall; if not, the core runs and the next    *)
(* frame begins.  A stalled server goes on polling, with the input of its  *)
(* frame already sent.                                                     *)
(*                                                                         *)
(* Of a client the end of a frame and the start of the next are one step,  *)
(* so the input of its current frame is always read.  It reads commands    *)
(* between these steps.                                                    *)
(*                                                                         *)
(* connected_players is the set of peers that have a device, and           *)
(* device_clients the inverse of client_devices: the code changes the      *)
(* three together at the server, which sends only device_clients to a      *)
(* client that joins.  The view of a client is its client_devices, which a *)
(* MODE replaces; in its device_clients a MODE only adds players, so that  *)
(* after a departure nobody was told of an old device stays there.         *)
(*                                                                         *)
(* Not modelled: slaves, pausing, input latency, stalls the server asks    *)
(* for, a full send buffer, and input that outlives its player.  When a    *)
(* player ahead of the server departs untold and its slot is taken again   *)
(* before the server has come to delay_frame, have_real of the slot is     *)
(* still set for the frames between: the server forwards the old input as  *)
(* the new player's, too short for devices the old one did not have.       *)
(***************************************************************************)
EXTENDS Naturals, SequencesExt

CONSTANTS N,          \* connections the server may have
          Devices,    \* input devices, as numbers
          AtStart,    \* clients that are connected at the start
          Asked,      \* those of them that have asked to play
          Ask,        \* [peer -> what it may ask for: devs ({}: any) and share]
          CanPlay,    \* clients that gave the password for players
          MaxStall,   \* NETPLAY_MAX_STALL_FRAMES
          MaxFrame,   \* bound: frames
          MaxLag,     \* bound: commands of a client on the way when a poll ends
          MaxEvents   \* bound: joins, departures and changes of mode

ASSUME SessionAssumption ==
  /\ N \in Nat \ {0} /\ Devices \subseteq Nat /\ Devices # {}
  /\ \A p \in 0..N : \A r \in Ask[p] : r.devs \subseteq Devices /\ r.share \in BOOLEAN
  /\ CanPlay \subseteq 1..N /\ Asked \subseteq AtStart /\ AtStart \subseteq 1..N /\ MaxStall \in Nat \ {0, 1}
  /\ {MaxFrame, MaxLag, MaxEvents} \subseteq Nat

Client == 1..N
Peer   == 0..N         \* 0 is the server

VARIABLES
  srv,      \* the server: self_frame_count, phase, stall, self_mode, savestate due
  conn,     \* [client -> its connection at the server]
  read,     \* [client -> read_frame_count at the server]
  devs,     \* [peer -> client_devices at the server]
  share,    \* [device -> device_share_modes at the server, TRUE: shareable]
  cl,       \* [client -> its own netplay_t]
  toS, toC, \* [client -> commands on the way to the server and to the client]
  events,   \* how often someone joined, left or changed mode
  hist      \* what the properties have to know of the past

vars == <<srv, conn, read, devs, share, cl, toS, toC, events, hist>>

NoConn   == [mode |-> "none", active |-> FALSE, delay |-> 0, stall |-> FALSE]
Nobody   == [p \in Peer |-> {}]
NoClient == [mode |-> "none", self |-> 0, sent |-> 0, server |-> 0, view |-> Nobody,
             read |-> [p \in Peer |-> 0], fast |-> FALSE, out |-> <<>>]

PlayCmd(r) == [t |-> "play", req |-> r]

(* The server polls in frame 0; the clients in AtStart have joined, read   *)
(* what it sent; those in Asked have asked to play.                        *)
Watcher == [NoClient EXCEPT !.mode = "spectating", !.sent = 1, !.server = 1]

Init ==
  /\ srv = [self |-> 0, phase |-> "poll", stall |-> FALSE, playing |-> FALSE,
            save |-> AtStart # {}]
  /\ conn = [c \in Client |-> IF c \in AtStart
               THEN [NoConn EXCEPT !.mode = "spectating", !.active = TRUE] ELSE NoConn]
  /\ read = [c \in Client |-> 0]
  /\ devs = Nobody
  /\ share = [d \in Devices |-> FALSE]
  /\ cl = [c \in Client |-> IF c \in AtStart THEN Watcher ELSE NoClient]
  /\ toC = [c \in Client |-> <<>>]
  /\ events = 0
  /\ \E r \in [Asked -> UNION {Ask[c] : c \in Asked}] :
       /\ \A c \in Asked : r[c] \in Ask[c]
       /\ toS = [c \in Client |-> IF c \in Asked THEN <<PlayCmd(r[c])>> ELSE <<>>]
  /\ hist = [waiting |-> Asked, ignored |-> {}, untold |-> {}, lost |-> {},
             nak |-> {}, late |-> FALSE, impatient |-> {}, unblamed |-> FALSE]

Event == events < MaxEvents /\ events' = events + 1

-----------------------------------------------------------------------------
(* Commands. *)

InputCmd(f, p)    == [t |-> "input", frame |-> f, peer |-> p]
NoInputCmd(f)     == [t |-> "noinput", frame |-> f]
ModeCmd(f, p, ds, you) == [t |-> "mode", frame |-> f, peer |-> p, devs |-> ds, you |-> you]
LoadCmd(f)        == [t |-> "load", frame |-> f]
SyncCmd(f)        == [t |-> "sync", frame |-> f, view |-> devs]

Active == {c \in Client : conn[c].active}
Plays(p) == p \in Client /\ conn[p].mode = "playing"

(* The members of a set of numbers, the least first: the loops count up.   *)
InOrder(S) ==
  CHOOSE s \in [1..Cardinality(S) -> S] :
    \A i, j \in 1..Cardinality(S) : i < j => s[i] < s[j]

SendTo(q, to, m) == [c \in Client |-> IF c \in to THEN Append(q[c], m) ELSE q[c]]

-----------------------------------------------------------------------------
(* The server. *)

(* netplay_send_cur_input: the input the other players have sent of this   *)
(* frame already, then the server's own.  That a player has sent it,       *)
(* have_real, is read off from read_frame_count.  Of a player admitted in  *)
(* this very frame a client that joins so gets one input the code has not, *)
(* as far as the savestate takes it that is sent before the next frame.    *)
CurInput(c, rd) ==
  LET others == InOrder({p \in Client \ {c} : devs[p] # {} /\ rd[p] > srv.self})
  IN  [i \in 1..Len(others) |-> InputCmd(srv.self, others[i])]
        \o <<IF srv.playing THEN InputCmd(srv.self, 0) ELSE NoInputCmd(srv.self)>>

(* netplay_force_future: input from before the savestate is not waited for. *)
ForceFuture ==
  [c \in Client |-> IF devs[c] # {} /\ read[c] < srv.self THEN srv.self ELSE read[c]]

(* netplay_delayed_state_change *)
DelayDue(c) ==
  /\ conn[c].active \/ conn[c].mode = "delayed"
  /\ conn[c].delay # 0 /\ conn[c].delay <= srv.self

Departures(c) ==
  LET gone == InOrder({d \in Client \ {c} : DelayDue(d)})
  IN  [i \in 1..Len(gone) |-> ModeCmd(conn[gone[i]].delay, gone[i], {}, FALSE)]

PreFrame ==
  LET rd   == IF srv.save THEN ForceFuture ELSE read
      load == IF srv.save THEN <<LoadCmd(srv.self)>> ELSE <<>>
  IN  /\ srv.phase = "top"
      /\ srv' = [srv EXCEPT !.phase = "poll", !.save = FALSE]
      /\ read' = rd
      /\ toC' = [c \in Client |-> IF conn[c].active
                   THEN toC[c] \o load \o CurInput(c, rd) \o Departures(c) ELSE toC[c]]
      /\ conn' = [c \in Client |-> IF DelayDue(c)
                    THEN [conn[c] EXCEPT !.delay = 0,
                            !.mode = IF @ = "delayed" THEN "none" ELSE @]
                    ELSE conn[c]]
      /\ UNCHANGED <<devs, share, cl, toS, events, hist>>

(* A stall lasts longer than it takes to begin: unread_frame_count is the  *)
(* least read_frame_count of the players.                                  *)
Late(c, slack) == Plays(c) /\ read[c] + MaxStall <= srv.self + slack
NewStall == \E c \in Client : Late(c, IF srv.stall THEN 2 ELSE 0)

(* netplay_hangup of the clients in cs. What a client does once its       *)
(* connection is closed concerns only itself.                              *)
Hangup(cs) ==
  /\ conn' = [c \in Client |-> IF c \notin cs THEN conn[c]
                ELSE IF Plays(c)
                THEN [conn[c] EXCEPT !.active = FALSE, !.mode = "delayed", !.delay = read[c]]
                ELSE [conn[c] EXCEPT !.active = FALSE]]
  /\ devs' = [p \in Peer |-> IF p \in cs /\ Plays(p) THEN {} ELSE devs[p]]
  /\ cl' = [c \in Client |-> IF c \in cs THEN NoClient ELSE cl[c]]
  /\ toS' = [c \in Client |-> IF c \in cs THEN <<>> ELSE toS[c]]
  /\ toC' = [c \in Client |-> IF c \in cs THEN <<>> ELSE toC[c]]

(* For the properties: the player blamed for a stall is gone before the    *)
(* timer, and another is late whom nobody blames.                          *)
Unblamed(cs) ==
  /\ srv.stall /\ \E c \in cs : Plays(c) /\ conn[c].stall
  /\ \E x \in Client \ cs : Late(x, 2) /\ ~conn[x].stall

(* Likewise departures owed by a connection that is closed, and input read *)
(* of frames the server has not come to.                                   *)
AfterHangup(h, cs) ==
  [h EXCEPT !.untold = @ \cup {c \in cs : ~Plays(c) /\ conn[c].delay # 0},
            !.lost = @ \cup {c \in cs : Plays(c) /\ read[c] > srv.self + 1},
            !.unblamed = @ \/ Unblamed(cs),
            !.waiting = @ \ cs, !.ignored = @ \ cs]

Nak(c, why) ==
  /\ Hangup({c})
  /\ hist' = AfterHangup([hist EXCEPT !.nak = @ \cup {<<why, c>>}], {c})
  /\ UNCHANGED <<srv, read, share>>

(* NETPLAY_CMD_INPUT from a client; past data is forwarded at once. *)
Forwards_Past(f) == f < srv.self
Forwards(f) == f <= srv.self

RecvInput(c, f) ==
  \/ /\ ~Plays(c) \/ f > read[c]
     /\ Nak(c, "input")
  \/ /\ Plays(c) /\ f < read[c]
     /\ toS' = [toS EXCEPT ![c] = Tail(@)]
     /\ UNCHANGED <<srv, conn, read, devs, share, cl, toC, hist>>
  \/ /\ Plays(c) /\ f = read[c]
     /\ read' = [read EXCEPT ![c] = @ + 1]
     /\ toC' = IF Forwards(f) THEN SendTo(toC, Active \ {c}, InputCmd(f, c)) ELSE toC
     /\ toS' = [toS EXCEPT ![c] = Tail(@)]
     /\ UNCHANGED <<srv, conn, devs, share, cl, hist>>

(* NETPLAY_CMD_SPECTATE: only the player is told.  The others will be told *)
(* at delay_frame.                                                         *)
RecvSpectate(c) ==
  \/ ~Plays(c) /\ Nak(c, "spectate")
  \/ /\ Plays(c)
     /\ conn' = [conn EXCEPT ![c].mode = "spectating", ![c].delay = read[c]]
     /\ devs' = [devs EXCEPT ![c] = {}]
     /\ toC' = SendTo(toC, {c}, ModeCmd(read[c], c, {}, TRUE))
     /\ toS' = [toS EXCEPT ![c] = Tail(@)]
     /\ hist' = [hist EXCEPT !.lost = IF read[c] > srv.self + 1 THEN @ \cup {c} ELSE @,
                             !.unblamed = @ \/ Unblamed({c})]
     /\ UNCHANGED <<srv, read, share, cl>>

Taken(d) == {p \in Peer : d \in devs[p]}

(* A request for certain devices. *)
Available_Asked(r) == \A d \in r.devs : Taken(d) = {} \/ share[d] \/ r.share
Available(r) == \A d \in r.devs : Taken(d) = {} \/ (share[d] /\ r.share)

(* A request for any device: the first that is free.  The only device,     *)
(* when it is shared, is meant to be shared, but a break leaves the switch *)
(* and the request has no answer.                                          *)
Free == {d \in Devices : Taken(d) = {}}
LeavesSwitch(r) ==
  /\ r.devs = {} /\ Free = {} /\ Cardinality(Devices) = 1
  /\ r.share /\ \A d \in Devices : share[d]

Granted(r)   == IF r.devs # {} THEN Available(r) ELSE Free # {}
Devs(r) == IF r.devs # {} THEN r.devs ELSE {Min(Free)}

(* Devices of peer p, and the share mode of those nobody had. *)
Grant(p, r) ==
  /\ devs' = [devs EXCEPT ![p] = Devs(r)]
  /\ share' = [d \in Devices |-> IF d \in Devs(r) /\ Taken(d) = {} THEN r.share ELSE share[d]]

(* A player starts at the next frame. *)
Start_Now == srv.self
Start == srv.self + 1

Refuse_Silently(c) == UNCHANGED toC
Refuse(c) == toC' = SendTo(toC, {c}, [t |-> "refused"])

(* NETPLAY_CMD_PLAY *)
RecvPlay(c, r) ==
  \/ /\ conn[c].delay = 0 /\ c \in CanPlay /\ Plays(c)
     /\ Nak(c, "play")
  \/ /\ conn[c].delay # 0 \/ c \notin CanPlay
     /\ Refuse(c)
     /\ toS' = [toS EXCEPT ![c] = Tail(@)]
     /\ UNCHANGED <<srv, conn, read, devs, share, cl, hist>>
  \/ /\ conn[c].delay = 0 /\ c \in CanPlay /\ ~Plays(c)
     /\ read' = [read EXCEPT ![c] = Start]
     /\ toS' = [toS EXCEPT ![c] = Tail(@)]
     /\ \/ /\ Granted(r)
           /\ Grant(c, r)
           /\ conn' = [conn EXCEPT ![c].mode = "playing"]
           /\ toC' = [x \in Client |-> IF x \in Active
                        THEN Append(toC[x], ModeCmd(Start, c, Devs(r), x = c)) ELSE toC[x]]
           /\ UNCHANGED hist
        \/ /\ ~Granted(r) /\ ~LeavesSwitch(r)
           /\ Refuse(c)
           /\ UNCHANGED <<conn, devs, share, hist>>
        \/ /\ LeavesSwitch(r)
           /\ hist' = [hist EXCEPT !.ignored = @ \cup {c}]
           /\ UNCHANGED <<conn, devs, share, toC>>
     /\ UNCHANGED <<srv, cl>>

(* The connection was closed by the client. *)
RecvClosed(c) ==
  /\ Hangup({c})
  /\ hist' = AfterHangup(hist, {c})
  /\ UNCHANGED <<srv, read, share>>

RecvCmd(c) ==
  /\ srv.phase = "poll" /\ conn[c].active /\ toS[c] # <<>>
  /\ LET m == Head(toS[c])
     IN  \/ m.t = "input" /\ RecvInput(c, m.frame)
         \/ m.t = "spectate" /\ RecvSpectate(c)
         \/ m.t = "play" /\ RecvPlay(c, m.req)
         \/ m.t = "closed" /\ RecvClosed(c)
  /\ UNCHANGED events

(* Figure out who to blame. *)
Blamed_Alone(c) ==
  /\ conn[c].active /\ Plays(c)
  /\ \A x \in Client \ {c} : read[c] < read[x]
Blamed(c) ==
  /\ conn[c].active /\ Plays(c)
  /\ \A x \in Client : Plays(x) => read[c] <= read[x]

(* The end of netplay_poll, then netplay_sync_post_frame. *)
EndPoll ==
  /\ srv.phase = "poll" /\ \A c \in Active : Len(toS[c]) <= MaxLag
  /\ \/ /\ NewStall /\ ~srv.stall
        /\ srv' = [srv EXCEPT !.stall = TRUE]
        /\ conn' = [c \in Client |-> IF Blamed(c) THEN [conn[c] EXCEPT !.stall = TRUE] ELSE conn[c]]
     \/ /\ ~NewStall /\ srv.self < MaxFrame
        /\ srv' = [srv EXCEPT !.stall = FALSE, !.phase = "top", !.self = @ + 1]
        /\ conn' = [c \in Client |-> IF srv.stall /\ conn[c].active
                                     THEN [conn[c] EXCEPT !.stall = FALSE] ELSE conn[c]]
  /\ UNCHANGED <<read, devs, share, cl, toS, toC, events, hist>>

(* Stalled out!  The timer runs from the start of the stall. *)
StalledOut == {c \in Client : conn[c].active /\ Plays(c) /\ conn[c].stall}
StallOut ==
  /\ srv.phase = "poll" /\ srv.stall /\ NewStall /\ StalledOut # {}
  /\ Hangup(StalledOut)
  /\ hist' = [AfterHangup(hist, StalledOut) EXCEPT !.unblamed = hist.unblamed]
  /\ srv' = [srv EXCEPT !.stall = FALSE, !.phase = "top", !.self = @ + 1]
  /\ UNCHANGED <<read, share, events>>

(* netplay_toggle_play_spectate at the server, between two frames. *)
BetweenFrames == srv.phase = "top" \/ (srv.stall /\ NewStall)

ServerPlay(r) ==
  /\ BetweenFrames /\ Event /\ ~srv.playing /\ Granted(r)
  /\ Grant(0, r)
  /\ srv' = [srv EXCEPT !.playing = TRUE]
  /\ toC' = SendTo(toC, Active, ModeCmd(srv.self, 0, Devs(r), FALSE))
  /\ hist' = [hist EXCEPT !.late = @ \/ (srv.stall /\ Active # {})]
  /\ UNCHANGED <<conn, read, cl, toS>>

ServerRead == IF srv.phase = "top" THEN srv.self ELSE srv.self + 1

ServerSpectate ==
  /\ BetweenFrames /\ Event /\ srv.playing
  /\ devs' = [devs EXCEPT ![0] = {}]
  /\ srv' = [srv EXCEPT !.playing = FALSE]
  /\ toC' = SendTo(toC, Active, ModeCmd(ServerRead, 0, {}, FALSE))
  /\ UNCHANGED <<conn, read, share, cl, toS, hist>>

(* A connection is accepted in the first slot that is free, and the        *)
(* handshake is done: SYNC, then the current input.  A client that does    *)
(* not start as a spectator asks to play as soon as it has read SYNC.      *)
FreeSlot_Inactive(c) == ~conn[c].active
FreeSlot(c) == ~conn[c].active /\ conn[c].mode # "delayed"

Join(c) ==
  /\ srv.phase = "poll" /\ Event /\ FreeSlot(c) /\ cl[c].mode = "none"
  /\ \A x \in 1..(c - 1) : ~FreeSlot(x)
  /\ conn' = [conn EXCEPT ![c] = [NoConn EXCEPT !.mode = "spectating", !.active = TRUE]]
  /\ srv' = [srv EXCEPT !.save = TRUE]
  /\ \E out \in {<<>>} \cup {<<PlayCmd(r)>> : r \in Ask[c]} :
       cl' = [cl EXCEPT ![c].mode = "pre_sync", ![c].out = out]
  /\ toC' = [toC EXCEPT ![c] = <<SyncCmd(srv.self)>> \o CurInput(c, read)]
  /\ toS' = [toS EXCEPT ![c] = <<>>]
  /\ UNCHANGED <<read, devs, share, hist>>

-----------------------------------------------------------------------------
(* The client. *)

Connected(c) == cl[c].mode \in {"spectating", "playing"}

(* netplay_handshake_pre_sync *)
HandleSync(s, m) ==
  [s EXCEPT !.mode = "spectating", !.self = m.frame, !.sent = m.frame + 1,
            !.server = m.frame, !.view = m.view,
            !.read = [p \in Peer |-> IF m.view[p] # {} THEN m.frame ELSE 0]]

HandleInput(s, m) ==
  IF m.frame < s.read[m.peer] THEN s
  ELSE [s EXCEPT !.read[m.peer] = m.frame + 1,
                 !.server = IF m.peer = 0 THEN m.frame + 1 ELSE @]

HandleNoInput(s, m) == [s EXCEPT !.server = IF m.frame = @ THEN @ + 1 ELSE @]

(* NETPLAY_CMD_LOAD_SAVESTATE: skip ahead if it is past where we are. *)
HandleLoad(s, m) ==
  [s EXCEPT !.self = IF m.frame > @ THEN m.frame - 1 ELSE @,
            !.read = [p \in Peer |-> IF s.view[p] # {} /\ @[p] < m.frame THEN m.frame ELSE @[p]]]

(* NETPLAY_CMD_MODE.  A client that may play now sends the past frames the *)
(* server wants, or none until the first it wants.                         *)
HandleMode(c, s, m) ==
  LET joined == [s EXCEPT !.view[m.peer] = m.devs, !.read[m.peer] = s.server]
      past   == [i \in 1..(s.self + 1 - m.frame) |-> InputCmd(m.frame + i - 1, c)]
  IN  CASE m.devs = {} -> [s EXCEPT !.view[m.peer] = {}, !.read[m.peer] = 0]
        [] m.devs # {} /\ ~m.you -> joined
        [] m.devs # {} /\ m.you /\ m.frame <= s.self ->
             [joined EXCEPT !.mode = "playing", !.sent = s.self + 1, !.out = @ \o past]
        [] OTHER -> [joined EXCEPT !.mode = "playing", !.sent = m.frame]

(* What netplay_get_cmd accepts; all else it answers with NAK.  The size    *)
(* of an input is left out: both sides have the same devices for a player. *)
Accepts(s, m) ==
  CASE m.t = "input"   -> s.view[m.peer] # {} /\ m.frame <= s.read[m.peer]
    [] m.t = "noinput" -> m.frame <= s.server
    [] m.t = "load"    -> m.frame = s.server
    [] m.t = "mode"    -> IF m.devs # {}
                          THEN m.frame = s.server /\ (m.you => s.mode # "playing")
                          ELSE m.you => s.mode = "spectating"
    [] OTHER           -> TRUE

Handle(c, s, m) ==
  CASE s.mode = "none"                    -> s
    [] s.mode # "none" /\ ~Accepts(s, m) -> NoClient
    [] OTHER -> CASE m.t = "sync"    -> HandleSync(s, m)
                  [] m.t = "input"   -> HandleInput(s, m)
                  [] m.t = "noinput" -> HandleNoInput(s, m)
                  [] m.t = "load"    -> HandleLoad(s, m)
                  [] m.t = "mode"    -> HandleMode(c, s, m)
                  [] m.t = "refused" -> s

(* netplay_poll_net_input reads as long as there is something to read:     *)
(* what has become of a client in state s, command by command.             *)
After(c, s, ms) ==
  LET read_to[i \in 0..Len(ms)] == IF i = 0 THEN s ELSE Handle(c, read_to[i - 1], ms[i])
  IN  read_to
Reading(c) == After(c, cl[c], toC[c])
Polled(c)  == Reading(c)[Len(toC[c])]

(* The end of netplay_poll: the reason to stall. *)
Unread(c, s) ==
  Min({s.server} \cup {s.read[p] : p \in {q \in Peer \ {c} : s.view[q] # {}}})
ClientStall(c, s) ==
  CASE Unread(c, s) + MaxStall <= s.self + (IF s.fast THEN 2 ELSE 0) -> "fast"
    [] s.mode = "spectating" /\ Unread(c, s) <= s.self -> "wait"
    [] OTHER -> "none"

(* The core runs and get_self_input_state reads the input of the next      *)
(* frame, unless the client stalls.  The frames before the first that the  *)
(* server wants are marked as read, to send nothing of them.  But a slot   *)
(* of the ring that still holds an older frame loses the mark when it is   *)
(* readied for the next: then the input of that frame is sent.             *)
Advanced(c, s, unmarked) ==
  LET next  == s.self + 1
      due   == s.mode = "playing" /\ next >= s.sent
      early == s.mode = "playing" /\ next < s.sent /\ unmarked
  IN  IF ClientStall(c, s) # "none" \/ s.self = MaxFrame
      THEN [s EXCEPT !.fast = ClientStall(c, s) = "fast"]
      ELSE [s EXCEPT !.fast = FALSE, !.self = next,
                     !.sent = IF due THEN next + 1 ELSE @,
                     !.out  = IF due \/ early THEN Append(@, InputCmd(next, c)) ELSE @]

IsAnswer(m) == m.t = "refused" \/ (m.t = "mode" /\ m.you /\ m.devs # {})

(* One frame of a client. *)
ClientFrame(c) ==
  LET s == Polled(c)
  IN  /\ cl[c].mode # "none" /\ (cl[c].mode = "pre_sync" => toC[c] # <<>>)
      /\ toC' = [toC EXCEPT ![c] = <<>>]
      /\ \/ /\ s.mode # "none"
            /\ \E unmarked \in BOOLEAN :
                 LET t == Advanced(c, s, unmarked)
                 IN  /\ cl' = [cl EXCEPT ![c] = [t EXCEPT !.out = <<>>]]
                     /\ toS' = [toS EXCEPT ![c] = @ \o t.out]
                     /\ hist' = [hist EXCEPT !.waiting =
                          CASE \E i \in DOMAIN toC[c] : IsAnswer(toC[c][i]) -> @ \ {c}
                            [] \E i \in DOMAIN t.out : t.out[i].t = "play"   -> @ \cup {c}
                            [] OTHER -> @]
         \/ /\ s.mode = "none"
            /\ cl' = [cl EXCEPT ![c] = NoClient]
            /\ toS' = [toS EXCEPT ![c] = Append(@, [t |-> "closed"])]
            /\ hist' = [hist EXCEPT !.nak = @ \cup {<<"client", c>>}, !.waiting = @ \ {c}]
      /\ UNCHANGED <<srv, conn, read, devs, share, events>>

(* netplay_toggle_play_spectate at the client: it stops playing at once,   *)
(* and plays only after getting permission.                                *)
ClientToggle(c) ==
  /\ Event
  /\ \/ /\ cl[c].mode = "playing"
        /\ cl' = [cl EXCEPT ![c].mode = "spectating"]
        /\ toS' = [toS EXCEPT ![c] = Append(@, [t |-> "spectate"])]
        /\ UNCHANGED hist
     \/ /\ cl[c].mode = "spectating"
        /\ \E r \in Ask[c] : toS' = [toS EXCEPT ![c] = Append(@, PlayCmd(r))]
        /\ hist' = [hist EXCEPT !.waiting = @ \cup {c},
                      !.impatient = IF c \in hist.waiting THEN @ \cup {c} ELSE @]
        /\ UNCHANGED cl
  /\ UNCHANGED <<srv, conn, read, devs, share, toC>>

(* The client disconnects, because its user or its own timer says so. *)
Quit(c) ==
  /\ Event /\ Connected(c)
  /\ cl' = [cl EXCEPT ![c] = NoClient]
  /\ toC' = [toC EXCEPT ![c] = <<>>]
  /\ toS' = [toS EXCEPT ![c] = Append(@, [t |-> "closed"])]
  /\ hist' = [hist EXCEPT !.waiting = @ \ {c}]
  /\ UNCHANGED <<srv, conn, read, devs, share>>

(* The client is gone without a word. *)
Crash(c) ==
  /\ Event /\ cl[c].mode = "playing"
  /\ cl' = [cl EXCEPT ![c] = NoClient]
  /\ toC' = [toC EXCEPT ![c] = <<>>]
  /\ hist' = [hist EXCEPT !.waiting = @ \ {c}]
  /\ UNCHANGED <<srv, conn, read, devs, share, toS>>

-----------------------------------------------------------------------------
Next ==
  \/ PreFrame \/ EndPoll \/ StallOut
  \/ ServerSpectate \/ \E r \in Ask[0] : ServerPlay(r)
  \/ \E c \in Client :
       \/ RecvCmd(c) \/ Join(c)
       \/ ClientFrame(c)
       \/ ClientToggle(c) \/ Quit(c) \/ Crash(c)

Spec == Init /\ [][Next]_vars

-----------------------------------------------------------------------------
(* A device that several peers hold is shareable: no history of requests,  *)
(* departures and new owners mixes a player who did not ask for it with    *)
(* another (handle_play_spectate).                                         *)
DevicesExclusive ==
  \A d \in Devices : \A p, q \in Peer :
    p # q /\ d \in devs[p] /\ d \in devs[q] => share[d]

(* No peer is ever hung up on for a command the other side did not expect, *)
(* whatever crosses on the way, but for two cases: the server begins to    *)
(* play in a frame it has stalled in, whose input it has sent; and a       *)
(* client asks to play again before it has the answer.                     *)
OnlyKnownNaks ==
  \A n \in hist.nak : \/ n[1] = "client" /\ hist.late
                      \/ n[1] = "play" /\ n[2] \in hist.impatient

(* A client that has read everything agrees with the server on who plays   *)
(* on which device, itself included, unless a departure is still owed, at  *)
(* delay_frame.  The exception are departures owed by a player that began  *)
(* to watch and left before the frame came: nobody is ever told.           *)
ViewsAgree ==
  \A c \in Client : Connected(c) /\ toC[c] = <<>> =>
    /\ \A p \in Peer \ {c} :
         \/ cl[c].view[p] = devs[p]
         \/ /\ p # 0 /\ devs[p] = {}
            /\ \/ conn[p].delay # 0 /\ (conn[p].active \/ conn[p].mode = "delayed")
               \/ p \in hist.untold
    /\ toS[c] = <<>> => cl[c].view[c] = devs[c]

(* A request to play has an answer, a MODE or a refusal, once nothing is   *)
(* on the way, but for the request the break in handle_play_spectate       *)
(* drops.                                                                  *)
RequestsAnswered ==
  \A c \in hist.waiting :
    Connected(c) /\ toS[c] = <<>> /\ toC[c] = <<>> => c \in hist.ignored

(* When a client learns that a player has stopped, it has read all input   *)
(* of that player up to the frame it stopped at: that is why the others    *)
(* are told at delay_frame.                                                *)
InputComplete(c, p) ==
  \A i \in DOMAIN toC[c] :
    LET m == toC[c][i]
        s == Reading(c)[i - 1]
    IN  m.t = "mode" /\ ~m.you /\ m.devs = {} /\ m.peer = p /\ s.view[p] # {}
          => s.read[p] >= m.frame

(* That holds unless the player was ahead of the server: then the server   *)
(* keeps the input of the frames between and forwards it to nobody.        *)
DepartureAfterInput ==
  \A c \in Client : Connected(c) =>
    \A p \in Peer \ {c} : p \in hist.lost \/ InputComplete(c, p)

(* Whoever falls silent, quits or stops playing, a stall of the server can *)
(* end: it waits for players that it blames, so that the timer will hang   *)
(* up on one of them if none of them sends.  The exception is a blamed     *)
(* player that leaves by itself while another is late: a stall blames only *)
(* when it begins, and the server waits for good if the other is gone.     *)
StallCanEnd == srv.stall /\ NewStall => StalledOut # {} \/ hist.unblamed

=============================================================================
