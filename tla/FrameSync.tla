------------------------------ MODULE FrameSync ------------------------------
(***************************************************************************)
(* How window frames are kept in step between the reactor, the animation   *)
(* manager (src/actor/reactor/animation.rs) and the thread of one app.     *)
(*                                                                         *)
(* The reactor writes frames, each with the next transaction id of its     *)
(* window, through the animation manager, which either animates them or    *)
(* skips to the end.  The app thread remembers the last id it has written  *)
(* and puts it in every frame it reads, so that the reactor can tell reads *)
(* that come after its last write.  While a window is animated its move    *)
(* and resize notifications are suspended.                                 *)
(*                                                                         *)
(* A layout is a number; it gives each window a position and a size of     *)
(* that number.  An animation leaves a window k steps on its way to a      *)
(* position.  Apps accept the frames they are given, and the mouse button  *)
(* is up.                                                                  *)
(***************************************************************************)
EXTENDS Integers, Sequences, FiniteSets, SequencesExt

CONSTANTS
  Window,         \* the windows of the app
  Layouts,        \* the layouts a command may ask for; the first is 0
  Frames,         \* frames of an animation, an even number
  AnimateModes,   \* whether settings.animate may be on, or off
  EnhancedUi,     \* whether the app has its enhanced UI on
  MaxAttempts,    \* MAX_FRAME_ATTEMPTS
  MaxCommands,    \* bound: layout commands
  MaxMoves        \* bound: windows moved or closed by the user

ASSUME FrameAssumption ==
  /\ IsFiniteSet(Window)
  /\ Layouts \subseteq Nat /\ 0 \in Layouts
  /\ Frames \in Nat \ {0} /\ Frames % 2 = 0
  /\ AnimateModes \subseteq BOOLEAN /\ EnhancedUi \in BOOLEAN
  /\ {MaxAttempts, MaxCommands, MaxMoves} \subseteq Nat

Frame == [pos : Layouts \X (1..Frames), size : Layouts]
Target(l) == [pos |-> <<l, Frames>>, size |-> l]

VARIABLES
  windows,    \* the reactor's windows
  frame,      \* frame_monotonic
  sent,       \* last_sent_txid
  goal,       \* the layout of each window
  attempts,   \* frame_attempts
  events,     \* events on their way to the reactor
  animQ,      \* messages to the animation manager
  active,     \* its active animation: windows and next frame
  requests,   \* requests to the app thread
  batch,      \* the requests drained from it and not yet handled
  draining,   \* in handle_request_batch
  notifs,     \* accessibility notifications to the app thread
  elems,      \* the windows it has registered
  seen,       \* last_seen_txid
  pending,    \* pending_frames, a function on some windows
  lastFrame,  \* last_animation_frame, a function on some windows
  animating,  \* active_window_animations
  restore,    \* restore_enhanced_ui_on_last_end
  enhanced,   \* whether the app's enhanced UI is on
  suspended,  \* windows whose notifications are suspended
  real,       \* the frame of each window that exists
  animate,    \* settings.animate
  commands, moves,  \* how often the user acted
  asked, written    \* history: the layout last asked for; the last frame written

reactorVars == <<windows, frame, sent, goal, attempts, asked, written>>
animVars    == <<animQ, active>>
appVars     == <<batch, draining, elems, seen, pending, lastFrame, animating,
                 restore, enhanced, suspended>>
userVars    == <<animate, commands, moves>>
vars == <<reactorVars, animVars, appVars, userVars, events, requests, notifs, real>>

NoAnimation == [wins |-> << >>, next |-> 1]

Init ==
  /\ windows = Window /\ elems = Window
  /\ frame = [w \in Window |-> Target(0)]
  /\ real = frame /\ written = frame
  /\ sent = [w \in Window |-> 0] /\ seen = sent
  /\ goal = [w \in Window |-> 0] /\ asked = goal
  /\ attempts = [w \in Window |-> [target |-> Target(0), count |-> 0]]
  /\ events = << >> /\ animQ = << >> /\ requests = << >> /\ batch = << >> /\ notifs = << >>
  /\ active = NoAnimation
  /\ draining = FALSE
  /\ pending = << >> /\ lastFrame = << >>
  /\ animating = 0
  /\ restore = FALSE /\ enhanced = EnhancedUi
  /\ suspended = {}
  /\ animate \in AnimateModes /\ commands = 0 /\ moves = 0

-----------------------------------------------------------------------------
(* The reactor. *)

(* update_layout, with the frames, windows and layouts the handler leaves. *)
(* A frame is written to a window that is not where the layout wants it,   *)
(* unless that was tried too often.  A long pause forgets the attempts.    *)
UpdateLayout(fr, ws, gl, skip) ==
  LET misplaced == {w \in ws : Target(gl[w]) # fr[w]} IN
  \E late \in BOOLEAN :
    LET count(w) == IF late \/ attempts[w].target # Target(gl[w]) THEN 1
                    ELSE attempts[w].count + 1
        moved == {w \in misplaced : count(w) <= MaxAttempts}
    IN /\ attempts' = [w \in Window |->
                         IF w \in misplaced THEN [target |-> Target(gl[w]), count |-> count(w)]
                         ELSE attempts[w]]
       /\ sent' = [w \in Window |-> IF w \in moved THEN sent[w] + 1 ELSE sent[w]]
       /\ frame' = [w \in Window |-> IF w \in moved THEN Target(gl[w]) ELSE fr[w]]
       /\ written' = [w \in Window |-> IF w \in moved THEN Target(gl[w]) ELSE written[w]]
       /\ animQ' = IF moved = {} THEN animQ
                   ELSE Append(animQ,
                          [skip |-> skip \/ ~animate,
                           wins |-> [w \in moved |->
                                       [finish |-> Target(gl[w]), txid |-> sent[w] + 1]]])

(* A layout command changes the layout of some windows. *)
Command(l, ws, skip) ==
  /\ commands < MaxCommands
  /\ commands' = commands + 1
  /\ goal' = [w \in Window |-> IF w \in ws THEN l ELSE goal[w]]
  /\ asked' = goal'
  /\ UpdateLayout(frame, windows, goal', skip)
  /\ UNCHANGED <<windows, events, active, requests, notifs, appVars, real, animate, moves>>

(* A bug: reads that come before the last write are not ignored. *)
HandleAnyFrameChanged(e) ==
  /\ UNCHANGED windows
  /\ IF e.requested \/ e.frame = frame[e.w]
     THEN UNCHANGED <<frame, sent, goal, attempts, written, animQ>>
     ELSE /\ goal' = [goal EXCEPT ![e.w] = e.frame.size]
          /\ UpdateLayout([frame EXCEPT ![e.w] = e.frame], windows, goal',
                          e.frame.size # frame[e.w].size)

(* Event::WindowFrameChanged.  A read that comes before the last write is  *)
(* ignored, and so is the answer to a write.  Otherwise the window was     *)
(* moved by the user, or resized, and then the layout follows.             *)
HandleFrameChanged(e) ==
  LET resized == e.frame.size # frame[e.w].size IN
  /\ UNCHANGED windows
  /\ IF e.txid # sent[e.w] \/ e.requested \/ e.frame = frame[e.w]
     THEN UNCHANGED <<frame, sent, goal, attempts, written, animQ>>
     ELSE /\ goal' = [goal EXCEPT ![e.w] = e.frame.size]
          /\ UpdateLayout([frame EXCEPT ![e.w] = e.frame], windows, goal', resized)

HandleWindowDestroyed(w) ==
  /\ windows' = windows \ {w}
  /\ goal' = goal
  /\ UpdateLayout(frame, windows \ {w}, goal, FALSE)

HandleEvent ==
  /\ events # << >>
  /\ LET e == Head(events) IN
       IF e.destroyed THEN HandleWindowDestroyed(e.w) ELSE HandleFrameChanged(e)
  /\ events' = Tail(events)
  /\ UNCHANGED <<asked, active, requests, notifs, appVars, userVars, real>>

-----------------------------------------------------------------------------
(* The animation manager. *)

Begin(w) == [kind |-> "begin", w |-> w]
End(w) == [kind |-> "end", w |-> w]
SetFrame(w, a) == [kind |-> "set", w |-> w, frame |-> a.finish, txid |-> a.txid]
AnimationFrame(w, a, k) ==
  [kind |-> "frame", w |-> w, txid |-> a.txid,
   frame |-> [a.finish EXCEPT !.pos = <<a.finish.pos[1], k>>],
   setSize |-> k * 2 = Frames \/ k = Frames]

(* What f has for each of its windows, one window after the other. *)
ForEach(f) == LET ws == SetToSeq(DOMAIN f) IN FlattenSeq([i \in DOMAIN ws |-> f[ws[i]]])

FinishAll(wins) ==
  ForEach([w \in DOMAIN wins |-> <<AnimationFrame(w, wins[w], Frames), End(w)>>])

Send(reqs) == requests' = requests \o reqs

(* Windows animated already go on from where they are, towards the new     *)
(* frame if there is one.                                                  *)
CarriedOver(wins) ==
  [w \in DOMAIN wins \cup DOMAIN active.wins |->
     IF w \in DOMAIN wins THEN wins[w] ELSE active.wins[w]]

Replace(wins) ==
  /\ Send(ForEach([w \in DOMAIN wins \ DOMAIN active.wins |-> <<Begin(w)>>]))
  /\ active' = [wins |-> CarriedOver(wins), next |-> 1]

SkipToEnd(wins) ==
  /\ Send(FinishAll(active.wins) \o ForEach([w \in DOMAIN wins |-> <<SetFrame(w, wins[w])>>]))
  /\ active' = NoAnimation

HandleMessage ==
  /\ animQ # << >>
  /\ LET m == Head(animQ) IN IF m.skip THEN SkipToEnd(m.wins) ELSE Replace(m.wins)
  /\ animQ' = Tail(animQ)
  /\ UNCHANGED <<reactorVars, events, notifs, appVars, userVars, real>>

(* A bug: the animation ends one frame early. *)
TickOneShort ==
  LET frames == ForEach([w \in DOMAIN active.wins |->
                           <<AnimationFrame(w, active.wins[w], active.next)>>])
      ends == ForEach([w \in DOMAIN active.wins |-> <<End(w)>>])
  IN /\ DOMAIN active.wins # {}
     /\ IF active.next + 1 = Frames
        THEN Send(frames \o ends) /\ active' = NoAnimation
        ELSE Send(frames) /\ active' = [active EXCEPT !.next = @ + 1]
     /\ UNCHANGED <<reactorVars, animQ, events, notifs, appVars, userVars, real>>

Tick ==
  LET frames == ForEach([w \in DOMAIN active.wins |->
                           <<AnimationFrame(w, active.wins[w], active.next)>>])
      ends == ForEach([w \in DOMAIN active.wins |-> <<End(w)>>])
  IN /\ DOMAIN active.wins # {}
     /\ IF active.next = Frames
        THEN Send(frames \o ends) /\ active' = NoAnimation
        ELSE Send(frames) /\ active' = [active EXCEPT !.next = @ + 1]
     /\ UNCHANGED <<reactorVars, animQ, events, notifs, appVars, userVars, real>>

-----------------------------------------------------------------------------
(* The app thread. *)

Exists(w) == w \in DOMAIN real
Without(f, w) == [v \in DOMAIN f \ {w} |-> f[v]]
With(f, w, x) == [v \in DOMAIN f \cup {w} |-> IF v = w THEN x ELSE f[v]]

(* Moving a window causes a notification unless they are suspended. *)
Notify(old, new, ws) ==
  LET changed == {w \in ws \cap DOMAIN new : old[w] # new[w]} \ suspended
  IN notifs' = notifs \o ForEach([w \in changed |-> <<[w |-> w, destroyed |-> FALSE]>>])

StopNotifications(w)    == suspended' = suspended \cup {w}
RestartNotifications(w) == suspended' = suspended \ {w}

(* What flushing the pending frames of ws makes of the real frames. *)
Flushed(ws) ==
  [w \in DOMAIN real |->
     IF w \notin ws \cap DOMAIN pending \cap elems THEN real[w]
     ELSE IF pending[w].setSize THEN pending[w].frame
     ELSE [real[w] EXCEPT !.pos = pending[w].frame.pos]]

FlushedSeen(ws) ==
  [w \in Window |-> IF w \in ws \cap DOMAIN pending \cap elems THEN pending[w].txid ELSE seen[w]]

FlushedLast(ws) ==
  LET sized == {w \in ws \cap DOMAIN pending \cap elems : pending[w].setSize}
  IN [w \in DOMAIN lastFrame \cup sized |->
        IF w \in sized THEN pending[w].frame ELSE lastFrame[w]]

FrameRead(w, f, id, req) ==
  [w |-> w, destroyed |-> FALSE, frame |-> f, txid |-> id, requested |-> req]
Destroyed(w) == [w |-> w, destroyed |-> TRUE]

TakeBatch ==
  /\ ~draining /\ requests # << >>
  /\ draining' = TRUE
  /\ batch' = requests
  /\ requests' = << >>
  /\ UNCHANGED <<reactorVars, animVars, events, notifs, userVars, real, elems, seen, pending,
                 lastFrame, animating, restore, enhanced, suspended>>

(* Frames are coalesced: only the latest of a window is kept. *)
HandleAnimationFrame(r) ==
  /\ pending' = With(pending, r.w, [frame |-> r.frame, setSize |-> r.setSize, txid |-> r.txid])
  /\ UNCHANGED <<events, notifs, real, elems, seen, lastFrame, animating, restore, enhanced,
                 suspended>>

(* A bug: a window that is no longer registered is reported all the same.  *)
HandleSetUnregistered(r) ==
  /\ events' = Append(events, FrameRead(r.w, r.frame, r.txid, TRUE))
  /\ UNCHANGED <<seen, real, notifs, elems, pending, lastFrame, animating, restore, enhanced,
                 suspended>>

HandleSetWindowFrame(r) ==
  /\ IF r.w \notin elems THEN UNCHANGED <<seen, real, notifs, events>>
     ELSE /\ seen' = [seen EXCEPT ![r.w] = r.txid]
          /\ IF ~Exists(r.w) THEN UNCHANGED <<real, notifs, events>>
             ELSE /\ real' = [real EXCEPT ![r.w] = r.frame]
                  /\ Notify(real, real', {r.w})
                  /\ events' = Append(events, FrameRead(r.w, r.frame, r.txid, TRUE))
  /\ UNCHANGED <<elems, pending, lastFrame, animating, restore, enhanced, suspended>>

HandleBegin(r) ==
  /\ animating' = animating + 1
  /\ IF animating = 0 THEN restore' = enhanced /\ enhanced' = FALSE
                      ELSE UNCHANGED <<restore, enhanced>>
  /\ IF r.w \in elems THEN /\ lastFrame' = Without(lastFrame, r.w)
                           /\ StopNotifications(r.w)
                      ELSE UNCHANGED <<lastFrame, suspended>>
  /\ UNCHANGED <<events, notifs, real, elems, seen, pending>>

(* A bug: the pending frame is not flushed before the animation ends. *)
HandleEndUnflushed(r) ==
  /\ pending' = Without(pending, r.w)
  /\ animating' = animating - 1
  /\ restore' = FALSE /\ enhanced' = (enhanced \/ restore)
  /\ suspended' = suspended \ {r.w}
  /\ lastFrame' = Without(lastFrame, r.w)
  /\ UNCHANGED <<elems, seen, real, notifs, events>>

(* The last frame is flushed and written again in full; then enhanced UI   *)
(* and notifications come back, and the frame is read and reported.        *)
HandleEnd(r) ==
  LET flushed == Flushed({r.w})
      last    == FlushedLast({r.w})
      fixed   == [w \in DOMAIN real |->
                    IF w = r.w /\ w \in DOMAIN last THEN last[w] ELSE flushed[w]]
      isLast  == animating <= 1
  IN /\ pending' = Without(pending, r.w)
     /\ animating' = IF animating = 0 THEN 0 ELSE animating - 1
     /\ enhanced' = (enhanced \/ (isLast /\ restore))
     /\ restore' = (restore /\ ~isLast)
     /\ IF r.w \in elems
        THEN /\ seen' = FlushedSeen({r.w})
             /\ lastFrame' = Without(last, r.w)
             /\ real' = fixed
             /\ Notify(real, real', {r.w})
             /\ RestartNotifications(r.w)
             /\ events' = IF Exists(r.w)
                          THEN Append(events, FrameRead(r.w, fixed[r.w], seen'[r.w], TRUE))
                          ELSE events
        ELSE UNCHANGED <<seen, lastFrame, real, notifs, suspended, events>>
     /\ UNCHANGED elems

HandleRequest ==
  /\ draining /\ batch # << >>
  /\ LET r == Head(batch) IN
       \/ r.kind = "frame" /\ HandleAnimationFrame(r)
       \/ r.kind = "set" /\ HandleSetWindowFrame(r)
       \/ r.kind = "begin" /\ HandleBegin(r)
       \/ r.kind = "end" /\ HandleEnd(r)
  /\ batch' = Tail(batch)
  /\ UNCHANGED <<reactorVars, animVars, requests, userVars, draining>>

(* flush_all_frames, at the end of a batch. *)
FlushAll ==
  /\ draining /\ batch = << >>
  /\ draining' = FALSE
  /\ pending' = << >>
  /\ real' = Flushed(Window)
  /\ seen' = FlushedSeen(Window)
  /\ lastFrame' = FlushedLast(Window)
  /\ Notify(real, real', Window)
  /\ UNCHANGED <<reactorVars, animVars, events, requests, userVars, batch, elems, animating,
                 restore, enhanced, suspended>>

(* Requests come first.  A frame is read when its notification is handled, *)
(* not when it was sent.                                                   *)
HandleNotification ==
  /\ ~draining /\ requests = << >> /\ notifs # << >>
  /\ LET n == Head(notifs) IN
       IF n.destroyed
       THEN /\ elems' = elems \ {n.w}
            /\ events' = IF n.w \in elems THEN Append(events, Destroyed(n.w)) ELSE events
       ELSE /\ UNCHANGED elems
            /\ events' = IF n.w \in elems /\ Exists(n.w)
                         THEN Append(events, FrameRead(n.w, real[n.w], seen[n.w], FALSE))
                         ELSE events
  /\ notifs' = Tail(notifs)
  /\ UNCHANGED <<reactorVars, animVars, requests, userVars, real, batch, draining, seen,
                 pending, lastFrame, animating, restore, enhanced, suspended>>

-----------------------------------------------------------------------------
(* The user, or the app itself, moves or closes a window. *)
UserMoves(w, l) ==
  /\ moves < MaxMoves /\ Exists(w)
  /\ moves' = moves + 1
  /\ real' = [real EXCEPT ![w] = Target(l)]
  /\ Notify(real, real', {w})
  /\ UNCHANGED <<reactorVars, animVars, appVars, events, requests, animate, commands>>

UserCloses(w) ==
  /\ moves < MaxMoves /\ Exists(w)
  /\ moves' = moves + 1
  /\ real' = Without(real, w)
  /\ notifs' = Append(notifs, [w |-> w, destroyed |-> TRUE])
  /\ UNCHANGED <<reactorVars, animVars, appVars, events, requests, animate, commands>>

AppStep == TakeBatch \/ HandleRequest \/ FlushAll \/ HandleNotification

Next ==
  \/ \E l \in Layouts, ws \in SUBSET Window \ {{}}, skip \in BOOLEAN : Command(l, ws, skip)
  \/ HandleEvent
  \/ HandleMessage
  \/ Tick
  \/ AppStep
  \/ \E w \in Window : UserCloses(w) \/ \E l \in Layouts : UserMoves(w, l)

Spec == Init /\ [][Next]_vars

(* Every actor runs on its own thread or task; the tick timer fires. *)
Fairness == WF_vars(HandleEvent) /\ WF_vars(HandleMessage) /\ SF_vars(Tick) /\ WF_vars(AppStep)

FairSpec == Spec /\ Fairness

-----------------------------------------------------------------------------
(* Types, and the animation ids of a window: the app is never ahead. *)
TypeOK ==
  /\ windows \subseteq Window /\ elems \subseteq Window /\ DOMAIN real \subseteq Window
  /\ frame \in [Window -> Frame] /\ written \in [Window -> Frame]
  /\ \A w \in DOMAIN real : real[w] \in Frame
  /\ sent \in [Window -> Nat] /\ seen \in [Window -> Nat]
  /\ \A w \in Window : seen[w] <= sent[w]
  /\ goal \in [Window -> Layouts] /\ asked \in [Window -> Layouts]
  /\ active.next \in 1..Frames /\ DOMAIN active.wins \subseteq Window
  /\ DOMAIN pending \subseteq Window /\ DOMAIN lastFrame \subseteq Window
  /\ animating \in 0..Cardinality(Window) /\ suspended \subseteq Window
  /\ {draining, restore, enhanced} \subseteq BOOLEAN

(* Nothing is on its way, and nothing is being animated. *)
Quiet ==
  /\ events = << >> /\ animQ = << >> /\ requests = << >> /\ notifs = << >>
  /\ ~draining /\ DOMAIN active.wins = {}

(***************************************************************************)
(* The reactor has every window whose frame it is told of: the handler     *)
(* unwraps it.  The app forgets a window and says so in one step.          *)
(***************************************************************************)
NoUnknownFrame ==
  events # << >> /\ ~Head(events).destroyed => Head(events).w \in windows

(***************************************************************************)
(* Animations are balanced however they are replaced, skipped or overtaken *)
(* by a closed window: in the end the app's enhanced UI is back and its    *)
(* windows' notifications are on.                                          *)
(***************************************************************************)
AnimationsBalanced ==
  Quiet => animating = 0 /\ suspended \cap elems = {} /\ enhanced = EnhancedUi

(***************************************************************************)
(* The last write wins: once nothing is on its way a window that the user  *)
(* left alone is where it was last written, though frames were coalesced,  *)
(* animations replaced and sizes written only now and then.                *)
(***************************************************************************)
LastWriteWins == Quiet /\ moves = 0 => real = written

(***************************************************************************)
(* Once nothing is on its way the reactor knows where every window is,     *)
(* wherever the user moved it in the meantime (without animations).        *)
(***************************************************************************)
ReactorAgrees == ~animate /\ Quiet => \A w \in DOMAIN real : frame[w] = real[w]

(* The transaction ids are in order, and once nothing is on its way all is *)
(* as it was meant to be.                                                  *)
FramesSound == TypeOK /\ AnimationsBalanced /\ LastWriteWins /\ ReactorAgrees

(* What was last written reaches the windows in the end, if nobody moves   *)
(* or closes one. *)
WritesArrive == <>[](moves = 0 => real = written)

(***************************************************************************)
(* Without animations, the layout of a window the user left alone is the   *)
(* one last asked for: the reactor never takes the effect of its own       *)
(* writes for the user's.                                                  *)
(***************************************************************************)
LayoutAsAsked == ~animate /\ moves = 0 => goal = asked
=============================================================================
