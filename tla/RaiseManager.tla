---------------------------- MODULE RaiseManager ----------------------------
(***************************************************************************)
(* The RaiseManager actor (src/actor/raise.rs).  It sits behind the        *)
(* Reactor and turns raise requests into an ordered series of Raise        *)
(* requests to app threads: the background windows of a request first, all *)
(* at once, then the focus window, and only then the next request.  An app *)
(* that never answers is given up on by a timer whose event travels        *)
(* through the Reactor (so that it can be recorded) and back.              *)
(*                                                                         *)
(* The environment here is the most general one: any answer, for any       *)
(* window and any sequence, may arrive at any time, and any app thread may *)
(* stop.  RaiseSystem puts the real app threads in its place.              *)
(***************************************************************************)
EXTENDS Integers, Sequences, FiniteSets, SequencesExt

CONSTANTS
  App,          \* the app threads, one per process
  Window,       \* the windows
  Owner,        \* the app (pid) each window id carries
  NoWindow,     \* no focus window
  NoSequence,   \* no active sequence
  Requests,     \* the raise requests the Reactor may send
  MaxSeq        \* bound: how many requests are accepted

(***************************************************************************)
(* A request holds its background windows in batches, one per app and      *)
(* screen.  The Reactor groups each window under one key, so batches are   *)
(* nonempty, disjoint, and each belongs to one app.                        *)
(***************************************************************************)
RaiseRequest == [raise : SUBSET Seq(Window), focus : Window \cup {NoWindow},
                 warp : BOOLEAN, handles : SUBSET App]

(* A Raise request as an app thread receives it. *)
Raise == [wids : Seq(Window), token : Nat \X Nat, seq : Nat, quiet : BOOLEAN]

(* A RaiseTimeout event. *)
RaiseTimeout == [id : Nat]

ActiveSequence == [id : Nat, pending : SUBSET Window, focus : Seq(Window),
                   warp : BOOLEAN, handles : SUBSET App, token : Nat,
                   timedOut : BOOLEAN]

ASSUME ConstantsAssumption ==
  /\ Owner \in [Window -> App]
  /\ NoWindow \notin Window
  /\ NoSequence \notin ActiveSequence
  /\ MaxSeq \in Nat

ASSUME RequestsAssumption ==
  /\ Requests \subseteq RaiseRequest
  /\ \A r \in Requests :
       /\ IsFiniteSet(r.raise)
       /\ \A b \in r.raise :
            /\ b # << >> /\ \A i \in DOMAIN b : Owner[b[i]] = Owner[b[1]]
            /\ \A c \in r.raise \ {b} : ToSet(b) \cap ToSet(c) = {}

VARIABLES
  active,      \* active_sequence
  queued,      \* queued_sequences
  nextId,      \* next_sequence_id
  settling,    \* inside the loop at the end of handle_message
  cancelled,   \* the cancellation tokens that were cancelled
  timeouts,    \* RaiseTimeout events on their way through the Reactor
  appQ,        \* the request channel of each app thread
  open,        \* the app threads whose request channel is still open
  warped       \* the last sequence that warped the mouse

rmVars == <<active, queued, nextId, settling, cancelled, timeouts, warped>>
vars   == <<rmVars, appQ, open>>

TokenOf(s) == <<s.id, s.token>>

RMInit ==
  /\ active = NoSequence
  /\ queued = << >>
  /\ nextId = 1
  /\ settling = FALSE
  /\ cancelled = {}
  /\ timeouts = << >>
  /\ warped = 0

Init ==
  /\ RMInit
  /\ appQ = [a \in App |-> << >>]
  /\ open = App

-----------------------------------------------------------------------------
(* handle_message: one action per message, then the loop (settling). *)

Matches(r, s) == r.raise = s.raise /\ r.focus = s.focus /\ r.warp = s.warp

HandleRaiseRequest(r) ==
  /\ ~settling
  /\ nextId + Len(queued) <= MaxSeq
  /\ queued' = IF queued # << >> /\ Matches(Last(queued), r)
               THEN queued ELSE Append(queued, r)
  /\ settling' = TRUE
  /\ UNCHANGED <<active, nextId, cancelled, timeouts, warped, appQ, open>>

(* Answers are matched by sequence, so that late ones are ignored. *)
IsActive(id) == active # NoSequence /\ active.id = id

Answered(ws, id) ==
  /\ ~settling
  /\ active' = IF IsActive(id) THEN [active EXCEPT !.pending = @ \ ws] ELSE active
  /\ settling' = TRUE
  /\ UNCHANGED <<queued, nextId, cancelled, timeouts, warped, appQ, open>>

HandleRaiseCompleted(w, id) == Answered({w}, id)
HandleRaiseRequestFailed(ws, id) == Answered(ws, id)

(* A bug: the hung token stays installed. *)
HandleRaiseTimeoutKeepsToken ==
  /\ ~settling
  /\ timeouts # << >>
  /\ IF IsActive(Head(timeouts).id)
     THEN /\ cancelled' = cancelled \cup {TokenOf(active)}
          /\ active' = [active EXCEPT !.pending = {}, !.timedOut = FALSE]
     ELSE UNCHANGED <<active, cancelled>>
  /\ timeouts' = Tail(timeouts)
  /\ settling' = TRUE
  /\ UNCHANGED <<queued, nextId, warped, appQ, open>>

(* A bug: the timeout window is not restarted for the focus phase. *)
HandleRaiseTimeoutKeepsFlag ==
  /\ ~settling
  /\ timeouts # << >>
  /\ IF IsActive(Head(timeouts).id)
     THEN /\ cancelled' = cancelled \cup {TokenOf(active)}
          /\ active' = [active EXCEPT !.pending = {}, !.token = @ + 1]
     ELSE UNCHANGED <<active, cancelled>>
  /\ timeouts' = Tail(timeouts)
  /\ settling' = TRUE
  /\ UNCHANGED <<queued, nextId, warped, appQ, open>>

(* The hung raises are cancelled and forgotten, a fresh token is installed *)
(* for the focus raise, and the timeout window restarts.                   *)
HandleRaiseTimeout ==
  /\ ~settling
  /\ timeouts # << >>
  /\ IF IsActive(Head(timeouts).id)
     THEN /\ cancelled' = cancelled \cup {TokenOf(active)}
          /\ active' = [active EXCEPT !.pending = {}, !.token = @ + 1,
                                      !.timedOut = FALSE]
     ELSE UNCHANGED <<active, cancelled>>
  /\ timeouts' = Tail(timeouts)
  /\ settling' = TRUE
  /\ UNCHANGED <<queued, nextId, warped, appQ, open>>

-----------------------------------------------------------------------------
(* start_new_sequence *)

HasFocus(r) == r.focus # NoWindow
FocusBatches(r) == {b \in r.raise : r.focus \in ToSet(b)}

(* The focus window is moved to the end of its batch. *)
SwapLast(b, w) ==
  LET i == CHOOSE i \in DOMAIN b : b[i] = w
  IN [b EXCEPT ![i] = b[Len(b)], ![Len(b)] = w]

FocusBatch(r) ==
  IF ~HasFocus(r) THEN << >>
  ELSE IF FocusBatches(r) = {} THEN <<r.focus>>
  ELSE SwapLast(CHOOSE b \in FocusBatches(r) : TRUE, r.focus)

(* A batch is sent only if the app is known and its channel is open. *)
Reachable(r, a) == a \in r.handles /\ a \in open
Sent(r) == {b \in r.raise \ FocusBatches(r) : Reachable(r, Owner[Head(b)])}

RaiseOf(b, id) == [wids |-> b, token |-> <<id, 0>>, seq |-> id, quiet |-> TRUE]

(* The batches of one app, in the order of the request. *)
SentTo(r, a, id) ==
  LET bs == SetToSeq({b \in Sent(r) : Owner[Head(b)] = a})
  IN [i \in DOMAIN bs |-> RaiseOf(bs[i], id)]

NewSequence(r) ==
  [id |-> nextId, pending |-> UNION {ToSet(b) : b \in Sent(r)},
   focus |-> FocusBatch(r), warp |-> r.warp, handles |-> r.handles,
   token |-> 0, timedOut |-> FALSE]

ProcessQueuedResponses ==
  /\ settling
  /\ active = NoSequence
  /\ queued # << >>
  /\ LET r == Head(queued) IN
       /\ active' = IF NewSequence(r).pending # {} \/ FocusBatch(r) # << >>
                    THEN NewSequence(r) ELSE NoSequence
       /\ appQ' = [a \in App |-> appQ[a] \o SentTo(r, a, nextId)]
  /\ queued' = Tail(queued)
  /\ nextId' = nextId + 1
  /\ UNCHANGED <<settling, cancelled, timeouts, warped, open>>

-----------------------------------------------------------------------------
(* process_active_sequence *)

(* A bug: the focus raise does not wait for the background windows. *)
FocusDueAtOnce == active # NoSequence /\ active.focus # << >>

FocusDue == active # NoSequence /\ active.pending = {} /\ active.focus # << >>

FocusRaise ==
  [wids |-> active.focus, token |-> TokenOf(active), seq |-> active.id, quiet |-> FALSE]

(* The focus raise goes out, and the mouse with it, if the app is known.   *)
(* The sequence then waits for the focus windows, or is over if the send   *)
(* failed.                                                                 *)
SendFocus ==
  LET a == Owner[Head(active.focus)] IN
  /\ settling
  /\ FocusDue
  /\ IF Reachable(active, a)
     THEN /\ active' = [active EXCEPT !.pending = ToSet(active.focus),
                                      !.focus = << >>]
          /\ appQ' = [appQ EXCEPT ![a] = Append(@, FocusRaise)]
     ELSE /\ active' = NoSequence
          /\ UNCHANGED appQ
  /\ warped' = IF active.warp /\ a \in active.handles THEN active.id ELSE warped
  /\ UNCHANGED <<queued, nextId, settling, cancelled, timeouts, open>>

(* All raises, the focus included, are complete. *)
EndSequence ==
  /\ settling
  /\ active # NoSequence
  /\ active.pending = {} /\ active.focus = << >>
  /\ active' = NoSequence
  /\ UNCHANGED <<queued, nextId, settling, cancelled, timeouts, warped, appQ, open>>

ProcessActiveSequence == SendFocus \/ EndSequence

(* The loop ends when neither step changes anything. *)
Settled ==
  /\ settling
  /\ IF active = NoSequence THEN queued = << >> ELSE active.pending # {}
  /\ settling' = FALSE
  /\ UNCHANGED <<active, queued, nextId, cancelled, timeouts, warped, appQ, open>>

-----------------------------------------------------------------------------
(* The timer branch of the actor's loop.  How long a phase takes is left   *)
(* open: the timer may fire whenever it is armed.                          *)
TimerFires ==
  /\ ~settling
  /\ active # NoSequence
  /\ ~active.timedOut
  /\ active' = [active EXCEPT !.timedOut = TRUE]
  /\ timeouts' = Append(timeouts, [id |-> active.id])
  /\ UNCHANGED <<queued, nextId, settling, cancelled, warped, appQ, open>>

Settle == ProcessActiveSequence \/ ProcessQueuedResponses \/ Settled

-----------------------------------------------------------------------------
(* The environment: app threads consume their requests and may exit. *)
AppTakes(a) ==
  /\ appQ[a] # << >>
  /\ appQ' = [appQ EXCEPT ![a] = Tail(@)]
  /\ UNCHANGED <<rmVars, open>>

AppExits(a) ==
  /\ a \in open
  /\ open' = open \ {a}
  /\ appQ' = [appQ EXCEPT ![a] = << >>]
  /\ UNCHANGED rmVars

Next ==
  \/ \E r \in Requests : HandleRaiseRequest(r)
  \/ \E w \in Window, id \in 1..MaxSeq : HandleRaiseCompleted(w, id)
  \/ \E ws \in SUBSET Window, id \in 1..MaxSeq : HandleRaiseRequestFailed(ws, id)
  \/ HandleRaiseTimeout
  \/ Settle
  \/ TimerFires
  \/ \E a \in App : AppTakes(a) \/ AppExits(a)

Spec == Init /\ [][Next]_vars

-----------------------------------------------------------------------------
(* Types of every variable. *)
TypeOK ==
  /\ active \in ActiveSequence \cup {NoSequence}
  /\ queued \in Seq(Requests)
  /\ nextId \in Nat \ {0}
  /\ settling \in BOOLEAN
  /\ cancelled \subseteq Nat \X Nat
  /\ timeouts \in Seq(RaiseTimeout)
  /\ appQ \in [App -> Seq(Raise)]
  /\ open \subseteq App
  /\ warped \in Nat

(***************************************************************************)
(* Between messages the manager is never stuck: with no active sequence    *)
(* nothing is queued, and an active sequence waits for some window.  This  *)
(* is what the loop at the end of handle_message must establish.           *)
(***************************************************************************)
NeverStuck ==
  ~settling => IF active = NoSequence THEN queued = << >> ELSE active.pending # {}

(***************************************************************************)
(* The active sequence's token is never a cancelled one: an app would      *)
(* reject the focus raise sent with it and never report completion.        *)
(***************************************************************************)
LiveToken == active # NoSequence => TokenOf(active) \notin cancelled

(***************************************************************************)
(* A sequence marked timed out (which disarms its timer) has a RaiseTimeout*)
(* on its way, and only one; so a hung raise is always given up on, in the *)
(* focus phase too.                                                        *)
(***************************************************************************)
TimeoutInFlight ==
  active # NoSequence =>
    (active.timedOut <=> \E i \in DOMAIN timeouts : timeouts[i].id = active.id)

(***************************************************************************)
(* What keeps the queue moving whatever the apps do: the manager always    *)
(* waits for something, with a token that works and a timeout that comes.  *)
(***************************************************************************)
ManagerSound == NeverStuck /\ LiveToken /\ TimeoutInFlight
=============================================================================
