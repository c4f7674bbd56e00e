------------------------------- MODULE Spaces -------------------------------
(***************************************************************************)
(* Which spaces the reactor manages.  Notifications about displays and     *)
(* spaces go through the window server actor (src/actor/window_server.rs), *)
(* which combines what AppKit and CoreGraphics say of the displays and     *)
(* retries when they disagree, and through the space manager               *)
(* (src/actor/space_manager.rs), which removes the spaces that are         *)
(* disabled.  The WM controller (src/actor/wm_controller.rs) passes        *)
(* commands on and registers the hotkeys.                                  *)
(*                                                                         *)
(* The actors' queues to each other are modelled.  The reactor, the status *)
(* icon and the group bars have one producer of what is modelled here and  *)
(* nothing comes back from them, so what is sent to them takes effect at   *)
(* once.  Windows, frames and scale factors are left out.                  *)
(***************************************************************************)
EXTENDS Integers, Sequences, FiniteSets, SequencesExt

CONSTANTS
  Display, Space,
  SpacesOf,       \* the spaces of each display
  Grouped,        \* the spaces with groups of windows
  NoSpace,        \* no space
  Arrangements,   \* the lists of displays that may be connected, main first
  OneSpaceModes,  \* whether --one is given
  DefaultDisable, \* settings.default_disable at startup
  Commands,       \* what the user may do
  Retries,        \* how many RETRY_DELAYS there are
  MaxActs         \* bound: things the user does and changes of displays and spaces

ASSUME SpacesAssumption ==
  /\ SpacesOf \in [Display -> SUBSET Space] /\ Grouped \subseteq Space
  /\ \A d \in Display : SpacesOf[d] # {}
  /\ NoSpace \notin Space
  /\ Arrangements \subseteq Seq(Display)
  /\ OneSpaceModes \subseteq BOOLEAN /\ DefaultDisable \in BOOLEAN
  /\ Commands \subseteq {"focus", "toggleSpace", "toggleGlobal", "enable", "disable", "login",
                         "loginExit", "expose", "exposeExit", "reload", "flip"}
  /\ {Retries, MaxActs} \subseteq Nat

VARIABLES
  cg, ns, cur,   \* displays as CoreGraphics and AppKit have them; their spaces
  due,           \* AppKit has a change of displays to follow
  acts,
  oneSpace,      \* one_space, chosen at startup
  wmQ, wsQ, smQ, \* messages to the WM controller, window server, space manager
  hotkeys,       \* whether hotkeys are registered
  uuids,         \* the displays in the screen cache
  attempt, retrying,   \* screen_config_retry_attempt and _pending
  sleeping,      \* how many threads sleep before each attempt
  last,          \* last_screen_config
  curScreens, curSpace, starting, disabled, enabled, focused, login, expose,
  globally, hotkeysActive, dd,   \* the space manager; dd is its default_disable
  screens,       \* the reactor's screens
  shown,         \* what the status icon says of the focused space
  bars           \* the spaces with group bars

systemVars == <<cg, ns, cur, due, oneSpace>>
wsVars     == <<uuids, attempt, retrying, sleeping, last>>
smVars     == <<curScreens, curSpace, starting, disabled, enabled, focused, login, expose,
                globally, hotkeysActive, dd>>
outVars    == <<screens, shown, bars>>
vars == <<systemVars, acts, wmQ, wsQ, smQ, hotkeys, wsVars, smVars, outVars>>

Config(ds, ss) == [screens |-> ds, spaces |-> ss]
ScreenParameters(ds) == [kind |-> "screens", displays |-> ds]
Refresh == [kind |-> "spaces"]

(* At startup the displays are announced. *)
Init ==
  /\ cg \in Arrangements /\ ns = cg /\ due = FALSE
  /\ cur \in {c \in [Display -> Space] : \A d \in Display : c[d] \in SpacesOf[d]}
  /\ wsQ = <<ScreenParameters(ns)>>
  /\ wmQ = << >> /\ smQ = << >>
  /\ acts = 0 /\ oneSpace \in OneSpaceModes
  /\ hotkeys = FALSE
  /\ uuids = << >> /\ attempt = 0 /\ retrying = FALSE
  /\ sleeping = [a \in 0..Retries - 1 |-> 0]
  /\ last = Config(<< >>, <<NoSpace>>)
  /\ curScreens = << >> /\ curSpace = << >> /\ starting = NoSpace
  /\ disabled = {} /\ enabled = {} /\ focused = << >>
  /\ login = FALSE /\ expose = FALSE /\ globally = TRUE
  /\ hotkeysActive = FALSE /\ dd = DefaultDisable
  /\ screens = << >> /\ shown = FALSE /\ bars = {}

-----------------------------------------------------------------------------
(* The system and the user. *)

ChangeDisplays(ds) ==
  /\ acts < MaxActs /\ ds # cg
  /\ acts' = acts + 1
  /\ cg' = ds /\ due' = TRUE
  /\ UNCHANGED <<ns, cur, oneSpace, wmQ, wsQ, smQ, hotkeys, wsVars, smVars, outVars>>

(* AppKit follows CoreGraphics, some time later, and notifies. *)
AppKitFollows ==
  /\ due
  /\ ns' = cg /\ due' = FALSE
  /\ wsQ' = Append(wsQ, ScreenParameters(cg))
  /\ UNCHANGED <<cg, cur, oneSpace, acts, wmQ, smQ, hotkeys, wsVars, smVars, outVars>>

(* It may also notify though nothing has changed. *)
NotifyAgain ==
  /\ acts < MaxActs
  /\ acts' = acts + 1
  /\ wsQ' = Append(wsQ, ScreenParameters(ns))
  /\ UNCHANGED <<systemVars, wmQ, smQ, hotkeys, wsVars, smVars, outVars>>

SwitchSpace(d, s) ==
  /\ acts < MaxActs
  /\ s \in SpacesOf[d] \ {cur[d]}
  /\ acts' = acts + 1
  /\ cur' = [cur EXCEPT ![d] = s]
  /\ wsQ' = Append(wsQ, Refresh)
  /\ UNCHANGED <<cg, ns, due, oneSpace, wmQ, smQ, hotkeys, wsVars, smVars, outVars>>

-----------------------------------------------------------------------------
(* The WM controller, on the main thread.  A notification or command of    *)
(* the user's is taken to come when it is handled.                         *)

(* The Dock says that expose begins or ends.  Its observer tells the space  *)
(* manager itself.                                                         *)
DockNotifies(c) == smQ' = Append(smQ, [kind |-> c]) /\ UNCHANGED hotkeys

(* Most commands are passed on to the space manager.                       *)
PassOn(c) == smQ' = Append(smQ, [kind |-> c]) /\ UNCHANGED hotkeys

(* On a new configuration the hotkeys are unregistered until the space     *)
(* manager says that they are active.                                      *)
ReloadConfig(c) ==
  /\ smQ' = Append(smQ, [kind |-> c])
  /\ hotkeys' = FALSE

(* An app was activated on some screen; it may be the login window. *)
AppActivated(isLogin) ==
  LET then == IF isLogin THEN <<[kind |-> "login"]>> ELSE << >> IN
  /\ IF ns = << >> THEN smQ' = smQ \o then
     ELSE \E d \in ToSet(ns) : smQ' = smQ \o <<[kind |-> "focused", screen |-> d]>> \o then
  /\ UNCHANGED hotkeys

Command(c) ==
  /\ acts < MaxActs
  /\ acts' = acts + 1
  /\ \/ c \in {"reload", "flip"} /\ ReloadConfig(c)
     \/ c \in {"focus", "login"} /\ AppActivated(c = "login")
     \/ c \in {"expose", "exposeExit"} /\ DockNotifies(c)
     \/ c \notin {"reload", "flip", "focus", "login", "expose", "exposeExit"} /\ PassOn(c)
  /\ UNCHANGED <<systemVars, wmQ, wsQ, wsVars, smVars, outVars>>

SetHotkeys ==
  /\ wmQ # << >> /\ Head(wmQ).kind = "hotkeys"
  /\ wmQ' = Tail(wmQ)
  /\ hotkeys' = Head(wmQ).active
  /\ UNCHANGED <<systemVars, acts, wsQ, smQ, wsVars, smVars, outVars>>

(* A fresh snapshot for the retry. *)
RefreshScreenParameters ==
  /\ wmQ # << >> /\ Head(wmQ).kind = "refresh"
  /\ wmQ' = Tail(wmQ)
  /\ wsQ' = Append(wsQ, [kind |-> "retry", attempt |-> Head(wmQ).attempt, displays |-> ns])
  /\ UNCHANGED <<systemVars, acts, smQ, hotkeys, wsVars, smVars, outVars>>

WmHandles == SetHotkeys \/ RefreshScreenParameters

-----------------------------------------------------------------------------
(* The window server actor. *)

(* get_screen_spaces.  A display that is gone is taken to keep its space.   *)
ScreenSpaces(ds) == [i \in DOMAIN ds |-> cur[ds[i]]]

(* schedule_screen_config_retry, with the attempt and flag the caller      *)
(* leaves.  After the last retry the counter starts over.                  *)
ScheduleRetry(a, r) ==
  IF r THEN attempt' = a /\ retrying' = r /\ UNCHANGED sleeping
  ELSE IF a >= Retries THEN attempt' = 0 /\ retrying' = FALSE /\ UNCHANGED sleeping
  ELSE attempt' = a /\ retrying' = TRUE /\ sleeping' = [sleeping EXCEPT ![a] = @ + 1]

(* update_screen_config: the displays that AppKit knows of, in the order   *)
(* of CoreGraphics.                                                        *)
ScreensOf(ds) ==
  LET known == {i \in DOMAIN cg : cg[i] \in ToSet(ds)}
      Rank(i) == Cardinality({j \in known : j <= i})
  IN [k \in 1..Cardinality(known) |-> cg[CHOOSE i \in known : Rank(i) = k]]

(* handle_screen_parameters.  A configuration equal to the last one is     *)
(* dropped, unless the windows on screen are different.                    *)
HandleScreens(ds, a, r) ==
  IF Len(ds) # Len(cg)
  THEN ScheduleRetry(a, r) /\ UNCHANGED <<uuids, last, smQ>>
  ELSE /\ attempt' = 0 /\ retrying' = FALSE /\ UNCHANGED sleeping
       /\ uuids' = IF cg = << >> THEN uuids ELSE cg
       /\ last' = Config(ScreensOf(ds), ScreenSpaces(uuids'))
       /\ \/ last' = last /\ UNCHANGED smQ
          \/ smQ' = Append(smQ, [kind |-> "screens", config |-> last'])

(* A bug: the retry is still pending when it has come. *)
HandleRetryPending(e) ==
  IF retrying /\ e.attempt = attempt
  THEN HandleScreens(e.displays, attempt + 1, TRUE)
  ELSE UNCHANGED <<smQ, wsVars>>

(* A retry counts if it is the one that is pending. *)
HandleRetry(e) ==
  IF retrying /\ e.attempt = attempt
  THEN HandleScreens(e.displays, attempt + 1, FALSE)
  ELSE UNCHANGED <<smQ, wsVars>>

WsHandles ==
  /\ wsQ # << >>
  /\ wsQ' = Tail(wsQ)
  /\ LET e == Head(wsQ) IN
       \/ e.kind = "screens" /\ HandleScreens(e.displays, attempt, retrying)
       \/ e.kind = "retry" /\ HandleRetry(e)
       \/ /\ e.kind = "spaces"
          /\ smQ' = Append(smQ, [kind |-> "spaces", spaces |-> ScreenSpaces(uuids)])
          /\ UNCHANGED wsVars
  /\ UNCHANGED <<systemVars, acts, wmQ, hotkeys, smVars, outVars>>

RetryThreadWakes(a) ==
  /\ sleeping[a] > 0
  /\ sleeping' = [sleeping EXCEPT ![a] = @ - 1]
  /\ wmQ' = Append(wmQ, [kind |-> "refresh", attempt |-> a])
  /\ UNCHANGED <<systemVars, acts, wsQ, smQ, hotkeys, uuids, attempt, retrying, last,
                 smVars, outVars>>

-----------------------------------------------------------------------------
(* The space manager. *)

FirstSpace == IF curSpace = << >> THEN NoSpace ELSE curSpace[1]

SpaceForScreen(d) ==
  LET is == {i \in DOMAIN curScreens \cap DOMAIN curSpace : curScreens[i] = d}
  IN IF is = {} THEN NoSpace ELSE curSpace[CHOOSE i \in is : \A j \in is : i <= j]

(* The space of the focused screen, if it is known, else the first. *)
FocusedSpace ==
  LET s == IF focused = << >> THEN NoSpace ELSE SpaceForScreen(focused[1])
  IN IF s = NoSpace THEN FirstSpace ELSE s

IsSpaceEnabled(s) == IF dd THEN s \in enabled ELSE s \notin disabled

(* A bug: the icon forgets the login window. *)
ActiveBehindLogin(s) ==
  globally /\ (oneSpace => starting = s) /\ IsSpaceEnabled(s)

IsSpaceActive(s) ==
  globally /\ ~login /\ (oneSpace => starting = s) /\ IsSpaceEnabled(s)

(* What the status icon is told. *)
FocusedActive == FocusedSpace # NoSpace /\ IsSpaceActive(FocusedSpace)

Manages(s) ==
  /\ globally /\ ~login
  /\ oneSpace => s = starting
  /\ s \notin disabled
  /\ s \in enabled \/ ~dd

ActiveSpaces == [i \in DOMAIN curSpace |-> IF Manages(curSpace[i]) THEN curSpace[i] ELSE NoSpace]

HotkeysDue == starting # NoSpace /\ (oneSpace => starting = FirstSpace)

(* Every event the reactor handles ends in update_layout, which shows the  *)
(* group bars of the spaces it manages.                                    *)
Managed == {screens[i].space : i \in DOMAIN screens} \ {NoSpace}

GroupsUpdated(ss) == bars' = bars \cup (ss \cap Grouped)

(* SpaceDisabled, and GlobalDisabled for every space. *)
HideBars(ss) == bars' = bars \ ss

UpdateLayout == GroupsUpdated(Managed')

RequestRefresh == wsQ' = Append(wsQ, Refresh)

HotkeysMessage(b) == [kind |-> "hotkeys", active |-> b]

(* handle_space_changed *)
SetSpaces(ss) ==
  /\ curSpace' = ss
  /\ starting' = IF starting = NoSpace THEN FirstSpace' ELSE starting
  /\ hotkeysActive' = HotkeysDue'
  /\ wmQ' = IF hotkeysActive' = hotkeysActive THEN wmQ
            ELSE Append(wmQ, HotkeysMessage(hotkeysActive'))
  /\ UNCHANGED <<disabled, enabled, focused, login, expose, globally, dd, wsQ>>

(* The reactor pairs screens and spaces. *)
HandleScreenParameters(e) ==
  /\ curScreens' = e.config.screens
  /\ SetSpaces(e.config.spaces)
  /\ screens' = [i \in DOMAIN curScreens' \cap DOMAIN curSpace' |->
                   [screen |-> curScreens'[i], space |-> ActiveSpaces'[i]]]
  /\ UpdateLayout
  /\ shown' = FocusedActive'

(* The reactor ignores spaces that do not match its screens.  During       *)
(* expose it is told nothing.                                              *)
HandleSpaces(e) ==
  /\ UNCHANGED curScreens
  /\ SetSpaces(e.spaces)
  /\ IF expose \/ Len(curSpace') # Len(screens) THEN UNCHANGED <<screens, bars>>
     ELSE /\ screens' = [i \in DOMAIN screens |-> [screens[i] EXCEPT !.space = ActiveSpaces'[i]]]
          /\ UpdateLayout
  /\ shown' = FocusedActive'

SetFocusedScreen(d) ==
  /\ focused' = <<d>>
  /\ UNCHANGED <<curScreens, curSpace, starting, disabled, enabled, login, expose, globally,
                 hotkeysActive, dd, wmQ, wsQ, screens, bars>>
  /\ shown' = FocusedActive'

(* toggle_space for the focused space, if there is one. *)
ToggleFocusedSpace ==
  LET s == FocusedSpace
      Toggled(S) == IF s \in S THEN S \ {s} ELSE S \cup {s}
  IN IF s = NoSpace THEN UNCHANGED <<smVars, wmQ, wsQ, outVars>>
     ELSE /\ enabled' = IF dd THEN Toggled(enabled) ELSE enabled
          /\ disabled' = IF dd THEN disabled ELSE Toggled(disabled)
          /\ UNCHANGED <<curScreens, curSpace, starting, focused, login, expose, globally,
                         hotkeysActive, dd, wmQ, screens>>
          /\ HideBars(IF IsSpaceEnabled(s)' THEN {} ELSE {s})
          /\ shown' = FocusedActive'
          /\ RequestRefresh

(* With default_disable, all current spaces are enabled, or all spaces are *)
(* not.                                                                    *)
SetGlobalEnabled(b) ==
  IF b = globally THEN UNCHANGED <<smVars, wmQ, wsQ, outVars>>
  ELSE /\ globally' = b
       /\ enabled' = IF ~dd THEN enabled
                     ELSE IF b THEN enabled \cup (ToSet(curSpace) \ {NoSpace}) ELSE {}
       /\ UNCHANGED <<curScreens, curSpace, starting, disabled, focused, login, expose,
                      hotkeysActive, dd, wmQ, screens>>
       /\ HideBars(IF b THEN {} ELSE bars)
       /\ shown' = FocusedActive'
       /\ RequestRefresh

LoginWindowActive(b) ==
  /\ login' = b
  /\ RequestRefresh
  /\ UNCHANGED <<curScreens, curSpace, starting, disabled, enabled, focused, expose, globally,
                 hotkeysActive, dd, wmQ, outVars>>

(* A bug: nothing is refreshed when expose ends. *)
ExposeActiveOnly(b) ==
  /\ expose' = b
  /\ UNCHANGED <<curScreens, curSpace, starting, disabled, enabled, focused, login, globally,
                 hotkeysActive, dd, wmQ, wsQ, outVars>>

ExposeActive(b) ==
  /\ expose' = b
  /\ IF b THEN UNCHANGED wsQ ELSE RequestRefresh
  /\ UNCHANGED <<curScreens, curSpace, starting, disabled, enabled, focused, login, globally,
                 hotkeysActive, dd, wmQ, outVars>>

(* A bug: the hotkeys are not registered again. *)
ConfigWithoutHotkeys(b) ==
  /\ dd' = b
  /\ UNCHANGED <<curScreens, curSpace, starting, disabled, enabled, focused, login, expose,
                 globally, hotkeysActive, screens, wmQ>>
  /\ UpdateLayout
  /\ shown' = FocusedActive'
  /\ RequestRefresh

ConfigUpdated(b) ==
  /\ dd' = b
  /\ UNCHANGED <<curScreens, curSpace, starting, disabled, enabled, focused, login, expose,
                 globally, hotkeysActive, screens>>
  /\ UpdateLayout
  /\ wmQ' = Append(wmQ, HotkeysMessage(hotkeysActive))
  /\ shown' = FocusedActive'
  /\ RequestRefresh

SmHandles ==
  /\ smQ # << >>
  /\ smQ' = Tail(smQ)
  /\ UNCHANGED <<systemVars, acts, hotkeys, wsVars>>
  /\ LET e == Head(smQ) IN
       \/ e.kind = "screens" /\ HandleScreenParameters(e)
       \/ e.kind = "spaces" /\ HandleSpaces(e)
       \/ e.kind = "focused" /\ SetFocusedScreen(e.screen)
       \/ e.kind = "toggleSpace" /\ ToggleFocusedSpace
       \/ e.kind = "toggleGlobal" /\ SetGlobalEnabled(~globally)
       \/ e.kind = "enable" /\ SetGlobalEnabled(TRUE)
       \/ e.kind = "disable" /\ SetGlobalEnabled(FALSE)
       \/ e.kind = "login" /\ LoginWindowActive(TRUE)
       \/ e.kind = "loginExit" /\ LoginWindowActive(FALSE)
       \/ e.kind = "expose" /\ ExposeActive(TRUE)
       \/ e.kind = "exposeExit" /\ ExposeActive(FALSE)
       \/ e.kind = "reload" /\ ConfigUpdated(dd)
       \/ e.kind = "flip" /\ ConfigUpdated(~dd)

(* The reactor handles an event about windows. *)
ReactorEvent ==
  /\ UNCHANGED <<systemVars, acts, wmQ, wsQ, smQ, hotkeys, wsVars, smVars, screens, shown>>
  /\ UpdateLayout

-----------------------------------------------------------------------------
Next ==
  \/ \E ds \in Arrangements : ChangeDisplays(ds)
  \/ AppKitFollows
  \/ NotifyAgain
  \/ \E d \in Display, s \in Space : SwitchSpace(d, s)
  \/ \E c \in Commands : Command(c)
  \/ WmHandles
  \/ WsHandles
  \/ \E a \in 0..Retries - 1 : RetryThreadWakes(a)
  \/ SmHandles
  \/ ReactorEvent

Spec == Init /\ [][Next]_vars

-----------------------------------------------------------------------------
(* Types; retries are numbered within RETRY_DELAYS. *)
TypeOK ==
  /\ cg \in Arrangements /\ ns \in Arrangements
  /\ cur \in [Display -> Space]
  /\ uuids \in Arrangements \cup {<< >>}
  /\ attempt \in 0..Retries /\ (retrying => attempt < Retries)
  /\ curScreens \in Seq(Display) /\ curSpace \in Seq(Space \cup {NoSpace})
  /\ screens \in Seq([screen : Display, space : Space \cup {NoSpace}])
  /\ starting \in Space \cup {NoSpace}
  /\ disabled \subseteq Space /\ enabled \subseteq Space /\ bars \subseteq Space
  /\ {oneSpace, due, retrying} \subseteq BOOLEAN
  /\ {login, expose, globally, hotkeysActive, dd, hotkeys, shown} \subseteq BOOLEAN

(***************************************************************************)
(* A retry that is pending, which keeps others from being scheduled, is on *)
(* its way: as a sleeping thread or as a message.                          *)
(***************************************************************************)
RetryOnItsWay ==
  retrying =>
    \/ sleeping[attempt] > 0
    \/ \E i \in DOMAIN wmQ : wmQ[i].kind = "refresh" /\ wmQ[i].attempt = attempt
    \/ \E i \in DOMAIN wsQ : wsQ[i].kind = "retry" /\ wsQ[i].attempt = attempt

(* Retries stay within their number, and the flag comes down again. *)
RetriesSound == TypeOK /\ RetryOnItsWay

(* Nothing is on its way. *)
Quiet ==
  /\ ~due /\ wmQ = << >> /\ wsQ = << >> /\ smQ = << >>
  /\ \A a \in DOMAIN sleeping : sleeping[a] = 0

(***************************************************************************)
(* Once nothing is on its way the reactor has the displays there are, and  *)
(* of each the current space if that is to be managed: whatever was        *)
(* toggled, dropped as unchanged, refused as inconsistent, retried or held *)
(* back during expose in the meantime.                                     *)
(***************************************************************************)
ReactorFollows ==
  Quiet /\ ~expose =>
    screens = [i \in DOMAIN cg |->
                 [screen |-> cg[i], space |-> IF Manages(cur[cg[i]]) THEN cur[cg[i]] ELSE NoSpace]]

(* Hotkeys are registered again after each reload, and only when due. *)
HotkeysFollow == Quiet => hotkeys = HotkeysDue

(***************************************************************************)
(* The status icon tells the truth about the focused space: if expose does *)
(* not hide it from the reactor; if there is a display, for without one    *)
(* the cached spaces are reported; and unless the space was disabled       *)
(* before default_disable was set, which the icon does not know.           *)
(***************************************************************************)
StatusTruthful ==
  Quiet /\ ~expose /\ (dd => FocusedSpace \notin disabled) /\ cg # << >> =>
    shown = (FocusedSpace \in Managed)
=============================================================================
