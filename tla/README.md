# Formal models of Sugarglider

TLA+ models of this tiling window manager for macOS: the actors of `src/actor/`, the channels between them and the system's ways of being late, out of order or silent; the layout trees of `src/model/` and the frames they give windows; the executor the actors run on; and the configuration on its way between file, preferences and actors.
Line numbers in this file are relative to the repository's `src/` directory (`raise.rs:187` is `src/actor/raise.rs`, line 187).
`PROJECT.json` maps every definition that models code to the lines it models, and lists the hazards, line by line, with the properties that watch them.

Run a model with `tlc -config <run>.cfg <MC module>`, check proofs with `tlapm <module>`.

## 1. The system

Actors own their state and take one message at a time from an unbounded FIFO channel (`actor.rs`).
The reactor has a thread of its own, and so has each app; the others share the main thread.

| Component | State | Operations | Talks to |
|---|---|---|---|
| RaiseManager (`actor/raise.rs`), a task on the reactor's thread | active sequence with its pending windows, focus batch and cancellation token; queued requests; next sequence id | `handle_message` for a request, a completion, a failure and a timeout; the timer of `run` | app threads (`Request::Raise`), reactor (`RaiseTimeout`), mouse (warp) |
| App thread (`actor/app.rs`), one per process | windows with `last_seen_txid`, pending animation frames, count of animations, enhanced UI to restore, last activation, main window | batches of requests, accessibility notifications, and a second task that carries raises out under a lock shared by all app threads | reactor by way of window server and space manager |
| AnimationManager (`actor/reactor/animation.rs`) | the active animation and its next frame | `Replace`, `SkipToEnd`, `tick` | app threads |
| Reactor (`actor/reactor.rs`) | windows with their last known frame and `last_sent_txid`, frame attempts, screens and spaces, visible and hidden windows, drags | `handle_event`, ending in `update_layout` | all others |
| MainWindowTracker (`reactor/main_window.rs`) | per app: frontmost, quiet, main window; the app the system says is frontmost | one per activation event | reactor |
| WindowServer, SkylightWatcher (`actor/window_server.rs`) and ScreenCache (`sys/screen.rs`) | last configuration sent, retry counter and flag, visible windows, windows watched, display uuids | screen and space notifications, retries, new and destroyed windows | space manager, WM controller, app threads |
| SpaceManager (`actor/space_manager.rs`) | current spaces and screens, starting space, enabled and disabled spaces, focused screen, login window, expose, global switch | one per event | reactor, WM controller, window server, status icon, group bars |
| WmController (`actor/wm_controller.rs`) | config, hotkeys, pid of the login window | commands, config reloads, app notifications | space manager, window server, app threads |
| NotificationCenter, Dock, Mouse, MessageServer | none to speak of (Mouse: cursor hidden, window under it) | translate the system's notifications and clients' requests | WM controller, window server, space manager, reactor |
| GroupBars, Status | bars per space; icon | draw | - |
| LayoutManager (`actor/layout.rs`), in the reactor | per space layouts, floating windows, focus, viewports, drags | `handle_event`, `handle_command` | reactor |
| LayoutTree, Tree, Selection, Size, SpaceLayoutMapping (`model/`) | trees of containers and windows with sizes, locks, selection and window map; layouts per screen size with reference counts | tree surgery, traversal, frames | layout manager |
| Scroll layouts (`model/scroll_viewport.rs`, `model/spring.rs`) | the viewport's offset and target | follow the focused column, wheel, tick | layout manager |
| Executor, run loop, timers (`sys/executor.rs`, `sys/run_loop.rs`, `sys/timer.rs`) | the main task, its wakers, the run loop's source | poll, wake, fire | every actor |
| Configuration (`config.rs`, `config/`), preferences (`ui/`), `glide config update` (`bin/glide.rs`) | the file; the configuration in force; what the window shows | load, merge, validate, write; apply, save; watch and send | all actors |

What is hard in it, and what must hold:

- **Raises.** A request raises background windows of several apps at once, then the focus window, then the next request goes. Apps are slow, hang and quit; answers come late; a timeout travels through the reactor and can arrive in a later phase than it was meant for. *Every sequence ends; the focus goes to apps in the order of the requests; no raise is lost or disturbed by another; nothing holds the common lock for ever.*
- **Frames.** Reactor, animation manager, app thread and app each have their own idea of where a window is. *The last write wins; the reactor agrees with the window once all is quiet; it never takes the echo of its own write for the user; animations leave enhanced UI and notifications as they were; apps that refuse a frame are not asked for ever.*
- **Windows.** Accessibility notifications, polls, the window server's lists and Skylight tell of windows on different paths. *The layout has known windows only, and in the end those on screen.*
- **Spaces.** What AppKit and CoreGraphics say of displays differs for a while, notifications repeat, retries overlap with fresh ones, expose and the login window hold updates back. *Once all is quiet the reactor manages exactly the spaces the settings ask for, and hotkeys, icon and bars agree with it.*
- **Activation.** Apps and the system tell of activations on different paths. *The main window is believed only if both agree, and raises of our own do not change the selection.*
- **Layout.** *Tree, selection and window map stay consistent under every sequence of commands; a layout is removed only when nothing refers to it; there is room for every window that can have it; locks hold; drags follow the pointer, and drop where they showed.*
- **The executor.** Events are sent and timers fire while the task is polled, or as it goes to sleep. *No wakeup is lost.*
- **Configuration.** File, preferences, client and actors each have a copy. *They come to agree, and saving one thing changes no other.*

## 2. Modules

| Module | Models | Used by |
|---|---|---|
| `RaiseManager` | the raise manager with the most general environment: any answer at any time | `RaiseSystem`, `RaiseRequests` |
| `RaiseSystem` | the raise manager with the app threads' raise tasks in place of that environment; implements `RaiseManager!Spec` | `MCRaiseSystem`, `RaiseSystemProofs` |
| `RaiseRequests` | operators: from a layout response, or the mouse entering a window, to raise requests | `MCRaiseSystem` |
| `MainWindow` | MainWindowTracker, app threads and system, as far as activation goes | `MCMainWindow`, `MainWindowProofs` |
| `FrameSync` | reactor, animation manager, one app thread and its windows, as far as frames go | `MCFrameSync`, `FrameSyncProofs` |
| `Windows` | app threads, window server, Skylight watcher and reactor, as far as which windows are tiled; start-up | `MCWindows`, `WindowsProofs` |
| `Spaces` | window server, space manager, WM controller, and the screens of the reactor | `MCSpaces`, `SpacesProofs` |
| `LayoutTree` | the forest of layouts with selection, weights and windows: operators from a forest to a forest | `LayoutManager`, `Sizes` |
| `LayoutMapping` | which layout each space uses for which screen size, with the counts; by itself the specification `MappingSpec` | `LayoutManager`, `LayoutMappingProofs` |
| `LayoutManager` | events and commands of the layout manager over both; implements `MappingSpec` | `MCLayoutManager` |
| `Sizes` | operators: from a forest to frames, and back from resizes to weights; locks, least sizes, fullscreen, columns | `SizeShares`, `Scroll`, `Drag` |
| `SizeShares` | sizes of the windows of one space against apps that refuse them | `MCSizeShares` |
| `Scroll` | a scroll layout with its viewport, wheel and mouse drags | `MCScroll` |
| `Drag` | dragging a window by its title bar: preview and drop | `MCDrag` |
| `Executor` | a thread: run loop, executor, channels with wakers, timers; implements `Mailboxes` | `MCExecutor`, `ExecutorProofs` |
| `Mailboxes` | what actors may rely on: what is sent is handled, once | `Executor` (`INSTANCE ... WITH`) |
| `Settings` | the configuration between file, preferences, client and actors | `MCSettings`, `SettingsProofs` |
| `RaiseSystemProofs`, `MainWindowProofs`, `FrameSyncProofs`, `WindowsProofs`, `SpacesProofs`, `LayoutMappingProofs`, `ExecutorProofs`, `SettingsProofs` | theorems about these modules (section 5) | - |

The `MC` modules give the constants values.
Definitions that a comment calls a bug are the mutants: each one breaks a property of a run when it takes the place of the operator that follows it.
Time is not modelled anywhere: a timer may fire, a deadline pass or an animation arrive at any moment after it was set.

### RaiseManager, RaiseRequests

`active`, `queued` and `nextId` are the fields of the same purpose of `RaiseManager`; an `ActiveSequence` has `pending`, `focus` (the focus batch), `token`, `timedOut`.
A cancellation token is the pair of a sequence and a number, `cancelled` the set of the tokens that were cancelled.
`settling` is true inside the fixed-point loop at the end of `handle_message` (raise.rs:216): a handler sets it, `ProcessActiveSequence` and `ProcessQueuedResponses` are the loop's steps, `Settled` ends it. As the actor handles nothing else meanwhile, all messages require `~settling`.
The timer branch of `run` is `TimerFires`; `timeouts` holds the events on their way through the reactor, which passes them back in order (reactor.rs:1194).
The batches of a request are a set, one per app and screen, as the reactor's grouping makes them; the order in which the batches of one request reach one app is that of the set's enumeration.
`focusSent` and `warped` are history.

`RaiseRequests` is that grouping: `Filtered`, `Batches` and `RequestFor` are `filter_response` and `handle_layout_response_with_context`; `ToggleFocusFloating` and `MouseMovedOverWindow` are two that make responses. `MCRaiseSystem` assumes, and so TLC checks, that the requests of the run are exactly those made of some responses.

### RaiseSystem

Each app thread has an incoming task, which only passes raises on (`PassRaise`), and a raise task with a program counter:
`idle` (waiting for a raise), `warm` (about to read from the app), `warmed`, `locking` (in line for the lock), `key` (has the lock), `waiting` (for the activation), `raising`.
Both tasks run on one thread, so the incoming task moves only while the raise task awaits something (`Awaiting`).
The lock is a FIFO queue, as tokio's mutex is; returning drops it (`Release`).
Every place where the code looks at the token is a choice made in that step, and the manager may cancel between any two steps.
`Fail` reports the whole batch, as `handle_raises` does; cancelled raises report nothing.
`reports` is the way of completions through window server, space manager and reactor, one FIFO queue, which a `RaiseTimeout` may overtake.
`disturbed` and `key` are history: whether anything failed, and whose raise last made a window key.

### MainWindow

The window server decides which app is `front`; an app learns of it later (`inbox`), our thread for it later still (`notes`), and the reactor from both the thread and, on a path of its own (`centre`), the notification center.
`last` is `last_activated`, the activation a raise of ours expects, with its deadline (`DeadlinePasses`) and its quiet flag; `reactor` is the tracker with the window last selected.
`aim` is history: where the selection ought to go. `hurry` marks that the user focused a window before the last focus was reported everywhere, `doubt` that an activation can no longer be told from another (a raise was cancelled, or its activation came too late), or that a raise ran ahead of the window it had made key; the properties make exceptions of these, as the code does go wrong then (section 4).
Only an app that does not think it is frontmost is waited for (app.rs:899). With any other `RaiseWindow` may come before the app hears of the window made key, which it may do between two raises or after the last.

### FrameSync

`animate` says whether animations are on, which `Init` chooses among `AnimateModes`.
One app thread, because transaction ids, animations and pending frames are kept per app and per window; the animation manager treats windows of different apps alike.
Queues: `events` to the reactor, `animQ` to the animation manager, `requests` to the app thread, `notifs` from the app; `batch` is what the app thread has drained and not yet handled (app.rs:317).
A layout is a number, and a frame has that number as size and as the destination of its position, with how many steps of `Frames` have been made: enough to tell a final frame from an intermediate one, and a frame with the size written from one without.
`Command` stands for whatever makes the layout manager want other frames. When the user resizes a window its layout follows; when the user moves it, it is put back (reactor.rs:842-873).
`UpdateLayout` is the write loop of `update_layout`, with the attempts of each window; `late` is the choice whether `FRAME_ATTEMPT_RESET` has passed.
Left out: drags (the mouse button is up), apps that refuse a frame (SizeShares has them), an app that quits, frames from window server snapshots, and the first frame of a focus window, which only windows just added get (reactor.rs:1796).

### Windows

One screen with several spaces. What an app's thread learns goes through the window server's queue, where the list of the windows on screen is read, and on to the reactor, which looks at nothing but its events; so the last two steps are one (`ServerHandles`).
`known` are the windows a thread has registered, `list` what the window server read last, `r` the reactor with its apps, windows, tracked and hidden ones, and how often each layout has each window.
`Init` is a program that has just been started, with the layouts it saved when it ended or without; in between windows may have closed and apps quit.
`StartupCompletes` is the event of that name, which may come before a slow app's launch (wm_controller.rs:157).
`strange` is history: windows that were closed or hidden once, or found before they were announced; `fresh`: apps that answered since anything happened.
Left out: native tabs, window rules, several screens, registration of an app's own notifications that fails.

### Spaces

`cg` are the displays as CoreGraphics has them now, `ns` as AppKit has them; a notification of changed screens carries a snapshot of `ns` to the window server, which compares it with `cg` (`HandleScreens`).
If they disagree a thread sleeps and asks the WM controller for a new snapshot (`ScheduleRetry`, `RetryThreadWakes`, `RefreshScreenParameters`); several may sleep for the same attempt, so they are counted.
The windows on screen may differ or not, which is the choice of dropping an unchanged configuration.
`wmQ`, `wsQ` and `smQ` are the three channels. Reactor, group bars and status icon send nothing back and see messages in the order they are sent, so these are applied when sent; `ReactorEvent` is any other event the reactor handles, which draws the bars again.
Commands and notifications of apps are taken to come when the WM controller handles them.
Assumptions about the system: AppKit sends a notification after each change of displays, once it has caught up; a display that is gone keeps its space.

### LayoutTree

A forest `t` is a record: `kids` (the tree itself, `tree.rs`), `info` (size, total, kind and last ungrouped kind, `size.rs`), `sel` (selected child and `stop_here`, `selection.rs`), `win` (`window.rs`) and `root` of each layout.
The code keeps these in components that hear of every change of the tree by `TreeEvent`s; here the operators on the tree (`Entered`, `Leaving`, `Deleted`, `ClonedLayout`) do to all parts what the components do on that event.
`RemovedChild` is the culling of containers (layout_tree.rs:1300), part of whatever took the child away.
Nodes are numbers without a meaning; siblings are in order.
Weights are whole numbers of 1/`Unit`.

### LayoutMapping

A mapping is a record: `size`, `active`, `retained` (`active_save_state`), `memory` (a function on the sizes remembered) and `refs` (the counts, on the layouts of the space).
`activate_size` is `Collected(Loaded(Saved(m), z))`, its three parts; `prepare_modify` is `Prepared`, `select_layout` is `Selected`, `replace_active_layout` is `Replaced`.
`MappingSpec` lets these happen in any order, whatever the trees hold: it is what the layout manager promises of the mappings, and what the proofs are about.

### LayoutManager

`place` is the reactor's: which windows exist and the space each is on. An event takes its arguments from it (`WindowsOnScreen` has the windows of an app on a space, and maybe new ones).
A command is for the space of the focused window. `Modify` is the common start of all commands for which `modifies_layout` says yes: a layout used elsewhere is cloned first, even if the command does nothing then. `Focus` is that of the others, `Split` among them, as in the code.
`Drop` is a drag and its end in one step; `Drag` has the steps.
`swapped` is history: only then may totals differ from the sum of the weights (see below).
Fullscreen, locks, scroll layouts and responses are in the modules below and in `RaiseRequests`. Left out altogether: window rules beyond floating or not, windows the reactor does not track, toggling a window on a space that is not managed.

### Sizes, SizeShares

A forest has three more fields: `lock` (the share a window is frozen at), `least` (sizes apps were seen to insist on) and `scroll` (the layouts that scroll).
`SolveSizes` shares a length (`solve_sizes`), `Masses` works locks into the weights (`masses`), `Frames` places nodes (`visit_node`, with columns from `scroll_constraints.rs`), `CalculateLayout` are the windows' frames, `SetFrameFromResize` takes a window's new frame back into weights.
The code computes in floating point; here weights and shares are whole numbers of 1/`Unit` and lengths whole pixels, to which the code rounds each frame. `solve_sizes` gives the first that is short its least size, one at a time; so does `AtMinimum`.

`SizeShares` has the commands and the mouse on one side, apps on the other: an app may refuse to be smaller than `accepts`, which it does not tell, and may move a window back to its `home`.
`mono` is `frame_monotonic`, `tries` the frame attempts, `asked` what an app has yet to answer.
`grabbed` is the window whose edge the user drags; `resizing` and `inDrag` are what the reactor makes of it, which differs if another app moves a window meanwhile, as its thread then reads that the button is down too, or if a window closes.
`late` is the choice for which windows `FRAME_ATTEMPT_RESET` has passed since the last try, whatever apps still have to do; their attempts start anew, and so does the count `writes` of the property.
Requests that a later one overtakes are left out, as their answers are ignored (FrameSync).

### Scroll

`view` is the viewport with its offset and target. The spring moves the offset at a time of its own (`Elapse`); that it has arrived is found by looking at the clock (`Poll`, `Tick`), not told.
`drag` is `interactive_resize` or `interactive_move`; `orphaned` is set when nodes a drag holds on to are gone, after which the next event of the drag would panic.
Left out: splits and groups in columns; `user_scrolling` and `active_column_index`, which the code never sets or never reads.

### Drag

`drag` is `title_bar_drag`; `held` is what the system moves; `moving` a frame change on its way, which may come after the release it preceded (`overtaken`).
`Close` may take any window, the held one included; it waits only for the frame changes of that window, which its thread sends before `WindowDestroyed`.
`Zone`, `ActionAt` and `DropAction` say what a point means, `PreviewFrames` is worked out on a copy of the tree, `Dropped` does it.
Apps write frames at once, and only refuse sizes below `Minimum`.

### Executor, Mailboxes

A task is an actor's loop, all joined in one main task that is polled as a whole. A channel is a count of events and whether it holds a waker; sending is three steps (push, take the waker, wake), and waking two, under the lock of `WakerImpl` (signal the source, wake the run loop up), so that everything may happen in between.
The run loop's `pc` is `look`, `sleep`, `poll` or `out`; a poll goes through the tasks and the branches of their `select!` in any order.
Channels close when the last sender is dropped; a loop then ends, and the main task when all have.
`Promise` is `Mailboxes` with `sent` as what was handled and what waits.
Left out: run loops run from within a handler. A panic aborts the program.

### Settings

A file has settings, rules and keys; a setting is shown by the preferences and saved by them, or only shown, or neither. Keys are spelled as the user did or as the preferences write them, because the merge is by spelling.
`Load` is `Config::load` with `Merge` (`partial.rs`) and `Validated`; `FromConfig` and `ApplyToConfig` are the way to the window and back, `WritePreferences` the writing.
`current` is `CURRENT_CONFIG`, `config` what each actor goes by, `inbox` their channels; `client`, `port` and `changed` are `glide config update --watch`, the message port, and whether the watcher has yet to see a change.

## 3. Runs

| Run | Instance | Shows |
|---|---|---|
| `RaiseSystemSafety` | 2 apps with 2 and 1 windows; a request for both apps that ends in a focus with warp, and one for a focus in the other app; 2 sequences | `ManagerSound` (never stuck, a live token, a timeout for what hangs), `PendingIsAnswered`, `RaisesExclusively`, `FocusFollowsMouse`, `FocusTakenInOrder`; `Spec`: the system implements `RaiseManager` |
| `RaiseSystemLive` | 1 sequence, under fairness | `EveryRaiseEnds`: raises, sequences and queues |
| `FrameSync` | 2 windows, 2 layouts, with animations of 2 frames and without, 2 commands, 1 move or close | `NoUnknownFrame`; `FramesSound` (ids in order; once quiet animations are balanced, the last write has won, the reactor agrees), `LayoutAsAsked`, `WritesArrive` |
| `Spaces` | 2 displays with 2 and 1 spaces, one or both connected; every command; with `--one` and without; 2 retries, 3 acts | `RetriesSound`, `ReactorFollows`, `HotkeysFollow`, `StatusTruthful` |
| `LayoutManager` | 2 spaces, 2 screen sizes (interchangeable, as sizes are only told apart), 3 windows of 2 apps, one floating by default; up to 4 events and 3 commands, 6 in all | `LayoutsSound` (trees, one per layout in use, selection, totals), `MappingSound`, `FloatingNotTiled`; `RearrangesOnly` (containers culled, no window lost, selection kept), `ModifiesItsOwn`; `MappingSpec`: implements `LayoutMapping` |
| `MainWindow` | an app with 2 windows, one not standard, and one with 1; 2 focuses by the user, 1 raise | `FocusAgreed` (once quiet, main window and selection are what has the focus), `SelectionAimed` (it goes nowhere else on the way) |
| `Windows` | an app with 2 windows and one with 1, 2 spaces; 2 acts, a restart over saved layouts being one | `LayoutKnown`, `LayoutFollows` |
| `SizeShares` | 3 windows in a row, a nested column or a group, on 62 by 41 pixels; apps that accept all, one that refuses, one that moves back; 2 acts | `RoomForAll`, `LocksHonoured`, `WritesBounded`, `ResizeTracks` |
| `Scroll` | 3 windows, in three columns or two; both ways of centering, wrapping or not; 3 acts | `FocusedInView`, `KindChangeKeeps`, `DragFollows` |
| `Drag` | 3 windows, a row or a nested column, two layouts of the space; 4 points; 4 acts | `DragEnds`, `DropAsPreviewed` |
| `Executor` | the reactor and the raise manager it sends to; 2 sends, 1 timer, 1 stop | `NothingForgotten`; `EveryEventHandled`: implements `Mailboxes!Spec` |
| `Settings` | 2 shown settings, one of them saved, and `default_keys`; 3 chords, one without a modifier; 4 files of an editor, one no TOML; 2 acts | `ActorsAgree`, `WatchedFileRuns`, `PreferencesKeep`, `RestartKeeps` |

Why the bounds are enough for what they are meant to show:
two apps contend for the lock and three windows give a batch of two; with two sequences a late answer, a late timeout or a cancelled raise of the first meets the second. Anything more general about the raise manager is proved (section 5).
Two commands start, replace or skip an animation at each of its frames (one of which does not set the size), and one move or close falls anywhere in it; without animations a move crosses two writes. `MaxAttempts` is 2, so that giving up on a frame is reached. Animations of 4 frames were checked too and only are larger.
In `Spaces` three acts allow a change of displays between a toggle and its refresh, or a change, a repeated notification and a retry of each; with two retries the last one, a retry after it and a second round all happen. The code has three; that instance, and the one in which all displays may be gone, is only larger.
In the layout manager three events (a screen, windows, another size) and three commands reach a space with two layouts that is rearranged and cycled, or returns to its first size; a fourth event adds a second screen, or removes a window of a nested container. Three windows and three commands nest two deep, and culling has both an only child and an empty container to remove. Ids of layouts (1..4) never run out within six steps.
In `MainWindow` and `Windows` each act sets off a dozen messages on four paths; two of them overlap in every order. A third focus only repeats what two do once all is quiet, which either leaves.
In `SizeShares` two acts are a lock and a resize against it, a resize and another of its neighbour, or either while an app still answers; a window is written to at most 4 times: there are three attempts (five in the code), and a move back that changes the size is taken for a resize, which may change the target once while attempts are counted. The app that moves its window back takes it to a place where in a row only its position changes, and in the other shapes also its size. In `Scroll` and `Drag` a press, a move and one thing that happens meanwhile fit into the acts.
In `Executor` one send crosses another to the same or another actor at every step of polling and waking; two actors suffice as a poll treats each alike.
In `Settings` one change in the window meets one by the editor, the client or a restart; one message waits in a mailbox when the next update starts.
All runs have bounded acts and so come to an end, which is why their configurations turn the deadlock check off.

### Fairness

- Raise manager: its loop goes on (weak fairness of `Settle`). Messages wait in FIFO channels, and `select!` picks among ready branches at random, so neither the relayed timeout nor the timer is passed over for ever: strong fairness. Nothing is asked of the apps.
- App threads: the raise task is weakly fair, taking raises is strongly fair as it needs the other task to await something. An activation that is waited for need not happen, an app need not quit.
- Frames: each actor is weakly fair, the tick strongly: a message can come first, but not for ever.
- Executor: the run loop's thread goes on, a sender that has pushed takes the waker and wakes, timers that are set fire: weak fairness of each. Nobody need send.
- The other models have no liveness property; theirs speak of the moments when nothing is on its way.

## 4. Findings

Met while modelling. None has a run of its own; the properties that would be violated make the exceptions named here, each with its comment in the module.

Raises and frames:

- A `RaiseTimeout` names its sequence only. One fired for the background phase that arrives after the focus raise was sent clears it and cancels it (raise.rs:203), although the comment at raise.rs:205 gives the focus phase its own timeout.
- A notification queued before an animation is read in its middle, with the id of the last write, and accepted as a move by the user (app.rs:753). The doc of `frame_monotonic` (reactor.rs:371) says only reads after the last write are. `ReactorAgrees` and `LayoutAsAsked` are about no animations for this reason.
- When an app is terminated its incoming task ends, but it is joined with the raise task, which goes on and never ends (app.rs:274), against the comment at app.rs:332. `RaiseSystem` models it so.

Spaces:

- A space disabled by the user before `default_disable` is set cannot be enabled by the toggle any more, while the icon says it is enabled (space_manager.rs:286). `StatusTruthful` excepts it.
- Bars are hidden by a direct message (space_manager.rs:271); an event the reactor handles before the refresh arrives puts them back, and nothing hides them afterwards.

Windows and activation:

- Two polls are needed before a window that was hidden is tiled again after it comes back (reactor.rs:1391).
- A window can be in the layout twice: `WindowSpaceChanged` does not look whether it is there already (layout.rs:929), and neither does the restoring of a place (layout.rs:789); the comment there asks not to duplicate.
- `StartupComplete` may overtake a slow app's `ApplicationLaunched` (wm_controller.rs:157, reactor.rs:576); the places saved for its windows are lost then (layout.rs:857).
- A window minimized before it was registered stays in the layout; so does the last window of an app when its closing was not announced, as the poll then has nothing of that app (reactor.rs:510).
- An app that thinks it is frontmost is not waited for (app.rs:899), as the comment at app.rs:860 admits. If two windows are raised before it hears that the first was made key, it then goes back to the first; this is reported as the user's doing and selected, although windows below the last "should always be quiet" (app.rs:941). `RaiseWindow` sets `doubt` in this case, and in no other: a single window, or a second one raised in time, does no harm.
- A raise that fails before its activation arrives, one that is cancelled (app.rs:389), or one overtaken by a second focus of the user selects the window that had the focus before (reactor.rs:1187). `doubt` and `hurry` in `MainWindow` mark these.

Layout:

- `modifies_layout` (layout.rs:216) counts `Split` among the commands that change nothing, so that it changes a layout shared with other screen sizes, against the doc of `prepare_modify` (layout_mapping.rs:125). `ModifiesItsOwn` makes an exception of it. A drop does not call `prepare_modify` at all (layout.rs:2334).
- Swapping windows of different containers exchanges their weights but leaves the containers' totals (size.rs:287). `TotalsKept` makes an exception of such swaps.
- `WindowRemoved` leaves `focused_window` (layout.rs:886): toggling a window that is gone puts it into the tree.
- Locking a window and unlocking it does not keep its size, against size.rs:24: `estate_share` is of the screen, and is taken for a share of the parent (layout_tree.rs:606, layout.rs:1454).
- `solve_sizes` does not let a weight be less than 0.1; locks that leave a part of the screen unused can push windows below their least size; drags against a neighbour at its least size use up its frame attempts.
- `FRAME_ATTEMPT_RESET` is measured from the last try (reactor.rs:1775), whether or not the app has moved its window back since. An app that takes longer than that to do so is given a fresh count each time and is written to for ever. `WritesBounded` counts from the last such pause.
- A window that an app moves by itself while the user drags another is taken to be the one the user drags: its lock is released, its new size goes into the weights, and frames are written to the window that is held (reactor.rs:851). Closing any window has the last effect too (reactor.rs:661).
- In a scroll layout on a second screen the focused column is not scrolled into view, as the viewport starts at the first screen's origin (scroll_viewport.rs:67, against ARCHITECTURE.md:204). The run has the first screen only.
- A drag in a scroll layout whose window leaves by a poll or with its app is not ended, and the next event of it panics; drags of left and top edges move the column the other way; the last column cannot be widened.
- A drop can show other frames than those that follow if the apps insist on least sizes (config.rs:251), and a quick flick leaves `in_drag` set until the next click (reactor.rs:872).

Executor and configuration:

- The loop of the raise manager's `run` matches `Some(..) = rx.recv()`; when the channel closes that branch is only disabled, so the loop does not end.
- A timer that is armed again after it fired, before that was looked at, is taken to have fired.
- Two key bindings that mean the same chord make the registration unwrap an error (sys/event.rs:44), at every start.
- Of the shown settings `drag_drop` is applied but never written (config.rs:601, preferences_json.rs:147); rules with a title or role come back without (preferences_json.rs:386); a file that is no TOML is overwritten, and `disable` keys are dropped on saving.
- A chord that the preferences give to two commands is in the running configuration twice and in the file once, as a section of keys is a map (config.rs:672); the running program unwraps the error of the second when it next registers its keys. A row whose chord has no modifier is written to the file and left out of the running configuration. `RestartKeeps` is about the other cases only.
- The preferences write the default file even if `--config` names another one, and do not hear of reloads.
- `group_bars::Event::ConfigChanged` is never sent (group_bars.rs:47).

## 5. Proofs

All proofs are for every value of the constants that satisfies the module's assumption, and assume nothing else.

**`RaiseSystemProofs`** (`RequestsAssumption`: the batches of a request are finitely many, nonempty, of windows of one app each, and disjoint) is about the raise manager, first alone and then with its app threads.
`LiveToken` and `TimeoutInFlight` are not inductive: that a fresh token was never cancelled, and that a relayed timeout belongs to the right sequence, depends on where older ones stand.
`IInv` adds `TokensBehind` (all cancelled tokens are older than the active one) and `TimeoutsOrdered` (relayed timeouts are in the order of their sequences, at most one for each, none for a sequence to come).
There is one lemma per action, and `InductiveInvariant` puts them together; `ManagerSoundHolds` is the result.

Of the system it proves `SystemTypeCorrect`, `RaisesExclusivelyHolds` and `ImplementsRaiseManager`, that every behaviour of `RaiseSystem` is one of `RaiseManager!Spec`.
As the variables of the manager are the same in both the refinement mapping is the identity; what has to be shown is that each report taken is one the environment of `RaiseManager` may give, which needs an invariant on everything in the channels.
`SInv` is `IInv` with `SeqBound`, `Channels` (every raise and report under way is one that some sequence asked for), `Tasks` (a raise task past the lock holds it) and `History`.
It also makes the theorems about the manager hold for the system.

`FocusTakenInOrderHolds`, `FocusFollowsMouseHolds` and `PendingIsAnsweredHolds` complete the raise system's safety.
A raise goes through two channels and the hands of two tasks. The proof puts these into one `Line` for each app, so that all but one step of the app threads leave the lines as they are or take the first raise away, and the manager's sends append to them.
`Ordered` says of the lines that raises are with the app of their windows and from the past (`Placed`), that no window is in two raises of a sequence or reported before its turn (`Disjoint`), that the focus batch is apart from what was sent before (`FocusApart`), that a raise yet to begin is waited for unless cancelled (`Live`), that once the focus raise is sent no quiet raise of its sequence has yet to begin unless cancelled (`QuietFirst`), and that whoever is about to make a window key comes after the last that did (`KeyInOrder`).
`Live` is what makes the order hold: a sequence is only followed by the next when nothing of it is waited for, so whatever of it still stands in a line was cancelled.
`PendingComes` and `FocusComes` are the invariants of the other two.

**`MainWindowProofs`** (`ActivationAssumption`: every app has a window): `FocusAgreedHolds` and `SelectionAimedHolds`, all of the module's safety.
That reactor, threads and apps agree with the system on what is frontmost is the easier half: the last news in each queue tells of the present (`NewsCurrent`), a thread behind its app has a notification that will tell it (`ThreadsNotified`), and the tracker has of each app what its thread has (`TrackerFollows`).
Where the selection goes depends on which of the two paths of an activation is faster. `AimInSight` says that, while nothing is in doubt, all that is under way comes either of the user's focusing windows (`UserFocusing`) or of one raise (`Raising(a)`), and for both what is still to come of every app: of those that are not to have the focus only their deactivation (`Leaves`), of the one that is what the raise's next step allows (`RaiseWaits`, `RaiseWoken`, `RaiseGoesOn`, `RaiseDone`).
As an app that thinks it is frontmost is not waited for, a window may be raised before the app hears of the one made key; `NothingNew` says that, unless this is in doubt, the two are the same, so that what is still to come changes nothing.
A second raise or focus in between either finds everything quiet or sets `hurry` or `doubt`, whose definitions name the moments of the code after which its rule for quiet activations may fail (section 4); the invariant shows that there are no others.
`FInv` puts these together with `FollowsAtFirst`, which is for the time before the first raise, when apps may still be launching.

**`WindowsProofs`** (`WindowsAssumption`, which says that there is a space, that each window has an app and that windows are finitely many, as their ids are): `LayoutKnownHolds` and `LayoutFollowsHolds`, all of the module's safety.
Of the many ways into a layout the proof needs one thing only: what a handler adds are windows of the event's app that the reactor knows by then (`Adds`).
`WInv` says that the server's queue has nothing of an app before its launch or after its end, and its launch at most once (`Ordered`, `Runs`), so that no event can put a window back after the app's windows were removed (`Tidy`).

`LayoutFollows` is about moments at which nothing is on its way, so its invariant `FInv` says what is on its way otherwise, along the chain from the windows to the layout.
`LivesInv`: a window that died and is still known to its thread has a notification or a word of Skylight waiting there.
`BooksInv`: what a thread has registered the reactor knows or has in its queue; of what it has not, or no more, the window's `WindowDestroyed` is in the queue and no event that finds it comes after that (`LastIn`).
`EndsInv`: an app that has no thread, and that the reactor knows or will know, has its end in the queue.
`ScreenInv`: a window that came on the screen, or left it, since WindowServer read the list has it read again (`WillRead`), and what was on it and was not taken for closed is what the reactor takes to be visible. Windows that are `strange` are excepted, those for which the reactor has to guess.
`FreshInv`: of an app that has answered since the last act, either that answer is the last of it in the queue, or the reactor has what the app lists (`Even`): its layout has the windows that are visible, and all that the app does not list are hidden.
The six acts of users and apps on a window are one case for the proof (`Moves`, `Change`), and so is all that a thread does until it ends (`Learns`); `AfterRest` says what each event makes of the reactor's books, and `FInvSound` that in a settled state the invariant leaves nothing but what `LayoutFollows` says.

**`SettingsProofs`** (`SettingsAssumption`, and `ContentsAssumption`: the file the program is built with can be loaded and has a section of keys, every setting and no rules; files have commands and chords that exist; modifiers are no chords; no command is called what the pause is): `ActorsAgreeHolds`, `WatchedFileRunsHolds`, `PreferencesKeepHolds` and `RestartKeepsHolds`, all of the module's properties.
Of a mailbox only the last configuration in it counts: an actor that has none on its way keeps what it has (`NoUpdate`), the others end up with the one at the end (`Carries`); `Will` is either.
`SInv` says of the WM controller, of the actors after it and of the keys to register that they end up with the same, and of the watched file that who is behind it, client, port or server, has an update on its way or a reason to send another.

The other two are about what is in a configuration. `Contents` is their invariant: what is running, on its way, shown or in the file is `GoodConfig`, `GoodView` and `GoodFile`.
Lists made of sets (the keys of a section, the rows, the kept rows) are only known to name each element once (`Lists`, `InOrderLists`), which is all that the code's hash map and sort promise.
`SortedShows` says which row shows which key or pause, `OwnCommand` that an identifier is read back as its one command, which is the last of that name in the list; so the rows that are kept are those of the keys, as many as there were (`KeysKept`).
For the file, `Tabulates` says what a section that is written has, `TablePause` and `TableBindings` what is loaded of it: the modifier that is written as `disable` is what keeps a pause off that was off, since without it loading brings Cmd back.
Preparing the proof showed `RestartKeeps` to be false as it stood: a chord given to two commands, and a row in the window whose chord has no modifier, are kept by the file and by the program differently (section 4). Both are now excluded by name, and the run has files in which they occur.

**`SpacesProofs`** (`SpacesAssumption`): `RetriesSoundHolds`, `HotkeysFollowHolds`, `ReactorFollowsHolds` and `StatusTruthfulHolds`, all of the module's safety.
That things agree once nothing is on its way is proved by saying what is on its way otherwise. Each part of the state is either as it should be, and no message that says otherwise is in the queue (`Without`), or the last message in the queue of those that change it makes it so (`EndsIn`), or a message that will have it computed afresh is there (`Has`).
`RInv` are the types and `RetryComes`; `HotkeysComing` is of hotkeys; `FollowInv` puts together `DisplaysComing`, `ScreensComing`, `SpacesComing`, `ManagedComing` and `StatusComing`, along the way from CoreGraphics to reactor and icon.
`LastMatches` is the part that is not obvious: the window server drops a configuration that is the same as the last, and this leaves the cached displays as they are only because the last one was of the cached displays.

**`FrameSyncProofs`** (`FrameAssumption`): `NoUnknownFrameHolds`, `LayoutAsAskedHolds` and `FramesSoundHolds`, all of the module's safety.
`Types` has the messages in it: a message is of a set that depends on the ids sent so far, so that no id, in whatever queue or cache, is ahead of its window's last. Ids only grow, so that what was in time stays so (`StaysInTime`).
`Known` says of the windows that the reactor has those the app has registered and those of all events, and that nothing comes after a window's destruction; that is why the unwrap is safe.
`Calm` says, for no animations and no moves, that whatever carries the last id of a window, a write or a read, has the frame the reactor has; a new write makes all that went before old (`MovesCalm`).

The parts of `FramesSound` are of quiet states, and the proof says what holds of the others. A window in the eyes of its requests is a `Local` state: whether it is animated, its frame and id, and whether its size is that of its last frame. `Does` is what one request makes of that, and at the same time says which requests may come then: an animation that is not on is not ended, one that ends has just had a frame with a size, and ids grow.
`Animated` says that for each window there is such a state for what the app has of it now (`Present`), one for what the animation manager makes of it (`Managed`), and that the requests between the two lead from one to the other (`Leads`).
The manager may therefore replace, skip and carry over animations (`SkipManaged`, `ReplaceManaged`, `TickManaged`), and the app coalesce frames and flush them (`FramePresent`, `EndPresent`, `FlushPresent`), each knowing only its end of the queue. When nothing is on its way both states are the same (`QuietFits`), so that the frame written last is the one there is (`LastWriteWinsHolds`).
`Counted` says that `animating` is the number of windows that are animated in the app's eyes, which is why enhanced UI comes back exactly once (`AnimationsBalancedHolds`).
`Plain` is for no animations: what the reactor will take a frame to be after the events on their way (`Hears`) is what it is, unless a notice of the window still waits or a write of the reactor's own is still to be handled, whose frame it has already (`Agreed`). A write that is handled is the last one sent, and then its frame is the one written last, or another follows (`LastSet`); this is where `ReactorAgrees` needs `Animated`.
`FlattenParts` and `LeadsEach` are about `FlattenSeq` and the order in which windows are gone through, by induction on the windows' number.

**`LayoutMappingProofs`** (`LayoutAssumption`: layouts are numbers): `MappingSoundHolds`, of every sequence of operations of `MappingSpec`, `replace_active_layout` included.
The invariant `MInv` says of each mapping that it is `Typed`, `OwnsWhatItUses` and `Exact`, and that two spaces own no layout in common (`Apart`).
`CountsExact` needs the rest: were a layout in use not owned, counting it down would start at nothing.
The argument counts users: `RememberingAfter` says how the sizes that remember a layout change when one size comes to remember another, by adding or removing one element of a finite set, and then each part of an operation (`SavedGood`, `LoadedGood`, `CollectedGood`, `SelectedGood`, `PreparedGood`, `ReplacedGood`) adds and takes away in `refs` what it adds and takes away in users.
Collecting removes no layout in use because a layout in use has a user (`UsedHasUsers`).

**`ExecutorProofs`**: `NothingIsForgotten` and `MailboxesImplemented`, that the thread implements the safety part of `Mailboxes`.
A wakeup can be lost only between the steps of sending, polling and going to sleep. `IInv` follows each: while an event waits, either its channel's waker was taken by a sender who has yet to wake, or the source is signalled, or the poll that is going on has yet to come to it (`PollShape`, `NoEventForgotten`); and who signals the source also wakes the loop (`SleepsSoundly`).

Only model-checked:

- liveness (`EveryRaiseEnds`, `WritesArrive`, `EveryEventHandled`), which is out of the prover's reach;
- everything over the trees, whose operators are recursive and so out of reach too: `LayoutManager` (with its implementing `MappingSpec`), `SizeShares`, `Scroll`, `Drag`.

## 6. Not modelled, and what is next

Not modelled: drawing, menus, the permission dialog, logging, parsing of files and of the command line, the wrappers of macOS calls, which the models' environments stand for, and floating point. Each module's section says what it leaves out, and `PROJECT.json` lists the parts of the system that are modelled partly.

Next, in this order:

1. Liveness of `Spaces`: the reactor follows in the end.
2. Several screens in `Windows`; native tabs.
