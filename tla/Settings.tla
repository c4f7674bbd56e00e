------------------------------ MODULE Settings ------------------------------
(* The configuration on its way between the configuration file, the         *)
(* preferences window, `glide config update` and the actors that use it.    *)
(*                                                                          *)
(* A setting is shown by the preferences and saved by them, or shown only,  *)
(* or neither. The file names a key binding by a chord or by modifiers, in  *)
(* a spelling of the user's or in the one the preferences write.            *)
EXTENDS Naturals, SequencesExt

CONSTANTS
    Shown, Saved, Hidden,        \* settings; Saved \subseteq Shown
    Chords, Plain,               \* chords, and those without a modifier
    Id, Rank,                    \* what describe_command calls each command, and
                                 \* the place of each identifier among the rows
    Default,                     \* the file the program is built with
    Files,                       \* what the user may write into the file
    Listeners,                   \* "status" and others that just listen: "mouse"
    MaxActs,                     \* changes, edits, timeouts and restarts
    MaxQueue                     \* messages in a mailbox when another update starts

ASSUME SettingsAssumption ==
    /\ Saved \subseteq Shown /\ Shown \cap Hidden = {} /\ Plain \subseteq Chords
    /\ Listeners \cap {"wm", "sm", "reactor"} = {}

Identifiers == {Id[cmd] : cmd \in DOMAIN Id} \cup {"pause"}
Modifiers == {"Cmd", "Ctrl"}
Written(key) == <<key, "written">>
Modifying(names) == {n \in names : n[1] \in Modifiers}

VARIABLES
    file,        \* the file: [toml, settings, rules, keys], the last two optional
    alive, lastError,
    current,     \* CURRENT_CONFIG, what the preferences start from
    config,      \* the configuration each actor goes by
    inbox,       \* the actors' mailboxes
    hotkeys,     \* what is registered, if anything: {} or {keys}
    deaf,        \* Status stopped listening
    view, dirty, \* the preferences, {} until opened, and changes not saved yet
    watching, changed, client, port, updated,
    acts

programVars == <<alive, current, config, inbox, hotkeys, deaf>>
windowVars == <<view, dirty, lastError>>
clientVars == <<watching, changed, client, port, updated>>
vars == <<file, programVars, windowVars, clientVars, acts>>

Actors == {"wm", "sm", "reactor"} \cup Listeners
-----------------------------------------------------------------------------
(* Loading.                                                                 *)

(* What `high` says, and for what it says nothing of, what `low` says.      *)
Over(high, low) ==
    [x \in DOMAIN high \cup DOMAIN low |-> IF x \in DOMAIN high THEN high[x] ELSE low[x]]

(* Every setting is optional in a file.                                     *)
MergeSettings(low, high) == Over(high.settings, low.settings)

(* The values of `high` take precedence; keys are merged by their spelling. *)
Merge(low, high) ==
    LET settings == MergeSettings(low, high)
        included == high.keys = {} \/ settings["default_keys"]
        under    == IF included THEN UNION {DOMAIN k : k \in low.keys} ELSE {}
        lowKeys  == CHOOSE k \in low.keys : TRUE
    IN [settings |-> settings,
        rules |-> IF high.rules # {} THEN high.rules ELSE low.rules,
        keys |-> IF high.keys = {} THEN lowKeys
                 ELSE Over(CHOOSE k \in high.keys : TRUE, [n \in under |-> lowKeys[n]])]

(* A disabled key is left out; modifiers pause focus-follows-mouse, and Cmd *)
(* does so unless something else does or modifiers are disabled.            *)
Validated(merged) ==
    LET names == DOMAIN merged.keys
        bound == SetToSeq({n \in names \ Modifying(names) : merged.keys[n] # "disable"})
        pause == {n[1] : n \in {m \in Modifying(names) : merged.keys[m] = "pause"}}
        off   == \E n \in Modifying(names) : merged.keys[n] = "disable"
    IN [settings |-> merged.settings,
        rules |-> UNION merged.rules,
        keys |-> [i \in DOMAIN bound |-> [key |-> bound[i][1], cmd |-> merged.keys[bound[i]]]],
        pause |-> IF pause = {} /\ ~off THEN {"Cmd"} ELSE pause]

(* {} stands for an error: no TOML, or a chord that is to pause.            *)
Load(f) ==
    LET merged == Merge(Default, f)
        names  == DOMAIN merged.keys
    IN IF f.toml /\ \A n \in names \ Modifying(names) : merged.keys[n] # "pause"
       THEN {Validated(merged)} ELSE {}

DefaultConfig == CHOOSE c \in Load(Default) : TRUE

(* A section of keys: each chord or modifier has a command, pauses, or is   *)
(* disabled.                                                                *)
IsTable(t) ==
    /\ IsFiniteSet(DOMAIN t)
    /\ \A n \in DOMAIN t : n[1] \in Chords \cup Modifiers /\ t[n] \in DOMAIN Id \cup {"pause", "disable"}

(* The file the program is built with can be loaded, and has keys, every    *)
(* setting and no rules.                                                    *)
ASSUME ContentsAssumption ==
    /\ Chords \cap Modifiers = {} /\ "default_keys" \in Hidden
    /\ DOMAIN Id \cap {"pause", "disable"} = {} /\ \A cmd \in DOMAIN Id : Id[cmd] # "pause"
    /\ Rank \in [Identifiers -> Nat]
    /\ Load(Default) # {} /\ (\E t \in Default.keys : Default.keys = {t}) /\ Default.rules \subseteq {{}}
    /\ Shown \cup Hidden \subseteq DOMAIN Default.settings
    /\ \A f \in Files \cup {Default} : \A t \in f.keys : IsTable(t)
-----------------------------------------------------------------------------
(* The preferences as they are shown, applied and saved.                    *)

(* A row shows app names and bundle identifiers only: what a rule says of   *)
(* titles or roles is gone.                                                 *)
Rule(rule) == IF rule = "titled" THEN "any" ELSE rule

(* A row names its command by the identifier describe_command gives it.     *)
Described(cmd) == Id[cmd]

Rows(c) == [i \in 1..Len(c.keys) |-> [key |-> c.keys[i].key, id |-> Described(c.keys[i].cmd)]]
           \o SetToSeq({[key |-> m, id |-> "pause"] : m \in c.pause})

(* The elements of S, listed in the order of the pairs in `before`.         *)
InOrder(S, before) ==
    [k \in 1..Cardinality(S) |->
        CHOOSE i \in S : Cardinality({j \in S : <<j, i>> \in before}) = k - 1]

(* By category and, within it, by sort_order.                               *)
Sorted(rows) ==
    LET n == DOMAIN rows
        order == InOrder(n, {p \in n \X n :
                     \/ Rank[rows[p[1]].id] < Rank[rows[p[2]].id]
                     \/ Rank[rows[p[1]].id] = Rank[rows[p[2]].id] /\ p[1] < p[2]})
    IN [i \in DOMAIN rows |-> rows[order[i]]]

FromConfig(c) ==
    [settings |-> [s \in Shown |-> c.settings[s]],
     rules |-> {Rule(r) : r \in c.rules},
     rows |-> Sorted(Rows(c))]

CommandOfDefaults(c, id) == {cmd \in DOMAIN Id : Id[cmd] = id
    /\ \E i \in DOMAIN DefaultConfig.keys : DefaultConfig.keys[i].cmd = cmd}

(* The commands an identifier may stand for: the last of the configuration, *)
(* or else of the defaults.                                                 *)
CommandOf(c, id) ==
    LET last(keys) == {keys[i].cmd : i \in
            {j \in DOMAIN keys : Described(keys[j].cmd) = id
                /\ \A k \in j + 1 .. Len(keys) : Described(keys[k].cmd) # id}}
    IN IF last(c.keys) # {} THEN last(c.keys) ELSE last(DefaultConfig.keys)

Paused(rows) == {rows[i].key : i \in {j \in DOMAIN rows : rows[j].id = "pause"}}

(* A row's chord is read back if it has a modifier.                         *)
IsHotkey(key) == key \in Chords \ Plain

BuildKeys(rows, c) ==
    LET kept == {i \in DOMAIN rows : /\ rows[i].id # "pause" /\ IsHotkey(rows[i].key)
                                     /\ CommandOf(c, rows[i].id) # {}}
        order == InOrder(kept, {p \in kept \X kept : p[1] < p[2]})
    IN [k \in DOMAIN order |->
          [key |-> rows[order[k]].key, cmd |-> CHOOSE cmd \in CommandOf(c, rows[order[k]].id) : TRUE]]

ApplyToConfig(v, c) ==
    [settings |-> Over(v.settings, c.settings),
     rules |-> {Rule(r) : r \in v.rules},
     keys |-> BuildKeys(v.rows, c),
     pause |-> IF Paused(v.rows) = {} THEN c.pause ELSE Paused(v.rows)]

(* The [keys] section the preferences write in place of the file's own.     *)
KeysToWrite(v, f) ==
    LET loaded == CHOOSE c \in (IF Load(f) = {} THEN {DefaultConfig} ELSE Load(f)) : TRUE
        known  == {i \in DOMAIN v.rows :
                     v.rows[i].id # "pause" /\ CommandOf(loaded, v.rows[i].id) # {}}
        chord(i) == Written(v.rows[i].key)
        command(name) ==
            CHOOSE cmd \in CommandOf(loaded,
                v.rows[CHOOSE i \in known : chord(i) = name
                         /\ \A j \in known : j > i => chord(j) # name].id) : TRUE
        off == IF Paused(v.rows) = {} /\ loaded.pause = {} THEN {"Cmd"} ELSE {}
        held  == Over([n \in {Written(m) : m \in Paused(v.rows)} |-> "pause"],
                      [n \in {Written(m) : m \in off} |-> "disable"])
        table == Over([n \in {chord(i) : i \in known} |-> command(n)], held)
    IN IF v.rows = <<>> \/ DOMAIN table = {} THEN {} ELSE {table}

WriteAfresh(v, f) ==
    [toml |-> TRUE, settings |-> [s \in Saved |-> v.settings[s]],
     rules |-> IF v.rules = {} THEN {} ELSE {v.rules}, keys |-> KeysToWrite(v, f)]

(* A file that is no TOML is written anew; of any other the rest is kept.   *)
WritePreferences(v, f) ==
    LET old == IF f.toml THEN f.settings ELSE <<>>
        oldKeys == IF f.toml THEN f.keys ELSE {}
    IN [toml |-> TRUE,
        settings |-> Over([s \in Saved |-> v.settings[s]], old),
        rules |-> IF v.rules = {} THEN {} ELSE {v.rules},
        keys |-> IF KeysToWrite(v, f) = {} THEN oldKeys ELSE KeysToWrite(v, f)]
-----------------------------------------------------------------------------
(* The program.                                                             *)

ConfigUpdated(c) == [kind |-> "ConfigUpdated", config |-> {c}]
HotkeysActive == [kind |-> "HotkeysActive", config |-> {}]

(* What everything is when the program starts with configuration c; the     *)
(* space manager asks for the hotkeys with the first space it hears of.     *)
Started(c) ==
    [current |-> c, config |-> [a \in Actors |-> c],
     inbox |-> [a \in Actors |-> IF a = "wm" THEN <<HotkeysActive>> ELSE <<>>],
     hotkeys |-> {}, deaf |-> ~c.settings["status_icon"]]

Init ==
    /\ file \in Files
    /\ \E c \in Load(file) : LET s == Started(c) IN
         /\ current = s.current /\ config = s.config /\ inbox = s.inbox
         /\ hotkeys = s.hotkeys /\ deaf = s.deaf
    /\ alive = TRUE
    /\ view = {} /\ dirty = FALSE /\ lastError = FALSE
    /\ watching = FALSE /\ changed = FALSE /\ client = {} /\ port = <<>> /\ updated = FALSE
    /\ acts = 0

(* Quitting or aborting: only the file and the client are left.             *)
Ended ==
    /\ alive' = FALSE
    /\ inbox' = [a \in Actors |-> <<>>]
    /\ hotkeys' = {} /\ port' = <<>>
    /\ current' = DefaultConfig /\ config' = [a \in Actors |-> DefaultConfig] /\ deaf' = FALSE
    /\ view' = {} /\ dirty' = FALSE /\ lastError' = FALSE
    /\ IF \E c \in client : c.sent
       THEN client' = {} /\ updated' = FALSE
       ELSE UNCHANGED <<client, updated>>
    /\ UNCHANGED <<file, watching, changed, acts>>

(* Changes, edits, timeouts and restarts are few.                           *)
Act == acts < MaxActs /\ acts' = acts + 1
Room == \A a \in Actors : Len(inbox[a]) <= MaxQueue

Take(a) == alive /\ inbox[a] # <<>>
Rest(a) == [inbox EXCEPT ![a] = Tail(@)]
Send(box, to, m) == [a \in Actors |-> IF a \in to THEN Append(box[a], m) ELSE box[a]]

WmConfigUpdatedQuietly ==
    /\ Take("wm") /\ Head(inbox["wm"]).kind = "ConfigUpdated"
    /\ \E c \in Head(inbox["wm"]).config :
         /\ config' = [config EXCEPT !["wm"] = c]
         /\ inbox' = Send(Rest("wm"), Listeners \cup {"sm"}, ConfigUpdated(c))
    /\ hotkeys' = {}
    /\ UNCHANGED <<file, alive, current, deaf, windowVars, clientVars, acts>>

WmConfigUpdated ==
    /\ Take("wm") /\ Head(inbox["wm"]).kind = "ConfigUpdated"
    /\ \E c \in Head(inbox["wm"]).config :
         /\ current' = c
         /\ config' = [config EXCEPT !["wm"] = c]
         /\ inbox' = Send(Rest("wm"), Listeners \cup {"sm"}, ConfigUpdated(c))
    /\ hotkeys' = {}
    /\ UNCHANGED <<file, alive, deaf, windowVars, clientVars, acts>>

(* A chord cannot be registered twice: the program panics, and panics       *)
(* abort.                                                                   *)
Twice(keys) == \E i, j \in DOMAIN keys : i # j /\ keys[i].key = keys[j].key

WmHotkeysActive ==
    /\ Take("wm") /\ Head(inbox["wm"]).kind = "HotkeysActive"
    /\ IF hotkeys = {} /\ Twice(config["wm"].keys)
       THEN Ended
       ELSE /\ inbox' = Rest("wm")
            /\ hotkeys' = IF hotkeys = {} THEN {config["wm"].keys} ELSE hotkeys
            /\ UNCHANGED <<file, alive, current, config, deaf, windowVars, clientVars, acts>>

(* The space manager passes the configuration on and has the hotkeys        *)
(* registered again.                                                        *)
SmConfigUpdated ==
    /\ Take("sm")
    /\ config' = [config EXCEPT !["sm"] = CHOOSE c \in Head(inbox["sm"]).config : TRUE]
    /\ inbox' = Send(Send(Rest("sm"), {"reactor"}, Head(inbox["sm"])), {"wm"}, HotkeysActive)
    /\ UNCHANGED <<file, alive, current, hotkeys, deaf, windowVars, clientVars, acts>>

(* The reactor and the mouse keep what they are sent; Status does so too    *)
(* unless it had no icon when it started: then its task has returned.       *)
Received(a) ==
    /\ Take(a)
    /\ inbox' = Rest(a)
    /\ config' = IF a = "status" /\ deaf THEN config
                 ELSE [config EXCEPT ![a] = CHOOSE c \in Head(inbox[a]).config : TRUE]
    /\ UNCHANGED <<file, alive, current, hotkeys, deaf, windowVars, clientVars, acts>>
-----------------------------------------------------------------------------
(* The preferences window, in the program's main thread.                    *)

(* The window and what it shows are made once and kept.                     *)
OpenPreferences ==
    /\ alive /\ view = {}
    /\ view' = {FromConfig(current)}
    /\ UNCHANGED <<file, programVars, dirty, lastError, clientVars, acts>>

(* A change the window saves when it has been left alone for a while.       *)
Changed(v) ==
    /\ Act
    /\ view' = {v} /\ view' # view
    /\ dirty' = TRUE
    /\ UNCHANGED <<file, programVars, lastError, clientVars>>

ChangeSetting(s) == \E v \in view : Changed([v EXCEPT !.settings[s] = ~@])
ChangeRules(rules) == \E v \in view : Changed([v EXCEPT !.rules = rules])

(* The running program first, then the file, the writing of which may fail. *)
SaveToConfig(v) ==
    LET c == ApplyToConfig(v, current) IN
    /\ Room
    /\ current' = c
    /\ inbox' = Send(inbox, {"wm"}, ConfigUpdated(c))
    /\ \E ok \in BOOLEAN :
         /\ lastError' = ~ok
         /\ file' = IF ok THEN WritePreferences(v, file) ELSE file
         /\ changed' = (changed \/ (watching /\ ok))
    /\ view' = {v}
    /\ UNCHANGED <<alive, config, hotkeys, deaf, watching, client, port, updated>>

DebouncedSave ==
    /\ dirty
    /\ \E v \in view : SaveToConfig(v)
    /\ dirty' = FALSE
    /\ UNCHANGED acts

(* updateHotkey and resetHotkeyToDefault change the first row of the        *)
(* command and save at once, along with what is still to be saved; no chord *)
(* is recorded without a modifier.                                          *)
UpdateHotkey(id, key) ==
    /\ Act
    /\ \E v \in view : \E i \in DOMAIN v.rows :
         /\ v.rows[i].id = id /\ \A j \in 1..i - 1 : v.rows[j].id # id
         /\ key \notin Plain \cup {v.rows[i].key} /\ (key \in Modifiers <=> id = "pause")
         /\ SaveToConfig([v EXCEPT !.rows[i].key = key])
    /\ UNCHANGED dirty
-----------------------------------------------------------------------------
(* The user, and `glide config update`, once or with --watch.               *)

Edit(f) ==
    /\ Act /\ f # file
    /\ file' = f
    /\ changed' = (changed \/ watching)
    /\ UNCHANGED <<programVars, windowVars, watching, client, port, updated>>

Quit == alive /\ Ended

Start ==
    /\ Act /\ ~alive
    /\ \E c \in Load(file) : LET s == Started(c) IN
         /\ current' = s.current /\ config' = s.config /\ inbox' = s.inbox
         /\ hotkeys' = s.hotkeys /\ deaf' = s.deaf
    /\ alive' = TRUE
    /\ UNCHANGED <<file, windowVars, clientVars>>

Watch ==
    /\ alive /\ ~watching /\ client = {}
    /\ watching' = TRUE /\ changed' = TRUE
    /\ UNCHANGED <<file, programVars, windowVars, client, port, updated, acts>>

(* A file that cannot be loaded is reported and not sent.                   *)
UpdateConfig ==
    /\ watching /\ changed /\ client = {}
    /\ changed' = FALSE
    /\ client' = {[config |-> c, sent |-> FALSE] : c \in Load(file)}
    /\ updated' = (updated /\ Load(file) # {})
    /\ UNCHANGED <<file, programVars, windowVars, watching, port, acts>>

SendForgetting ==
    /\ \E c \in client : ~c.sent /\ port' = Append(port, c.config) /\ client' = {[c EXCEPT !.sent = TRUE]}
    /\ alive /\ changed' = FALSE
    /\ UNCHANGED <<file, programVars, windowVars, watching, updated, acts>>

(* Without a server the client cannot reconnect and gives up.               *)
SendRequest ==
    /\ \E c \in client :
         /\ ~c.sent
         /\ IF alive
            THEN port' = Append(port, c.config) /\ client' = {[c EXCEPT !.sent = TRUE]}
                 /\ UNCHANGED <<watching, changed>>
            ELSE client' = {} /\ watching' = FALSE /\ changed' = FALSE /\ UNCHANGED port
    /\ UNCHANGED <<file, programVars, windowVars, updated, acts>>

(* on_request hands the configuration on and answers; if the client has     *)
(* given a request up, nobody reads the answer.                             *)
OnRequest ==
    /\ alive /\ port # <<>> /\ Room
    /\ inbox' = Send(inbox, {"wm"}, ConfigUpdated(Head(port)))
    /\ port' = Tail(port)
    /\ IF Len(port) = 1 /\ \E c \in client : c.sent
       THEN client' = {} /\ updated' = TRUE
       ELSE UNCHANGED <<client, updated>>
    /\ UNCHANGED <<file, alive, current, config, hotkeys, deaf, windowVars,
                   watching, changed, acts>>

(* The request may have been queued or not.                                 *)
TimeOut ==
    /\ Act /\ \E c \in client : c.sent
    /\ client' = {} /\ updated' = FALSE
    /\ port' \in {port, Front(port)}
    /\ UNCHANGED <<file, programVars, windowVars, watching, changed>>

Next ==
    \/ WmConfigUpdated \/ WmHotkeysActive \/ SmConfigUpdated
    \/ \E a \in Listeners \cup {"reactor"} : Received(a)
    \/ OpenPreferences \/ DebouncedSave
    \/ \E s \in Shown : ChangeSetting(s)
    \/ \E rules \in {{}, {"app"}} : ChangeRules(rules)
    \/ \E id \in Identifiers, key \in Chords \cup Modifiers :
         UpdateHotkey(id, key)
    \/ \E f \in Files : Edit(f)
    \/ Quit \/ Start
    \/ Watch \/ UpdateConfig \/ SendRequest \/ OnRequest \/ TimeOut

Spec == Init /\ [][Next]_vars
-----------------------------------------------------------------------------
Quiet == alive /\ port = <<>> /\ \A a \in Actors : inbox[a] = <<>>

(* Once all messages are handled every actor goes by the configuration the  *)
(* preferences would start from, and its keys are registered, whether it    *)
(* came from the window or from the client and whatever overtook what.      *)
ActorsAgree ==
    Quiet => /\ \A a \in Actors : (a = "status" /\ deaf) \/ config[a] = current
             /\ hotkeys = {current.keys}

(* If the client that watches the file says it is updated and sees no       *)
(* further change, what the file says is what runs, whoever wrote it last   *)
(* and whatever was lost, late or restarted in between.                     *)
WatchedFileRuns ==
    Quiet /\ watching /\ ~changed /\ client = {} /\ updated /\ ~lastError
        /\ Load(file) # {}
    => Load(file) = {current}

(* Commands that share an identifier, chords without a modifier and rules   *)
(* about titles are beyond the preferences.                                 *)
Showable(c) ==
    /\ \A i, j \in DOMAIN c.keys : Id[c.keys[i].cmd] = Id[c.keys[j].cmd] => c.keys[i].cmd = c.keys[j].cmd
    /\ \A i \in DOMAIN c.keys : c.keys[i].key \notin Plain
    /\ "titled" \notin c.rules

Bindings(c) == {<<c.keys[i].key, c.keys[i].cmd>> : i \in DOMAIN c.keys}

(* Of any other configuration the preferences lose nothing: applied as they *)
(* are shown, they change nothing but the order of the keys.                *)
PreferencesKeep ==
    Quiet => \A c \in {current} \cup Load(file) :
        Showable(c) => LET d == ApplyToConfig(FromConfig(c), c) IN
            /\ d.settings = c.settings /\ d.rules = c.rules /\ d.pause = c.pause
            /\ Bindings(d) = Bindings(c) /\ Len(d.keys) = Len(c.keys)

(* What sends a configuration without having been asked to.                 *)
Saves == view # {} /\ Len(inbox'["wm"]) > Len(inbox["wm"]) /\ port' = port /\ inbox'["sm"] = inbox["sm"]

(* The window, which is not told of other changes, has their commands, and  *)
(* none that the running program would leave out.                           *)
Fresh ==
    \A v \in view : /\ {v.rows[i].id : i \in DOMAIN v.rows} = {Rows(current)[i].id : i \in DOMAIN Rows(current)}
                   /\ \A i \in DOMAIN v.rows : v.rows[i].key \notin Plain

(* When the preferences are saved while file and program agree, a restart   *)
(* would load what runs: the file keeps what they do not show, its keys and *)
(* rules are theirs, and a pause that was off stays off.  Not so with       *)
(* default_keys, which brings keys back, nor for a setting that has been    *)
(* changed and is shown but not saved, nor for a chord given to two         *)
(* commands: the file keeps one of them.                                    *)
RestartKeeps ==
    [][Saves /\ ~lastError' /\ Load(file) = {current} /\ Showable(current) /\ Fresh
         /\ ~current.settings["default_keys"] /\ ~Twice(current'.keys)
       => \E c \in Load(file') :
            /\ \A s \in Shown \cup Hidden :
                 \/ c.settings[s] = current'.settings[s]
                 \/ s \notin Saved /\ current'.settings[s] # current.settings[s]
            /\ Bindings(c) = Bindings(current')
            /\ c.rules = current'.rules
            /\ c.pause = current'.pause]_vars
=============================================================================
