----------------------------- MODULE MCSettings -----------------------------
(* Two chords and one without a modifier; one command of its own and two    *)
(* that run programs and share an identifier.                               *)
EXTENDS Settings

MCId == [ascend |-> "ascend", mail |-> "exec", news |-> "exec"]
MCRank == [exec |-> 1, pause |-> 2, ascend |-> 3]

Keys(typed, others) == {[n \in {<<k, "typed">> : k \in DOMAIN typed} |-> typed[n[1]]] @@ others}

MCDefault ==
    [toml |-> TRUE,
     settings |-> [status_icon |-> TRUE, drag_drop |-> TRUE, default_keys |-> FALSE],
     rules |-> {{}},
     keys |-> Keys([H |-> "ascend"], Written("Cmd") :> "pause")]

Contents(settings, rules, keys) == [toml |-> TRUE, settings |-> settings, rules |-> rules, keys |-> keys]

MCFiles ==
    {Contents([drag_drop |-> FALSE], {{"app"}},
              Keys([H |-> "ascend", J |-> "mail"], Written("Cmd") :> "disable")),
     Contents([status_icon |-> FALSE, default_keys |-> TRUE], {{"titled"}},
              Keys([J |-> "news", K |-> "mail"], Written("Ctrl") :> "pause")),
     Contents(<<>>, {}, Keys([H |-> "ascend", K |-> "mail"], Written("Cmd") :> "disable")),
     [Contents(<<>>, {}, {}) EXCEPT !.toml = FALSE]}
=============================================================================
