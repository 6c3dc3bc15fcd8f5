-------------------------- MODULE MCProcessMonitor --------------------------
(***************************************************************************)
(* Small instances of ProcessMonitor: names and captions are strings, of   *)
(* which "app" is a prefix of "app2" and "Error" of "Error 5".             *)
(***************************************************************************)
EXTENDS ProcessMonitor

MCName == {"app", "app2", "<unknown>"}
MCText == {"Error", "Error 5", "OK"}
MCPrefixOf ==
    {<<s, s>> : s \in MCName \cup MCText} \cup {<<"app", "app2">>, <<"Error", "Error 5">>}

Item(n, h, ws) == [name |-> n, hung |-> h, wins |-> ws]
Win(t, c) == [title |-> t, content |-> c]

\* No windows: which processes run is what matters.
NoTitle == [d \in {} |-> "OK"]
NoKids  == [d \in {} |-> {}]
ExistConfig ==
    { << Item("app2", FALSE, {}), Item("app", FALSE, {}) >>,
      << Item("app2", FALSE, {}) >> }

\* The shorter name comes first.
ShadowConfig == { << Item("app", FALSE, {}), Item("app2", FALSE, {}) >> }

\* Windows: one item, two top-level windows, of which one matches the caption.
MCTitleOf == [d \in {"d1", "d2"} |-> IF d = "d1" THEN "Error 5" ELSE "OK"]
MCKidsOf  == [d \in {"d1", "d2"} |-> IF d = "d1" THEN {"OK", "Error"} ELSE {"OK", "Error 5"}]
WindowConfig ==
    { << Item("app", TRUE, {Win("Error", "OK")}) >>,
      << Item("app", FALSE, {Win("Error", "Error")}) >> }
=============================================================================
