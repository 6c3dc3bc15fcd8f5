------------------------------ MODULE MCSensors ------------------------------
EXTENDS Sensors, TLC

\* A board with a chip that is what it says; how often each program is started.
Board(family, model, device, consoles, dialogs) ==
    [family |-> family, model |-> model, ldn |-> device, at |-> 1, addr |-> "good", gpio |-> "good",
     vendor |-> TRUE, temps |-> 1..3, fans |-> <<150, 150, 150, 0, 150>>,
     fanreg |-> <<\h50, 0, 0, 0, 1>>, shift |-> "masked", cpu |-> "intel",
     rights |-> {Console, Dialog}, fails |-> {},
     intrusions |-> 0, kills |-> 0, starts |-> (Console :> consoles) @@ (Dialog :> dialogs)]

\* Two programs side by side, one or none of them killed: the driver and the
\* mutex.  The board without a chip that is known keeps the refreshes short.
Shared ==
    {[Board("winbond", "W83627EHF", 11, 1, 1) EXCEPT !.addr = "bad", !.cpu = "mismatch"],
     [Board("winbond", "NCT6779D", 11, 1, 1) EXCEPT !.cpu = "amd0f", !.kills = 1],
     [Board("fintek", "F71858", 2, 1, 1) EXCEPT !.kills = 1],
     Board("winbond", "W83687THF", 11, 1, 1)}

\* One program, killed and started again.
Restarted ==
    {[Board("winbond", "W83627THF", 11, 0, 2) EXCEPT !.fans[4] = 150, !.kills = 1, !.at = 2],
     [Board("winbond", "NCT6776F", 11, 2, 0) EXCEPT !.kills = 1],
     [Board("fintek", "F71882", 4, 2, 0) EXCEPT !.kills = 1],
     [Board("ite", "IT8720F", 4, 2, 0) EXCEPT !.temps = 1..5, !.kills = 1],
     [Board("ite", "IT8792E", 4, 2, 0) EXCEPT !.kills = 1],
     [Board("smsc", "SCH3112", 4, 2, 0) EXCEPT !.kills = 1]}

\* The dialog refreshes until the fans are at rest, for both outcomes of the
\* shift.
Turning ==
    {[Board("winbond", "W83627EHF", 11, 0, 1) EXCEPT
         !.fans = <<300, 40, 2000, 0, 20>>, !.fanreg = <<\hF3, \hC1, \h85, \h82, \h0D>>, !.shift = s] :
         s \in {"masked", "lost"}}

\* Other chips and failures, and software that does not know the mutex.
Alone ==
    {[Board("winbond", "W83627DHG", 11, 0, 1) EXCEPT !.vendor = FALSE, !.cpu = "amd0f"],
     [Board("winbond", "W83667HG", 11, 1, 0) EXCEPT !.intrusions = 1],
     [Board("fintek", "F71862", 4, 0, 1) EXCEPT !.vendor = FALSE, !.at = 2],
     [Board("ite", "IT8716F", 4, 0, 1) EXCEPT !.vendor = FALSE],
     [Board("ite", "IT8718F", 4, 0, 1) EXCEPT !.gpio = "bad"],
     [Board("ite", "IT8728F", 4, 0, 1) EXCEPT !.at = 2]}
    \cup {[Board("ite", "IT8712F", 4, 1, 0) EXCEPT !.gpio = g, !.intrusions = 1] : g \in {"good", "zero"}}

\* Programs that may not manage services, and calls that are refused: of the
\* driver, and of the processor.  The boards have no chip that is known.
Short == [Board("winbond", "W83627EHF", 11, 0, 1) EXCEPT !.addr = "bad"]
Refused ==
    {[Short EXCEPT !.rights = {}],
     [Short EXCEPT !.rights = {Console}, !.starts = (Console :> 1) @@ (Dialog :> 1), !.cpu = "other"],
     [Short EXCEPT !.fails = {"open", "extract"}, !.starts = (Console :> 1) @@ (Dialog :> 1), !.cpu = "amd10"]}
    \cup {[Short EXCEPT !.fails = {f}] : f \in {"create", "start", "pin", "msr"}}
    \cup {[Short EXCEPT !.fails = {"pci"}, !.cpu = c] : c \in {"amd0f", "amd10"}}

MCBoards == Refused \cup Shared \cup Restarted \cup Turning \cup Alone
=============================================================================
