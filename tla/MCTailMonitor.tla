--------------------------- MODULE MCTailMonitor ---------------------------
(* Small instances of TailMonitor for TLC. *)
EXTENDS TailMonitor

Mode(regex, followOnly, saveState, timer, isDir, monitors) ==
    [regex |-> regex, followOnly |-> followOnly, saveState |-> saveState,
     timer |-> timer, dir |-> isDir,
     monitors |-> monitors]

One == {CHOOSE t \in Monitors : TRUE}

\* Both ways of cutting messages, with saved positions.
Defaults == Mode(FALSE, FALSE, TRUE, TRUE, TRUE, One)
Multiline == Mode(TRUE, FALSE, TRUE, FALSE, TRUE, One)

\* The regex with the timer; a single file; follow-only; several monitors.
Others ==
    {Mode(TRUE, FALSE, TRUE, TRUE, TRUE, One),
     Mode(FALSE, FALSE, FALSE, TRUE, FALSE, Monitors),
     Mode(TRUE, TRUE, FALSE, FALSE, TRUE, One)}

MCModes == {Defaults, Multiline} \cup Others
MCUnitBound == [m \in MCModes |-> IF m \in Others THEN 2 ELSE 3]

\* A log that stays empty.
DefaultModes == {Defaults}
NoUnits == [m \in DefaultModes |-> 0]
=============================================================================
